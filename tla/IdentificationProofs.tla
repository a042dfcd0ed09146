------------------------ MODULE IdentificationProofs ------------------------
(***************************************************************************)
(* Proof that descriptor lookups release what they take, for every        *)
(* catalog, every set of names and every bound on the calls.               *)
(***************************************************************************)
EXTENDS Identification, TLAPS

PCs == {"idle", "pat", "pscan", "fb", "found", "mstart", "mscan"}

(* The inductive invariant: the identification code never keeps a        *)
(* descriptor across a step, and an iterator is live exactly while a scan  *)
(* is running.  NoDescriptorLeak alone is not inductive: it says nothing   *)
(* about iter inside a call, where the step that returns must find it      *)
(* already freed or free it.                                                *)
LeakInv ==
    /\ pc \in PCs
    /\ held = 0
    /\ iter <=> pc \in {"pscan", "fb", "mscan"}

-----------------------------------------------------------------------------
(* What a caller does after find_descriptor_by_name returns: it keeps no   *)
(* descriptor and is back with the application or on its way to           *)
(* open_ble_device.                                                         *)
LEMMA NameLookupReturnsFacts ==
    ASSUME NEW r, held \in Nat, NameLookupReturns(r)
    PROVE  held' = held /\ pc' \in {"idle", "found"}
<1>1. CASE r.status # "success"
  BY <1>1 DEF NameLookupReturns
<1>2. CASE r.status = "success" /\ op = "info"
  BY <1>2 DEF NameLookupReturns
<1>3. CASE r.status = "success" /\ op = "label"
  <2>1. \E mallocOk \in BOOLEAN : held' = LabelRelease(held + 1, mallocOk)
    BY <1>3 DEF NameLookupReturns
  <2>2. held' = held
    BY <2>1 DEF LabelRelease
  <2>3. pc' = "idle"
    BY <1>3 DEF NameLookupReturns
  <2>. QED  BY <2>2, <2>3
<1>4. CASE r.status = "success" /\ op \notin {"info", "label"}
  BY <1>4 DEF NameLookupReturns
<1>. QED  BY <1>1, <1>2, <1>3, <1>4

(* find_descriptor_by_model's callers keep no descriptor either.           *)
LEMMA ModelLookupReturnsFacts ==
    ASSUME NEW r, ModelLookupReturns(r)
    PROVE  held' = held /\ pc' = "idle"
BY DEF ModelLookupReturns

-----------------------------------------------------------------------------
LEMMA InitLeakInv == Init => LeakInv
BY DEF Init, LeakInv, PCs

LEMMA NextLeakInv == LeakInv /\ [Next]_vars => LeakInv'
<1>. SUFFICES ASSUME LeakInv, [Next]_vars PROVE LeakInv'
  OBVIOUS
<1>0. held \in Nat
  BY DEF LeakInv
<1>1. CASE CallByName
  BY <1>1 DEF CallByName, LeakInv, PCs
<1>2. CASE create_parser_for_device
  BY <1>2 DEF create_parser_for_device, LeakInv, PCs
<1>3. CASE TestPattern
  <2>1. CASE PatternMatches(name, NamePatterns[i])
    <3>1. CASE pc' = "pscan" /\ iter' = TRUE /\ held' = held
      BY <3>1, <1>3 DEF LeakInv, PCs, TestPattern
    <3>2. CASE NameLookupReturns(Failed("iterator_error")) /\ iter' = iter
      <4>1. held' = held /\ pc' \in {"idle", "found"}
        BY <3>2, <1>0, NameLookupReturnsFacts
      <4>. QED  BY <4>1, <3>2, <1>3 DEF LeakInv, PCs, TestPattern
    <3>. QED  BY <2>1, <3>1, <3>2, <1>3 DEF TestPattern
  <2>2. CASE ~PatternMatches(name, NamePatterns[i])
    BY <2>2, <1>3 DEF TestPattern, LeakInv, PCs
  <2>. QED  BY <2>1, <2>2
<1>4. CASE ScanForPattern
  <2>1. CASE SameProduct(Catalog[j], NamePatterns[i])
    <3>1. iter' = FALSE /\ NameLookupReturns(Found(j))
      BY <2>1, <1>4 DEF ScanForPattern
    <3>2. held' = held /\ pc' \in {"idle", "found"}
      BY <3>1, <1>0, NameLookupReturnsFacts
    <3>. QED  BY <3>1, <3>2 DEF LeakInv, PCs
  <2>2. CASE ~SameProduct(Catalog[j], NamePatterns[i])
    BY <2>2, <1>4 DEF ScanForPattern, LeakInv, PCs
  <2>. QED  BY <2>1, <2>2
<1>5. CASE PatternScanDone
  BY <1>5 DEF PatternScanDone, LeakInv, PCs
<1>6. CASE StartFallback
  <2>1. CASE pc' = "fb" /\ iter' = TRUE /\ held' = held
    BY <2>1 DEF LeakInv, PCs
  <2>2. CASE NameLookupReturns(Failed("iterator_error")) /\ iter' = iter
    <3>1. held' = held /\ pc' \in {"idle", "found"}
      BY <2>2, <1>0, NameLookupReturnsFacts
    <3>. QED  BY <3>1, <2>2, <1>6 DEF LeakInv, PCs, StartFallback
  <2>. QED  BY <2>1, <2>2, <1>6 DEF StartFallback
<1>7. CASE ScanFallback
  <2>1. CASE j <= Len(Catalog) /\ FilterAccepts(Catalog[j], name)
    <3>1. iter' = FALSE /\ NameLookupReturns(Found(j))
      BY <2>1, <1>7 DEF ScanFallback
    <3>2. held' = held /\ pc' \in {"idle", "found"}
      BY <3>1, <1>0, NameLookupReturnsFacts
    <3>. QED  BY <3>1, <3>2 DEF LeakInv, PCs
  <2>2. CASE j <= Len(Catalog) /\ ~FilterAccepts(Catalog[j], name)
    BY <2>2, <1>7 DEF ScanFallback, LeakInv, PCs
  <2>3. CASE ~(j <= Len(Catalog))
    <3>1. iter' = FALSE /\ NameLookupReturns(Failed("unsupported"))
      BY <2>3, <1>7 DEF ScanFallback
    <3>2. held' = held /\ pc' \in {"idle", "found"}
      BY <3>1, <1>0, NameLookupReturnsFacts
    <3>. QED  BY <3>1, <3>2 DEF LeakInv, PCs
  <2>. QED  BY <2>1, <2>2, <2>3
<1>8. CASE StartModelScan
  <2>1. CASE pc' = "mscan" /\ iter' = TRUE /\ held' = held
    BY <2>1 DEF LeakInv, PCs
  <2>2. CASE ModelLookupReturns(Failed("iterator_error")) /\ iter' = iter
    <3>1. held' = held /\ pc' = "idle"
      BY <2>2, ModelLookupReturnsFacts
    <3>. QED  BY <3>1, <2>2, <1>8 DEF LeakInv, PCs, StartModelScan
  <2>. QED  BY <2>1, <2>2, <1>8 DEF StartModelScan
<1>9. CASE ScanForModel
  <2>1. CASE j <= Len(Catalog) /\ Catalog[j].family = target.family
             /\ Catalog[j].model = target.model
    <3>1. iter' = FALSE /\ ModelLookupReturns(Found(j))
      BY <2>1, <1>9 DEF ScanForModel
    <3>2. held' = held /\ pc' = "idle"
      BY <3>1, ModelLookupReturnsFacts
    <3>. QED  BY <3>1, <3>2 DEF LeakInv, PCs
  <2>2. CASE j <= Len(Catalog) /\ ~(Catalog[j].family = target.family
                                    /\ Catalog[j].model = target.model)
    BY <2>2, <1>9 DEF ScanForModel, LeakInv, PCs
  <2>3. CASE ~(j <= Len(Catalog))
    <3>1. iter' = FALSE /\ ModelLookupReturns(Failed("unsupported"))
      BY <2>3, <1>9 DEF ScanForModel
    <3>2. held' = held /\ pc' = "idle"
      BY <3>1, ModelLookupReturnsFacts
    <3>. QED  BY <3>1, <3>2 DEF LeakInv, PCs
  <2>. QED  BY <2>1, <2>2, <2>3
<1>10. CASE open_ble_device
  BY <1>10 DEF open_ble_device, LeakInv, PCs
<1>11. CASE Terminating
  BY <1>11 DEF Terminating, vars, LeakInv
<1>12. CASE UNCHANGED vars
  BY <1>12 DEF vars, LeakInv
<1>. QED
  BY <1>1, <1>2, <1>3, <1>4, <1>5, <1>6, <1>7, <1>8, <1>9, <1>10, <1>11, <1>12
     DEF Next

-----------------------------------------------------------------------------
(* LeakInv holds in every reachable state.                                 *)
THEOREM LeakInvInvariant == Spec => []LeakInv
<1>1. Init => LeakInv
  BY InitLeakInv
<1>2. LeakInv /\ [Next]_vars => LeakInv'
  BY NextLeakInv
<1>. QED  BY <1>1, <1>2, PTL DEF Spec

(* For every catalog, name set and call bound: when a call of            *)
(* get_device_info_from_name, get_formatted_device_name,                   *)
(* create_parser_for_device or the identification path of the open has    *)
(* returned, no descriptor is held and no catalog iterator is live; every *)
(* return of find_descriptor_by_name and find_descriptor_by_model frees    *)
(* its iterator and each caller frees its descriptor.                      *)
THEOREM NoDescriptorLeakInvariant == Spec => []NoDescriptorLeak
<1>1. LeakInv => NoDescriptorLeak
  BY DEF LeakInv, NoDescriptorLeak
<1>. QED  BY <1>1, LeakInvInvariant, PTL

=============================================================================
