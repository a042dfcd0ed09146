--------------------------- MODULE Identification ---------------------------
(***************************************************************************)
(* Device identification in configuredc.c, step by step: the pattern loop *)
(* of find_descriptor_by_name (one step per table entry, one per catalog   *)
(* descriptor it scans), its BLE filter fallback, the scan of             *)
(* find_descriptor_by_model, and the four callers: get_device_info_from_   *)
(* name, get_formatted_device_name, create_parser_for_device and the       *)
(* identification path of open_ble_device_with_identification, up to the  *)
(* "Vendor Product" label open_ble_device stores.                          *)
(*                                                                         *)
(* Heap: held counts the descriptors the identification code owns, iter    *)
(* whether a catalog iterator is live.  A descriptor the iterator hands    *)
(* out and the scan rejects is freed in the same step (lines 564, 585,     *)
(* 408), so it does not show in held.                                       *)
(***************************************************************************)
EXTENDS IdentificationTable

CONSTANTS Names, MaxCalls

ASSUME IdentificationAssumption ==
    /\ MaxCalls \in Nat
    /\ Names \subseteq STRING

VARIABLES
    pc,        \* where the single calling thread is
    op,        \* the caller whose lookup is running
    name,      \* the advertised name being resolved
    target,    \* the (family, model) being looked up
    i,         \* index into NamePatterns (loop at line 529)
    j,         \* index of the catalog descriptor the iterator is at
    iter,      \* a dc_iterator_t is live
    held,      \* descriptors owned by the identification code
    result,    \* what the last lookup returned: status and descriptor
    fmtLabel,  \* per name, what get_formatted_device_name last returned
    sessLabel, \* per name, data->model of the last session opened by name
    calls      \* calls made, bounded by MaxCalls

vars == <<pc, op, name, target, i, j, iter, held, result, fmtLabel, sessLabel, calls>>

NoLabel == "NULL"

Init ==
    /\ pc = "idle"
    /\ op = "none"
    /\ name = ""
    /\ target = NoModel
    /\ i = 1
    /\ j = 1
    /\ iter = FALSE
    /\ held = 0
    /\ result = Failed("none")
    /\ fmtLabel = [n \in Names |-> NoLabel]
    /\ sessLabel = [n \in Names |-> NoLabel]
    /\ calls = 0

(***************************************************************************)
(* Callers.                                                                *)
(***************************************************************************)

(* get_device_info_from_name, get_formatted_device_name and the fallback  *)
(* of open_ble_device_with_identification all start with                 *)
(* find_descriptor_by_name(name).                                           *)
CallByName ==
    /\ pc = "idle"
    /\ calls < MaxCalls
    /\ \E o \in {"info", "label", "open"}, n \in Names :
          /\ op' = o
          /\ name' = n
    /\ pc' = "pat"
    /\ i' = 1
    /\ calls' = calls + 1
    /\ UNCHANGED <<target, j, iter, held, result, fmtLabel, sessLabel>>

(* create_parser_for_device(family, model) starts with                    *)
(* find_descriptor_by_model.                                               *)
create_parser_for_device ==
    /\ pc = "idle"
    /\ calls < MaxCalls
    /\ \E t \in ModelKeys : target' = t
    /\ op' = "parser"
    /\ pc' = "mstart"
    /\ calls' = calls + 1
    /\ UNCHANGED <<name, i, j, iter, held, result, fmtLabel, sessLabel>>

(* Mutant: the descriptor is freed twice.                                 *)
LabelReleaseTwice(h, mallocOk) == h - 2

(* Mutant: get_formatted_device_name returns NULL on a failed malloc      *)
(* before freeing the descriptor.                                           *)
LabelReleaseUnlessNoMemory(h, mallocOk) == IF mallocOk THEN h - 1 ELSE h

(* What the caller does with the descriptor find_descriptor_by_name      *)
(* returned: get_device_info_from_name reads family and model and frees it *)
(* (604-606); get_formatted_device_name formats the label if malloc        *)
(* succeeds and frees it either way (623-635); the open path frees it and  *)
(* goes on to open_ble_device with that family and model (662-668).        *)
LabelRelease(h, mallocOk) == h - 1

NameLookupReturns(r) ==
    /\ result' = r
    /\ IF r.status # "success"
       THEN /\ pc' = "idle"
            /\ held' = held
            /\ fmtLabel' = IF op = "label" THEN [fmtLabel EXCEPT ![name] = NoLabel] ELSE fmtLabel
            /\ UNCHANGED target
       ELSE CASE op = "info" ->
                   /\ pc' = "idle" /\ held' = held /\ UNCHANGED <<target, fmtLabel>>
              [] op = "label" ->
                   /\ pc' = "idle"
                   /\ \E mallocOk \in BOOLEAN :
                         /\ held' = LabelRelease(held + 1, mallocOk)
                         /\ fmtLabel' = [fmtLabel EXCEPT ![name] =
                                           IF mallocOk THEN Label(Catalog[r.desc]) ELSE NoLabel]
                   /\ UNCHANGED target
              [] OTHER ->
                   /\ pc' = "found"
                   /\ held' = held
                   /\ target' = [family |-> Catalog[r.desc].family, model |-> Catalog[r.desc].model]
                   /\ UNCHANGED fmtLabel

(* What the caller does with the descriptor find_descriptor_by_model      *)
(* returned: create_parser_for_device frees it after dc_parser_new2       *)
(* (431-432); open_ble_device keeps it in data->descriptor and stores the *)
(* "Vendor Product" label when malloc succeeds (361-375), unless a later  *)
(* step of the open fails and the session is torn down.                    *)
ModelLookupReturns(r) ==
    /\ result' = r
    /\ pc' = "idle"
    /\ held' = held
    /\ IF op = "open"
       THEN \E opened, mallocOk \in BOOLEAN :
               sessLabel' = [sessLabel EXCEPT ![name] =
                               IF r.status = "success" /\ opened /\ mallocOk
                               THEN Label(Catalog[r.desc]) ELSE NoLabel]
       ELSE UNCHANGED sessLabel

(***************************************************************************)
(* find_descriptor_by_name.                                                 *)
(***************************************************************************)

(* Lines 530-551: test entry i; on a match create an iterator, returning  *)
(* its status if that fails.                                                *)
TestPattern ==
    /\ pc = "pat"
    /\ i <= Len(NamePatterns)
    /\ IF PatternMatches(name, NamePatterns[i])
       THEN \/ /\ pc' = "pscan" /\ j' = 1 /\ iter' = TRUE
               /\ UNCHANGED <<i, held, result, target, fmtLabel>>
            \/ /\ NameLookupReturns(Failed("iterator_error"))
               /\ UNCHANGED <<i, j, iter>>
       ELSE /\ i' = i + 1
            /\ UNCHANGED <<pc, j, iter, held, result, target, fmtLabel>>
    /\ UNCHANGED <<op, name, sessLabel, calls>>

(* Lines 553-565: the descriptor at j has the entry's vendor and product *)
(* and is returned, or is freed and the scan moves on.                      *)
ScanForPattern ==
    /\ pc = "pscan"
    /\ j <= Len(Catalog)
    /\ IF SameProduct(Catalog[j], NamePatterns[i])
       THEN /\ iter' = FALSE
            /\ NameLookupReturns(Found(j))
            /\ UNCHANGED <<i, j>>
       ELSE /\ j' = j + 1
            /\ UNCHANGED <<pc, i, iter, held, result, target, fmtLabel>>
    /\ UNCHANGED <<op, name, sessLabel, calls>>

(* Mutant: the loop retries the same entry instead of moving on.         *)
PatternScanDoneRetry ==
    /\ pc = "pscan"
    /\ j = Len(Catalog) + 1
    /\ iter' = FALSE
    /\ pc' = "pat"
    /\ i' = i
    /\ UNCHANGED <<op, name, target, j, held, result, fmtLabel, sessLabel, calls>>

(* Line 566: no descriptor matched; free the iterator, try the next entry. *)
PatternScanDone ==
    /\ pc = "pscan"
    /\ j = Len(Catalog) + 1
    /\ iter' = FALSE
    /\ pc' = "pat"
    /\ i' = i + 1
    /\ UNCHANGED <<op, name, target, j, held, result, fmtLabel, sessLabel, calls>>

(* Lines 571-574: every entry tried; create the fallback iterator.        *)
StartFallback ==
    /\ pc = "pat"
    /\ i = Len(NamePatterns) + 1
    /\ \/ /\ pc' = "fb" /\ j' = 1 /\ iter' = TRUE
          /\ UNCHANGED <<held, result, target, fmtLabel>>
       \/ /\ NameLookupReturns(Failed("iterator_error"))
          /\ UNCHANGED <<j, iter>>
    /\ UNCHANGED <<op, name, i, sessLabel, calls>>

(* Lines 576-589: the first BLE descriptor whose filter accepts the name, *)
(* or Unsupported once the iterator is done.                                *)
ScanFallback ==
    /\ pc = "fb"
    /\ IF j <= Len(Catalog)
       THEN IF FilterAccepts(Catalog[j], name)
            THEN /\ iter' = FALSE
                 /\ NameLookupReturns(Found(j))
                 /\ UNCHANGED j
            ELSE /\ j' = j + 1
                 /\ UNCHANGED <<pc, iter, held, result, target, fmtLabel>>
       ELSE /\ iter' = FALSE
            /\ NameLookupReturns(Failed("unsupported"))
            /\ UNCHANGED j
    /\ UNCHANGED <<op, name, i, sessLabel, calls>>

(***************************************************************************)
(* find_descriptor_by_model.                                                *)
(***************************************************************************)

(* Lines 395-399.                                                          *)
StartModelScan ==
    /\ pc = "mstart"
    /\ \/ /\ pc' = "mscan" /\ j' = 1 /\ iter' = TRUE
          /\ UNCHANGED <<held, result, sessLabel>>
       \/ /\ ModelLookupReturns(Failed("iterator_error"))
          /\ UNCHANGED <<j, iter>>
    /\ UNCHANGED <<op, name, target, i, fmtLabel, calls>>

(* Lines 401-413: the first descriptor of that family and model, or       *)
(* Unsupported.  A returned descriptor passes to the caller.               *)
ScanForModel ==
    /\ pc = "mscan"
    /\ IF j <= Len(Catalog)
       THEN IF Catalog[j].family = target.family /\ Catalog[j].model = target.model
            THEN /\ iter' = FALSE
                 /\ ModelLookupReturns(Found(j))
                 /\ UNCHANGED j
            ELSE /\ j' = j + 1
                 /\ UNCHANGED <<pc, iter, held, result, sessLabel>>
       ELSE /\ iter' = FALSE
            /\ ModelLookupReturns(Failed("unsupported"))
            /\ UNCHANGED j
    /\ UNCHANGED <<op, name, target, i, fmtLabel, calls>>

(* Line 668: the identified family and model go to open_ble_device,      *)
(* whose lookup is find_descriptor_by_model (line 328).                     *)
open_ble_device ==
    /\ pc = "found"
    /\ pc' = "mstart"
    /\ UNCHANGED <<op, name, target, i, j, iter, held, result, fmtLabel, sessLabel, calls>>

(* Once MaxCalls calls are made the caller stops.                           *)
Terminating == pc = "idle" /\ calls = MaxCalls /\ UNCHANGED vars

Next ==
    \/ CallByName
    \/ create_parser_for_device
    \/ TestPattern
    \/ ScanForPattern
    \/ PatternScanDone
    \/ StartFallback
    \/ ScanFallback
    \/ StartModelScan
    \/ open_ble_device
    \/ ScanForModel
    \/ Terminating

Spec == Init /\ [][Next]_vars /\ WF_vars(Next /\ pc # "idle")

(***************************************************************************)
(* Properties.                                                              *)
(***************************************************************************)

TypeOK ==
    /\ pc \in {"idle", "pat", "pscan", "fb", "found", "mstart", "mscan"}
    /\ op \in {"none", "info", "label", "open", "parser"}
    /\ name \in Names \cup {""}
    /\ target \in ModelKeys \cup {NoModel}
    /\ i \in 1..(Len(NamePatterns) + 1)
    /\ j \in 1..(Len(Catalog) + 1)
    /\ iter \in BOOLEAN
    /\ held \in Nat
    /\ result \in [status : {"none", "unsupported", "iterator_error"}, desc : {0}]
                  \cup [status : {"success"}, desc : DOMAIN Catalog]
    /\ fmtLabel \in [Names -> {Label(d) : d \in {Catalog[c] : c \in DOMAIN Catalog}} \cup {NoLabel}]
    /\ sessLabel \in [Names -> {Label(d) : d \in {Catalog[c] : c \in DOMAIN Catalog}} \cup {NoLabel}]
    /\ calls \in 0..MaxCalls

(* Every path out of a lookup and out of its caller releases what it took: *)
(* between calls no descriptor is held by the identification code and no  *)
(* catalog iterator is live (dc_descriptor_free and dc_iterator_free on    *)
(* every return of find_descriptor_by_name, find_descriptor_by_model,      *)
(* get_device_info_from_name and get_formatted_device_name; spec 4.2).     *)
NoDescriptorLeak == pc = "idle" => held = 0 /\ ~iter

(* The order of name_patterns[] ("order matters, the first match wins"):  *)
(* an entry whose key contains another entry's key, and so names a more   *)
(* specific device, is listed before that broader entry.                  *)
TableOrder ==
    \A k, e \in DOMAIN NamePatterns :
        NamePatterns[k].key # NamePatterns[e].key
        /\ Contains(NamePatterns[k].key, NamePatterns[e].key) => k < e

(* Table precedence (spec section 8): when find_descriptor_by_name answers *)
(* from the pattern loop with entry i, no entry whose key strictly extends *)
(* entry i's key also matches the name and names a descriptor of the       *)
(* catalog: a more specific name never resolves through a broader entry.  *)
AnsweredByPattern ==
    /\ result.status = "success"
    /\ i <= Len(NamePatterns)
    /\ \/ pc = "found"
       \/ pc = "idle" /\ op \in {"info", "label"}

MostSpecificWins ==
    AnsweredByPattern =>
        \A k \in DOMAIN NamePatterns :
            ( /\ NamePatterns[k].key # NamePatterns[i].key
              /\ Contains(NamePatterns[k].key, NamePatterns[i].key)
              /\ PatternMatches(name, NamePatterns[k])
              /\ \E c \in DOMAIN Catalog : SameProduct(Catalog[c], NamePatterns[k]) )
            => FALSE

(* Every lookup a caller starts returns to it: the pattern loop, the      *)
(* catalog scans and the fallback all terminate, given that the calling   *)
(* thread keeps running.                                                   *)
LookupsReturn == pc # "idle" ~> pc = "idle"

(* The step-by-step lookups implement the declarative contract of spec   *)
(* 4.2: while the code is inside find_descriptor_by_name or               *)
(* find_descriptor_by_model the abstract query is pending, and every      *)
(* answer is the one the contract gives, or an iterator error.            *)
QueryOf ==
    CASE pc \in {"pat", "pscan", "fb"} -> [kind |-> "name", name |-> name, model |-> NoModel]
      [] pc \in {"mstart", "mscan"}    -> [kind |-> "model", name |-> "", model |-> target]
      [] OTHER                         -> [kind |-> "none", name |-> "", model |-> NoModel]

NR == INSTANCE NameResolution WITH query <- QueryOf, result <- result

ResolutionRefined == NR!ASpec

(* The label a session stores (data->model, set from the descriptor that  *)
(* find_descriptor_by_model returns) is the label get_formatted_device_name *)
(* gives for the same advertised name.                                      *)
SessionLabelMatchesName ==
    \A n \in Names :
        fmtLabel[n] # NoLabel /\ sessLabel[n] # NoLabel => fmtLabel[n] = sessLabel[n]

=============================================================================
