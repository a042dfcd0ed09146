----------------------- MODULE IdentificationRefinement -----------------------
(***************************************************************************)
(* Proof that the step-by-step lookups of configuredc.c implement the     *)
(* declarative contract NameResolution (spec 4.2) under the mapping of    *)
(* Identification: query <- QueryOf, result <- result.  The match tests   *)
(* (strstr, strncmp, the BLE filter) stay opaque: the proof holds for any *)
(* table entries, catalog and names, whatever each test returns.          *)
(***************************************************************************)
EXTENDS IdentificationProofs

(* The pattern loop has rejected every table entry before i.              *)
EarlierEntriesMiss(k) == \A e \in 1..(k - 1) : e \notin NR!PatternHits(name)

(* What TypeOK allows for result and for the two label maps.              *)
Results == [status : {"none", "unsupported", "iterator_error"}, desc : {0}]
           \cup [status : {"success"}, desc : DOMAIN Catalog]

Labels == {Label(d) : d \in {Catalog[c] : c \in DOMAIN Catalog}} \cup {NoLabel}

(* TypeOK with its sets named, so that the provers keep them opaque.     *)
TypeInv ==
    /\ pc \in {"idle", "pat", "pscan", "fb", "found", "mstart", "mscan"}
    /\ op \in {"none", "info", "label", "open", "parser"}
    /\ name \in Names \cup {""}
    /\ target \in ModelKeys \cup {NoModel}
    /\ i \in 1..(Len(NamePatterns) + 1)
    /\ j \in 1..(Len(Catalog) + 1)
    /\ iter \in BOOLEAN
    /\ held \in Nat
    /\ result \in Results
    /\ fmtLabel \in [Names -> Labels]
    /\ sessLabel \in [Names -> Labels]
    /\ calls \in 0..MaxCalls

(* The inductive invariant of the refinement.  Beyond TypeOK it records   *)
(* what each running loop has already ruled out: the entries before i,    *)
(* the catalog descriptors before j.  Without it the step that returns    *)
(* the descriptor at j could not be shown to return the FIRST one the     *)
(* contract names.                                                          *)
LookupShape ==
    /\ pc \in {"pat", "pscan", "fb", "found"} => name \in Names
    /\ pc \in {"mstart", "mscan"} /\ op = "open" => name \in Names
    /\ pc \in {"found", "mstart", "mscan"} => target \in ModelKeys
    /\ pc \in {"pat", "pscan"} => EarlierEntriesMiss(i)
    /\ pc = "pscan" =>
          /\ i <= Len(NamePatterns)
          /\ PatternMatches(name, NamePatterns[i])
          /\ \A c \in 1..(j - 1) : ~SameProduct(Catalog[c], NamePatterns[i])
    /\ pc = "fb" =>
          /\ NR!PatternHits(name) = {}
          /\ \A c \in 1..(j - 1) : ~FilterAccepts(Catalog[c], name)
    /\ pc = "mscan" => \A c \in 1..(j - 1) : c \notin NR!ModelHits(target)

RefInv == TypeInv /\ LookupShape

-----------------------------------------------------------------------------
(* The table and the catalog are sequences, indexed 1..Len.               *)
LEMMA TableIsSeq ==
    /\ Len(NamePatterns) \in Nat
    /\ DOMAIN NamePatterns = 1..Len(NamePatterns)
BY DEF NamePatterns, Pat

LEMMA CatalogIsSeq ==
    Len(Catalog) \in Nat /\ DOMAIN Catalog = 1..Len(Catalog)
BY CatalogAssumption

(* The least element of a set of naturals is the one no other is below. *)
LEMMA FirstIs ==
    ASSUME NEW S \in SUBSET Nat, NEW x \in S, \A y \in S : x <= y
    PROVE  NR!First(S) = x
<1>1. NR!First(S) \in S /\ \A y \in S : NR!First(S) <= y
  BY DEF NR!First
<1>2. NR!First(S) \in Nat /\ x \in Nat
  BY <1>1
<1>3. NR!First(S) <= x /\ x <= NR!First(S)
  BY <1>1
<1>. QED  BY <1>2, <1>3

(* The contract reads the table and the tests through the instance NR;   *)
(* they are the code's own.  Exact and Contains both test with strstr,    *)
(* which is what SpecMatches says.                                         *)
LEMMA ContractOps ==
    /\ NR!NamePatterns = NamePatterns
    /\ NR!NoModel = NoModel
    /\ \A n, p : NR!SpecMatches(n, p) = PatternMatches(n, p)
    /\ \A d, p : NR!SameProduct(d, p) = SameProduct(d, p)
    /\ \A d, n : NR!FilterAccepts(d, n) = FilterAccepts(d, n)
    /\ \A c : NR!Found(c) = Found(c)
    /\ \A st : NR!Failed(st) = Failed(st)
    /\ NR!ModelKeys = ModelKeys
<1>1. NR!NamePatterns = NamePatterns
  BY DEF NR!NamePatterns, NamePatterns, NR!Pat, Pat
<1>2. \A n, p : NR!SpecMatches(n, p) = PatternMatches(n, p)
  BY DEF NR!SpecMatches, PatternMatches, NR!StartsWith, StartsWith, NR!Contains, Contains
<1>3. \A d, n : NR!FilterAccepts(d, n) = FilterAccepts(d, n)
  BY DEF NR!FilterAccepts, FilterAccepts, NR!Contains, Contains
<1>. QED
  BY <1>1, <1>2, <1>3 DEF NR!NoModel, NoModel, NR!SameProduct, SameProduct,
                          NR!Found, Found, NR!Failed, Failed, NR!ModelKeys, ModelKeys

-----------------------------------------------------------------------------
(* The abstract query while a name lookup or a model lookup runs.          *)
NameQuery == [kind |-> "name", name |-> name, model |-> NoModel]

ModelQuery == [kind |-> "model", name |-> "", model |-> target]

LEMMA QueryOfFacts ==
    /\ pc \in {"pat", "pscan", "fb"} => QueryOf = NameQuery
    /\ pc \in {"mstart", "mscan"} => QueryOf = ModelQuery
    /\ pc \in {"idle", "found"} => QueryOf = NR!NoQuery
BY DEF QueryOf, NameQuery, ModelQuery, NR!NoQuery, NR!NoModel, NoModel

-----------------------------------------------------------------------------
(* ScanForPattern's hit is the contract's answer: entry i is the first    *)
(* that matches and has a descriptor, and j the first descriptor of it.   *)
LEMMA PatternAnswer ==
    ASSUME RefInv, pc = "pscan", j <= Len(Catalog),
           SameProduct(Catalog[j], NamePatterns[i])
    PROVE  NR!SpecResolve(NameQuery) = Found(j)
<1>1. i \in 1..(Len(NamePatterns) + 1) /\ j \in 1..(Len(Catalog) + 1)
  BY DEF RefInv, TypeInv
<1>2. /\ i <= Len(NamePatterns)
      /\ EarlierEntriesMiss(i)
      /\ PatternMatches(name, NamePatterns[i])
      /\ \A c \in 1..(j - 1) : ~SameProduct(Catalog[c], NamePatterns[i])
  BY DEF RefInv, LookupShape
<1>3. i \in 1..Len(NamePatterns) /\ j \in 1..Len(Catalog)
  BY <1>1, <1>2, TableIsSeq, CatalogIsSeq
<1>4. NR!PatternHits(name) \subseteq 1..Len(NamePatterns)
  BY TableIsSeq, ContractOps DEF NR!PatternHits
<1>5. i \in NR!PatternHits(name)
  <2>1. NR!SpecMatches(name, NR!NamePatterns[i])
    BY <1>2, ContractOps
  <2>2. NR!SameProduct(Catalog[j], NR!NamePatterns[i])
    BY ContractOps
  <2>. QED  BY <1>3, <2>1, <2>2, TableIsSeq, CatalogIsSeq, ContractOps DEF NR!PatternHits
<1>6. NR!First(NR!PatternHits(name)) = i
  <2>1. \A k \in NR!PatternHits(name) : i <= k
    BY <1>2, <1>3, <1>4 DEF EarlierEntriesMiss
  <2>. QED  BY <1>4, <1>5, <2>1, FirstIs
<1>. DEFINE Firsts == {c \in DOMAIN Catalog : NR!SameProduct(Catalog[c], NR!NamePatterns[i])}
<1>7. NR!First(Firsts) = j
  <2>1. Firsts = {c \in 1..Len(Catalog) : SameProduct(Catalog[c], NamePatterns[i])}
    BY CatalogIsSeq, ContractOps
  <2>2. j \in Firsts /\ \A c \in Firsts : j <= c
    BY <1>2, <1>3, <2>1
  <2>. QED  BY <2>1, <2>2, FirstIs
<1>8. NR!SpecResolve(NameQuery) = NR!Found(NR!First(Firsts))
  BY <1>5, <1>6 DEF NR!SpecResolve, NameQuery
<1>. QED  BY <1>7, <1>8, ContractOps

(* ScanFallback's hit: no entry applies, and j is the first descriptor    *)
(* whose filter accepts the name.                                          *)
LEMMA FallbackAnswer ==
    ASSUME RefInv, pc = "fb", j <= Len(Catalog), FilterAccepts(Catalog[j], name)
    PROVE  NR!SpecResolve(NameQuery) = Found(j)
<1>1. j \in 1..(Len(Catalog) + 1)
  BY DEF RefInv, TypeInv
<1>2. /\ NR!PatternHits(name) = {}
      /\ \A c \in 1..(j - 1) : ~FilterAccepts(Catalog[c], name)
  BY DEF RefInv, LookupShape
<1>3. NR!FilterHits(name) = {c \in 1..Len(Catalog) : FilterAccepts(Catalog[c], name)}
  BY CatalogIsSeq, ContractOps DEF NR!FilterHits
<1>4. j \in NR!FilterHits(name) /\ \A c \in NR!FilterHits(name) : j <= c
  BY <1>1, <1>2, <1>3, CatalogIsSeq
<1>5. NR!First(NR!FilterHits(name)) = j
  BY <1>3, <1>4, CatalogIsSeq, FirstIs
<1>6. NR!SpecResolve(NameQuery) = NR!Found(NR!First(NR!FilterHits(name)))
  BY <1>2, <1>4 DEF NR!SpecResolve, NameQuery
<1>. QED  BY <1>5, <1>6, ContractOps

(* ScanFallback past the end: neither an entry nor a filter applies.      *)
LEMMA FallbackExhausted ==
    ASSUME RefInv, pc = "fb", ~(j <= Len(Catalog))
    PROVE  NR!SpecResolve(NameQuery) = Failed("unsupported")
<1>0. j \in 1..(Len(Catalog) + 1)
  BY DEF RefInv, TypeInv
<1>1. j = Len(Catalog) + 1
  BY <1>0, CatalogIsSeq
<1>2. /\ NR!PatternHits(name) = {}
      /\ \A c \in 1..(j - 1) : ~FilterAccepts(Catalog[c], name)
  BY DEF RefInv, LookupShape
<1>3. NR!FilterHits(name) = {}
  BY <1>1, <1>2, CatalogIsSeq, ContractOps DEF NR!FilterHits
<1>4. NR!SpecResolve(NameQuery) = NR!Failed("unsupported")
  BY <1>2, <1>3 DEF NR!SpecResolve, NameQuery
<1>. QED  BY <1>4, ContractOps

(* ScanForModel's hit is the first descriptor with that family and model. *)
LEMMA ModelAnswer ==
    ASSUME RefInv, pc = "mscan", j <= Len(Catalog),
           Catalog[j].family = target.family, Catalog[j].model = target.model
    PROVE  NR!SpecResolve(ModelQuery) = Found(j)
<1>1. j \in 1..(Len(Catalog) + 1)
  BY DEF RefInv, TypeInv
<1>2. \A c \in 1..(j - 1) : c \notin NR!ModelHits(target)
  BY DEF RefInv, LookupShape
<1>3. j \in NR!ModelHits(target) /\ \A c \in NR!ModelHits(target) : j <= c
  BY <1>1, <1>2, CatalogIsSeq DEF NR!ModelHits
<1>4. NR!First(NR!ModelHits(target)) = j
  BY <1>3, CatalogIsSeq, FirstIs DEF NR!ModelHits
<1>5. NR!SpecResolve(ModelQuery) = NR!Found(NR!First(NR!ModelHits(target)))
  BY <1>3 DEF NR!SpecResolve, ModelQuery
<1>. QED  BY <1>4, <1>5, ContractOps

(* ScanForModel past the end: no descriptor has that family and model.    *)
LEMMA ModelExhausted ==
    ASSUME RefInv, pc = "mscan", ~(j <= Len(Catalog))
    PROVE  NR!SpecResolve(ModelQuery) = Failed("unsupported")
<1>0. j \in 1..(Len(Catalog) + 1)
  BY DEF RefInv, TypeInv
<1>1. j = Len(Catalog) + 1
  BY <1>0, CatalogIsSeq
<1>2. \A c \in 1..(j - 1) : c \notin NR!ModelHits(target)
  BY DEF RefInv, LookupShape
<1>3. NR!ModelHits(target) = {}
  BY <1>1, <1>2, CatalogIsSeq DEF NR!ModelHits
<1>4. NR!SpecResolve(ModelQuery) = NR!Failed("unsupported")
  BY <1>3 DEF NR!SpecResolve, ModelQuery
<1>. QED  BY <1>4, ContractOps

-----------------------------------------------------------------------------
(* The abstract steps the code's steps map to.                             *)
LEMMA AskStep ==
    ASSUME QueryOf = NR!NoQuery, QueryOf' \in NR!Queries, result' = result
    PROVE  [NR!Ask \/ NR!Answer]_<<QueryOf, result>>
BY DEF NR!Ask

LEMMA AnswerStep ==
    ASSUME QueryOf # NR!NoQuery, QueryOf' = NR!NoQuery,
           result' \in {NR!SpecResolve(QueryOf), Failed("iterator_error")}
    PROVE  [NR!Ask \/ NR!Answer]_<<QueryOf, result>>
BY ContractOps DEF NR!Answer

(* A lookup's query is one the contract allows, and it is pending.       *)
LEMMA QueriesFacts ==
    /\ \A n \in Names : [kind |-> "name", name |-> n, model |-> NoModel] \in NR!Queries
    /\ \A t \in ModelKeys : [kind |-> "model", name |-> "", model |-> t] \in NR!Queries
    /\ NameQuery # NR!NoQuery /\ ModelQuery # NR!NoQuery
BY ContractOps DEF NR!Queries, NameQuery, ModelQuery, NR!NoQuery

(* The abstract query after a step, by where the step leaves pc.          *)
LEMMA QueryAfter ==
    /\ pc' \in {"idle", "found"} => QueryOf' = NR!NoQuery
    /\ pc' \in {"pat", "pscan", "fb"} =>
          QueryOf' = [kind |-> "name", name |-> name', model |-> NoModel]
    /\ pc' \in {"mstart", "mscan"} =>
          QueryOf' = [kind |-> "model", name |-> "", model |-> target']
BY DEF QueryOf, NR!NoQuery, NR!NoModel, NoModel

(* The (family, model) key of descriptor x with model y.                 *)
KeyOf(x, y) == [family |-> Catalog[x].family, model |-> y]

(* The target open_ble_device gets from a descriptor is a catalog key.    *)
LEMMA TargetOfDescriptor ==
    ASSUME NEW c \in DOMAIN Catalog
    PROVE  [family |-> Catalog[c].family, model |-> Catalog[c].model] \in ModelKeys
<1>. DEFINE Models == {Catalog[d].model : d \in DOMAIN Catalog} \cup {0}
<1>1. Catalog[c].model \in Models
  OBVIOUS
<1>2. KeyOf(c, Catalog[c].model) \in {KeyOf(x, y) : x \in DOMAIN Catalog, y \in Models}
  BY <1>1
<1>3. ModelKeys = {KeyOf(x, y) : x \in DOMAIN Catalog, y \in Models}
  BY DEF ModelKeys, KeyOf
<1>4. [family |-> Catalog[c].family, model |-> Catalog[c].model] = KeyOf(c, Catalog[c].model)
  BY DEF KeyOf
<1>. QED  BY <1>2, <1>3, <1>4

(* The label get_formatted_device_name or open_ble_device builds from a  *)
(* catalog descriptor.                                                      *)
LEMMA LabelOfDescriptor ==
    ASSUME NEW c \in DOMAIN Catalog
    PROVE  Label(Catalog[c]) \in Labels
<1>1. Catalog[c] \in {Catalog[cc] : cc \in DOMAIN Catalog}
  OBVIOUS
<1>. QED  BY <1>1, Zenon DEF Labels

(* What a return of find_descriptor_by_name leaves, whatever the caller.  *)
LEMMA NameReturnFacts ==
    ASSUME RefInv, pc \in {"pat", "pscan", "fb"}, NEW r \in Results,
           NameLookupReturns(r)
    PROVE  /\ held' = held /\ pc' \in {"idle", "found"} /\ result' = r
           /\ fmtLabel' \in [Names -> Labels]
           /\ target' \in ModelKeys \cup {NoModel}
           /\ pc' = "found" => target' \in ModelKeys
<1>1. held \in Nat /\ name \in Names /\ fmtLabel \in [Names -> Labels]
      /\ target \in ModelKeys \cup {NoModel}
  BY DEF RefInv, TypeInv, LookupShape
<1>2. held' = held /\ pc' \in {"idle", "found"} /\ result' = r
  BY <1>1, NameLookupReturnsFacts DEF NameLookupReturns
<1>3. /\ fmtLabel' \in [Names -> Labels]
      /\ target' \in ModelKeys \cup {NoModel}
      /\ pc' = "found" => target' \in ModelKeys
  <2>1. CASE r.status # "success"
    BY <1>1, <2>1 DEF NameLookupReturns, Labels
  <2>2. CASE r.status = "success" /\ op = "info"
    BY <1>1, <2>2 DEF NameLookupReturns
  <2>3. CASE r.status = "success" /\ op = "label"
    <3>1. r.desc \in DOMAIN Catalog
      BY <2>3 DEF Results
    <3>2. Label(Catalog[r.desc]) \in Labels
      BY <3>1, LabelOfDescriptor
    <3>. QED  BY <1>1, <2>3, <3>2 DEF NameLookupReturns, Labels
  <2>4. CASE r.status = "success" /\ op \notin {"info", "label"}
    <3>1. r.desc \in DOMAIN Catalog
      BY <2>4 DEF Results
    <3>. QED  BY <1>1, <2>4, <3>1, TargetOfDescriptor DEF NameLookupReturns
  <2>. QED  BY <2>1, <2>2, <2>3, <2>4
<1>. QED  BY <1>2, <1>3

(* What a return of find_descriptor_by_model leaves.                      *)
LEMMA ModelReturnFacts ==
    ASSUME RefInv, pc \in {"mstart", "mscan"}, NEW r \in Results,
           ModelLookupReturns(r)
    PROVE  /\ held' = held /\ pc' = "idle" /\ result' = r
           /\ sessLabel' \in [Names -> Labels]
<1>1. sessLabel \in [Names -> Labels] /\ (op = "open" => name \in Names)
  BY DEF RefInv, TypeInv, LookupShape
<1>2. r.status = "success" => Label(Catalog[r.desc]) \in Labels
  BY LabelOfDescriptor DEF Results
<1>3. held' = held /\ pc' = "idle" /\ result' = r
  BY DEF ModelLookupReturns
<1>4. CASE op = "open"
  <2>1. PICK opened, mallocOk \in BOOLEAN :
          sessLabel' = [sessLabel EXCEPT ![name] =
                          IF r.status = "success" /\ opened /\ mallocOk
                          THEN Label(Catalog[r.desc]) ELSE NoLabel]
    BY <1>4 DEF ModelLookupReturns
  <2>2. (IF r.status = "success" /\ opened /\ mallocOk
         THEN Label(Catalog[r.desc]) ELSE NoLabel) \in Labels
    BY <1>2 DEF Labels
  <2>. QED  BY <1>1, <1>3, <1>4, <2>1, <2>2
<1>5. CASE op # "open"
  BY <1>1, <1>3, <1>5 DEF ModelLookupReturns
<1>. QED  BY <1>4, <1>5

-----------------------------------------------------------------------------
(* The calls that start a lookup are Ask steps.                            *)
LEMMA CallByNameStep ==
    ASSUME RefInv, CallByName
    PROVE  RefInv' /\ [NR!Ask \/ NR!Answer]_<<QueryOf, result>>
<1>1. PICK o \in {"info", "label", "open"}, n \in Names : op' = o /\ name' = n
  BY DEF CallByName
<1>2. TypeInv'
  <2>1. i' \in 1..(Len(NamePatterns) + 1)
    BY TableIsSeq DEF CallByName
  <2>2. calls' \in 0..MaxCalls
    <3>1. calls \in 0..MaxCalls /\ calls < MaxCalls /\ calls' = calls + 1
      BY DEF RefInv, TypeInv, CallByName
    <3>2. MaxCalls \in Nat
      BY IdentificationAssumption
    <3>. QED  BY <3>1, <3>2
  <2>3. name' \in Names \cup {""} /\ op' \in {"none", "info", "label", "open", "parser"}
    BY <1>1
  <2>. QED  BY <2>1, <2>2, <2>3 DEF RefInv, TypeInv, CallByName
<1>3. LookupShape'
  BY <1>1 DEF CallByName, LookupShape, EarlierEntriesMiss
<1>4. QueryOf = NR!NoQuery
  BY QueryOfFacts DEF CallByName
<1>5. QueryOf' \in NR!Queries
  BY <1>1, QueryAfter, QueriesFacts DEF CallByName
<1>. QED  BY <1>2, <1>3, <1>4, <1>5, AskStep DEF RefInv, CallByName

LEMMA CreateParserStep ==
    ASSUME RefInv, create_parser_for_device
    PROVE  RefInv' /\ [NR!Ask \/ NR!Answer]_<<QueryOf, result>>
<1>1. PICK t \in ModelKeys : target' = t
  BY DEF create_parser_for_device
<1>2. TypeInv'
  <2>1. calls' \in 0..MaxCalls
    <3>1. calls \in 0..MaxCalls /\ calls < MaxCalls /\ calls' = calls + 1
      BY DEF RefInv, TypeInv, create_parser_for_device
    <3>2. MaxCalls \in Nat
      BY IdentificationAssumption
    <3>. QED  BY <3>1, <3>2
  <2>2. target' \in ModelKeys \cup {NoModel} /\ op' = "parser" /\ pc' = "mstart"
    BY <1>1 DEF create_parser_for_device
  <2>. QED  BY <2>1, <2>2 DEF RefInv, TypeInv, create_parser_for_device
<1>3. LookupShape'
  BY <1>1 DEF create_parser_for_device, LookupShape
<1>4. QueryOf = NR!NoQuery
  BY QueryOfFacts DEF create_parser_for_device
<1>5. QueryOf' \in NR!Queries
  BY <1>1, QueryAfter, QueriesFacts DEF create_parser_for_device
<1>. QED  BY <1>2, <1>3, <1>4, <1>5, AskStep DEF RefInv, create_parser_for_device

LEMMA OpenBleDeviceStep ==
    ASSUME RefInv, open_ble_device
    PROVE  RefInv' /\ [NR!Ask \/ NR!Answer]_<<QueryOf, result>>
<1>1. target \in ModelKeys /\ name \in Names
  BY DEF open_ble_device, RefInv, LookupShape
<1>2. TypeInv'
  BY DEF RefInv, TypeInv, open_ble_device
<1>3. LookupShape'
  BY <1>1 DEF open_ble_device, LookupShape
<1>4. QueryOf = NR!NoQuery
  BY QueryOfFacts DEF open_ble_device
<1>5. QueryOf' \in NR!Queries
  BY <1>1, QueryAfter, QueriesFacts DEF open_ble_device
<1>. QED  BY <1>2, <1>3, <1>4, <1>5, AskStep DEF RefInv, open_ble_device

-----------------------------------------------------------------------------
(* Every return of find_descriptor_by_name, with the contract's answer or *)
(* an iterator error, is an Answer step and keeps the invariant.           *)
LEMMA NameReturnStep ==
    ASSUME RefInv, pc \in {"pat", "pscan", "fb"}, NEW r \in Results,
           NameLookupReturns(r),
           r \in {NR!SpecResolve(NameQuery), Failed("iterator_error")},
           iter' \in BOOLEAN,
           UNCHANGED <<op, name, i, j, sessLabel, calls>>
    PROVE  RefInv' /\ [NR!Ask \/ NR!Answer]_<<QueryOf, result>>
<1>1. /\ held' = held /\ pc' \in {"idle", "found"} /\ result' = r
      /\ fmtLabel' \in [Names -> Labels]
      /\ target' \in ModelKeys \cup {NoModel}
      /\ pc' = "found" => target' \in ModelKeys
  BY NameReturnFacts
<1>2. name \in Names
  BY DEF RefInv, LookupShape
<1>3. TypeInv'
  BY <1>1 DEF RefInv, TypeInv
<1>4. LookupShape'
  BY <1>1, <1>2 DEF LookupShape
<1>5. QueryOf = NameQuery /\ QueryOf' = NR!NoQuery
  BY <1>1, QueryOfFacts, QueryAfter
<1>6. QueryOf # NR!NoQuery
  BY <1>5, QueriesFacts
<1>. QED  BY <1>1, <1>3, <1>4, <1>5, <1>6, AnswerStep DEF RefInv

(* Every return of find_descriptor_by_model likewise.                     *)
LEMMA ModelReturnStep ==
    ASSUME RefInv, pc \in {"mstart", "mscan"}, NEW r \in Results,
           ModelLookupReturns(r),
           r \in {NR!SpecResolve(ModelQuery), Failed("iterator_error")},
           iter' \in BOOLEAN,
           UNCHANGED <<op, name, target, i, j, fmtLabel, calls>>
    PROVE  RefInv' /\ [NR!Ask \/ NR!Answer]_<<QueryOf, result>>
<1>1. /\ held' = held /\ pc' = "idle" /\ result' = r
      /\ sessLabel' \in [Names -> Labels]
  BY ModelReturnFacts
<1>2. TypeInv'
  BY <1>1 DEF RefInv, TypeInv
<1>3. LookupShape'
  BY <1>1 DEF LookupShape
<1>4. QueryOf = ModelQuery /\ QueryOf' = NR!NoQuery
  BY <1>1, QueryOfFacts, QueryAfter
<1>5. QueryOf # NR!NoQuery
  BY <1>4, QueriesFacts
<1>. QED  BY <1>1, <1>2, <1>3, <1>4, <1>5, AnswerStep DEF RefInv

-----------------------------------------------------------------------------
(* The steps inside find_descriptor_by_name.                               *)
LEMMA TestPatternStep ==
    ASSUME RefInv, TestPattern
    PROVE  RefInv' /\ [NR!Ask \/ NR!Answer]_<<QueryOf, result>>
<1>0. /\ pc = "pat" /\ i \in 1..Len(NamePatterns) /\ name \in Names
      /\ EarlierEntriesMiss(i)
      /\ UNCHANGED <<op, name, sessLabel, calls>>
  <2>1. i \in 1..(Len(NamePatterns) + 1) /\ i <= Len(NamePatterns)
    BY DEF TestPattern, RefInv, TypeInv
  <2>2. pc = "pat" /\ name \in Names /\ EarlierEntriesMiss(i)
    BY DEF TestPattern, RefInv, LookupShape
  <2>. QED  BY <2>1, <2>2, TableIsSeq DEF TestPattern
<1>1. CASE PatternMatches(name, NamePatterns[i])
  <2>1. CASE /\ pc' = "pscan" /\ j' = 1 /\ iter' = TRUE
             /\ UNCHANGED <<i, held, result, target, fmtLabel>>
    <3>1. TypeInv'
      <4>1. j' \in 1..(Len(Catalog) + 1) /\ pc' = "pscan"
        BY <2>1, CatalogIsSeq
      <4>. QED  BY <1>0, <2>1, <4>1, Zenon DEF RefInv, TypeInv
    <3>2. LookupShape'
      BY <1>0, <1>1, <2>1 DEF LookupShape, EarlierEntriesMiss
    <3>3. QueryOf' = QueryOf
      BY <1>0, <2>1, QueryOfFacts, QueryAfter DEF NameQuery
    <3>. QED  BY <2>1, <3>1, <3>2, <3>3 DEF RefInv
  <2>2. CASE NameLookupReturns(Failed("iterator_error")) /\ UNCHANGED <<i, j, iter>>
    <3>1. Failed("iterator_error") \in Results
      BY DEF Failed, Results
    <3>2. iter' \in BOOLEAN
      BY <2>2 DEF RefInv, TypeInv
    <3>. QED  BY <1>0, <2>2, <3>1, <3>2, NameReturnStep
  <2>. QED  BY <1>1, <2>1, <2>2 DEF TestPattern
<1>2. CASE ~PatternMatches(name, NamePatterns[i])
  <2>1. i' = i + 1 /\ UNCHANGED <<pc, j, iter, held, result, target, fmtLabel>>
    BY <1>2 DEF TestPattern
  <2>2. i \notin NR!PatternHits(name)
    BY <1>0, <1>2, ContractOps DEF NR!PatternHits
  <2>3. TypeInv'
    <3>1. i' \in 1..(Len(NamePatterns) + 1)
      BY <1>0, <2>1, TableIsSeq
    <3>. QED  BY <1>0, <2>1, <3>1, Zenon DEF RefInv, TypeInv
  <2>4. EarlierEntriesMiss(i + 1)
    BY <1>0, <2>2 DEF EarlierEntriesMiss
  <2>5. LookupShape'
    BY <1>0, <2>1, <2>4 DEF LookupShape, EarlierEntriesMiss
  <2>6. QueryOf' = QueryOf
    BY <1>0, <2>1, QueryOfFacts, QueryAfter DEF NameQuery
  <2>. QED  BY <2>1, <2>3, <2>5, <2>6 DEF RefInv
<1>. QED  BY <1>1, <1>2

LEMMA ScanForPatternStep ==
    ASSUME RefInv, ScanForPattern
    PROVE  RefInv' /\ [NR!Ask \/ NR!Answer]_<<QueryOf, result>>
<1>0. /\ pc = "pscan" /\ i \in 1..Len(NamePatterns) /\ j \in 1..Len(Catalog)
      /\ name \in Names /\ iter \in BOOLEAN
      /\ UNCHANGED <<op, name, sessLabel, calls>>
  <2>1. i \in 1..(Len(NamePatterns) + 1) /\ j \in 1..(Len(Catalog) + 1)
        /\ iter \in BOOLEAN
    BY DEF RefInv, TypeInv
  <2>2. pc = "pscan" /\ name \in Names /\ i <= Len(NamePatterns) /\ j <= Len(Catalog)
    BY DEF ScanForPattern, RefInv, LookupShape
  <2>. QED  BY <2>1, <2>2, TableIsSeq, CatalogIsSeq DEF ScanForPattern
<1>1. CASE SameProduct(Catalog[j], NamePatterns[i])
  <2>1. iter' = FALSE /\ NameLookupReturns(Found(j)) /\ UNCHANGED <<i, j>>
    BY <1>1 DEF ScanForPattern
  <2>2. Found(j) \in Results
    BY <1>0, CatalogIsSeq DEF Found, Results
  <2>3. NR!SpecResolve(NameQuery) = Found(j)
    BY <1>0, <1>1, PatternAnswer
  <2>. QED  BY <1>0, <2>1, <2>2, <2>3, NameReturnStep
<1>2. CASE ~SameProduct(Catalog[j], NamePatterns[i])
  <2>1. j' = j + 1 /\ UNCHANGED <<pc, i, iter, held, result, target, fmtLabel>>
    BY <1>2 DEF ScanForPattern
  <2>2. TypeInv'
    <3>1. j' \in 1..(Len(Catalog) + 1)
      BY <1>0, <2>1, CatalogIsSeq
    <3>. QED  BY <1>0, <2>1, <3>1, Zenon DEF RefInv, TypeInv
  <2>3. \A c \in 1..j : ~SameProduct(Catalog[c], NamePatterns[i])
    <3>1. \A c \in 1..(j - 1) : ~SameProduct(Catalog[c], NamePatterns[i])
      BY <1>0 DEF RefInv, LookupShape
    <3>. QED  BY <1>0, <1>2, <3>1
  <2>4. LookupShape'
    <3>1. EarlierEntriesMiss(i) /\ PatternMatches(name, NamePatterns[i])
          /\ i <= Len(NamePatterns)
      BY <1>0 DEF RefInv, LookupShape
    <3>2. j' - 1 = j
      BY <1>0, <2>1, CatalogIsSeq
    <3>. QED  BY <1>0, <2>1, <2>3, <3>1, <3>2 DEF LookupShape, EarlierEntriesMiss
  <2>5. QueryOf' = QueryOf
    BY <1>0, <2>1, QueryOfFacts, QueryAfter DEF NameQuery
  <2>. QED  BY <2>1, <2>2, <2>4, <2>5 DEF RefInv
<1>. QED  BY <1>1, <1>2

LEMMA PatternScanDoneStep ==
    ASSUME RefInv, PatternScanDone
    PROVE  RefInv' /\ [NR!Ask \/ NR!Answer]_<<QueryOf, result>>
<1>0. /\ pc = "pscan" /\ i \in 1..Len(NamePatterns) /\ j = Len(Catalog) + 1
      /\ name \in Names /\ EarlierEntriesMiss(i)
      /\ \A c \in 1..(j - 1) : ~SameProduct(Catalog[c], NamePatterns[i])
      /\ i' = i + 1 /\ pc' = "pat" /\ iter' = FALSE
      /\ UNCHANGED <<op, name, target, j, held, result, fmtLabel, sessLabel, calls>>
  <2>1. i \in 1..(Len(NamePatterns) + 1)
    BY DEF RefInv, TypeInv
  <2>2. /\ pc = "pscan" /\ name \in Names /\ i <= Len(NamePatterns) /\ EarlierEntriesMiss(i)
        /\ \A c \in 1..(j - 1) : ~SameProduct(Catalog[c], NamePatterns[i])
    BY DEF PatternScanDone, RefInv, LookupShape
  <2>. QED  BY <2>1, <2>2, TableIsSeq DEF PatternScanDone
<1>1. i \notin NR!PatternHits(name)
  <2>1. \A c \in DOMAIN Catalog : ~NR!SameProduct(Catalog[c], NR!NamePatterns[i])
    BY <1>0, CatalogIsSeq, ContractOps
  <2>. QED  BY <2>1 DEF NR!PatternHits
<1>2. TypeInv'
  <2>1. i \in 1..Len(NamePatterns) /\ i' = i + 1
    BY <1>0
  <2>2. i' \in 1..(Len(NamePatterns) + 1)
    BY <2>1, TableIsSeq
  <2>. QED  BY <1>0, <2>2, Zenon DEF RefInv, TypeInv
<1>3. EarlierEntriesMiss(i + 1)
  BY <1>0, <1>1 DEF EarlierEntriesMiss
<1>4. LookupShape'
  BY <1>0, <1>3 DEF LookupShape, EarlierEntriesMiss
<1>5. QueryOf' = QueryOf
  BY <1>0, QueryOfFacts, QueryAfter DEF NameQuery
<1>. QED  BY <1>0, <1>2, <1>4, <1>5 DEF RefInv

(* Past the last entry no entry can apply: the pattern loop ruled out     *)
(* every one of them.                                                       *)
LEMMA StartFallbackStep ==
    ASSUME RefInv, StartFallback
    PROVE  RefInv' /\ [NR!Ask \/ NR!Answer]_<<QueryOf, result>>
<1>0. /\ pc = "pat" /\ i = Len(NamePatterns) + 1 /\ name \in Names
      /\ EarlierEntriesMiss(i) /\ iter \in BOOLEAN
      /\ UNCHANGED <<op, name, i, sessLabel, calls>>
  BY DEF StartFallback, RefInv, TypeInv, LookupShape
<1>1. NR!PatternHits(name) = {}
  <2>1. NR!PatternHits(name) \subseteq 1..Len(NamePatterns)
    BY TableIsSeq, ContractOps DEF NR!PatternHits
  <2>2. \A e \in 1..Len(NamePatterns) : e \notin NR!PatternHits(name)
    BY <1>0, TableIsSeq DEF EarlierEntriesMiss
  <2>. QED  BY <2>1, <2>2
<1>2. CASE /\ pc' = "fb" /\ j' = 1 /\ iter' = TRUE
           /\ UNCHANGED <<held, result, target, fmtLabel>>
  <2>1. TypeInv'
    <3>1. j' \in 1..(Len(Catalog) + 1) /\ pc' = "fb"
      BY <1>2, CatalogIsSeq
    <3>. QED  BY <1>0, <1>2, <3>1, Zenon DEF RefInv, TypeInv
  <2>2. LookupShape'
    BY <1>0, <1>1, <1>2 DEF LookupShape
  <2>3. QueryOf' = QueryOf
    BY <1>0, <1>2, QueryOfFacts, QueryAfter DEF NameQuery
  <2>. QED  BY <1>2, <2>1, <2>2, <2>3 DEF RefInv
<1>3. CASE NameLookupReturns(Failed("iterator_error")) /\ UNCHANGED <<j, iter>>
  <2>1. Failed("iterator_error") \in Results
    BY DEF Failed, Results
  <2>. QED  BY <1>0, <1>3, <2>1, NameReturnStep
<1>. QED  BY <1>2, <1>3 DEF StartFallback

LEMMA ScanFallbackStep ==
    ASSUME RefInv, ScanFallback
    PROVE  RefInv' /\ [NR!Ask \/ NR!Answer]_<<QueryOf, result>>
<1>0. /\ pc = "fb" /\ name \in Names /\ j \in 1..(Len(Catalog) + 1)
      /\ UNCHANGED <<op, name, i, sessLabel, calls>>
  BY DEF ScanFallback, RefInv, TypeInv, LookupShape
<1>1. CASE j <= Len(Catalog) /\ FilterAccepts(Catalog[j], name)
  <2>1. iter' = FALSE /\ NameLookupReturns(Found(j)) /\ UNCHANGED j
    BY <1>1 DEF ScanFallback
  <2>2. Found(j) \in Results
    BY <1>0, <1>1, CatalogIsSeq DEF Found, Results
  <2>3. NR!SpecResolve(NameQuery) = Found(j)
    BY <1>0, <1>1, FallbackAnswer
  <2>. QED  BY <1>0, <2>1, <2>2, <2>3, NameReturnStep
<1>2. CASE j <= Len(Catalog) /\ ~FilterAccepts(Catalog[j], name)
  <2>1. j' = j + 1 /\ UNCHANGED <<pc, iter, held, result, target, fmtLabel>>
    BY <1>2 DEF ScanFallback
  <2>2. TypeInv'
    <3>1. j' \in 1..(Len(Catalog) + 1)
      BY <1>0, <1>2, <2>1, CatalogIsSeq
    <3>. QED  BY <1>0, <2>1, <3>1, Zenon DEF RefInv, TypeInv
  <2>3. \A c \in 1..(j' - 1) : ~FilterAccepts(Catalog[c], name)
    <3>1. \A c \in 1..(j - 1) : ~FilterAccepts(Catalog[c], name)
      BY <1>0 DEF RefInv, LookupShape
    <3>. QED  BY <1>0, <1>2, <2>1, <3>1, CatalogIsSeq
  <2>4. NR!PatternHits(name) = {}
    BY <1>0 DEF RefInv, LookupShape
  <2>5. LookupShape'
    BY <1>0, <2>1, <2>3, <2>4 DEF LookupShape
  <2>6. QueryOf' = QueryOf
    BY <1>0, <2>1, QueryOfFacts, QueryAfter DEF NameQuery
  <2>. QED  BY <2>1, <2>2, <2>5, <2>6 DEF RefInv
<1>3. CASE ~(j <= Len(Catalog))
  <2>1. iter' = FALSE /\ NameLookupReturns(Failed("unsupported")) /\ UNCHANGED j
    BY <1>3 DEF ScanFallback
  <2>2. Failed("unsupported") \in Results
    BY DEF Failed, Results
  <2>3. NR!SpecResolve(NameQuery) = Failed("unsupported")
    BY <1>0, <1>3, FallbackExhausted
  <2>. QED  BY <1>0, <2>1, <2>2, <2>3, NameReturnStep
<1>. QED  BY <1>1, <1>2, <1>3

-----------------------------------------------------------------------------
(* The steps inside find_descriptor_by_model.                              *)
LEMMA StartModelScanStep ==
    ASSUME RefInv, StartModelScan
    PROVE  RefInv' /\ [NR!Ask \/ NR!Answer]_<<QueryOf, result>>
<1>0. /\ pc = "mstart" /\ target \in ModelKeys /\ iter \in BOOLEAN
      /\ UNCHANGED <<op, name, target, i, fmtLabel, calls>>
  BY DEF StartModelScan, RefInv, TypeInv, LookupShape
<1>1. CASE /\ pc' = "mscan" /\ j' = 1 /\ iter' = TRUE
           /\ UNCHANGED <<held, result, sessLabel>>
  <2>1. TypeInv'
    <3>1. j' \in 1..(Len(Catalog) + 1) /\ pc' = "mscan"
      BY <1>1, CatalogIsSeq
    <3>. QED  BY <1>0, <1>1, <3>1, Zenon DEF RefInv, TypeInv
  <2>2. LookupShape'
    BY <1>0, <1>1 DEF RefInv, LookupShape
  <2>3. QueryOf' = QueryOf
    BY <1>0, <1>1, QueryOfFacts, QueryAfter DEF ModelQuery
  <2>. QED  BY <1>1, <2>1, <2>2, <2>3 DEF RefInv
<1>2. CASE ModelLookupReturns(Failed("iterator_error")) /\ UNCHANGED <<j, iter>>
  <2>1. Failed("iterator_error") \in Results
    BY DEF Failed, Results
  <2>. QED  BY <1>0, <1>2, <2>1, ModelReturnStep
<1>. QED  BY <1>1, <1>2 DEF StartModelScan

LEMMA ScanForModelStep ==
    ASSUME RefInv, ScanForModel
    PROVE  RefInv' /\ [NR!Ask \/ NR!Answer]_<<QueryOf, result>>
<1>0. /\ pc = "mscan" /\ target \in ModelKeys /\ j \in 1..(Len(Catalog) + 1)
      /\ UNCHANGED <<op, name, target, i, fmtLabel, calls>>
  BY DEF ScanForModel, RefInv, TypeInv, LookupShape
<1>1. CASE j <= Len(Catalog) /\ Catalog[j].family = target.family
                             /\ Catalog[j].model = target.model
  <2>1. iter' = FALSE /\ ModelLookupReturns(Found(j)) /\ UNCHANGED j
    BY <1>1 DEF ScanForModel
  <2>2. Found(j) \in Results
    BY <1>0, <1>1, CatalogIsSeq DEF Found, Results
  <2>3. NR!SpecResolve(ModelQuery) = Found(j)
    BY <1>0, <1>1, ModelAnswer
  <2>. QED  BY <1>0, <2>1, <2>2, <2>3, ModelReturnStep
<1>2. CASE j <= Len(Catalog) /\ ~(Catalog[j].family = target.family
                                  /\ Catalog[j].model = target.model)
  <2>1. j' = j + 1 /\ UNCHANGED <<pc, iter, held, result, sessLabel>>
    BY <1>2 DEF ScanForModel
  <2>2. TypeInv'
    <3>1. j' \in 1..(Len(Catalog) + 1)
      BY <1>0, <1>2, <2>1, CatalogIsSeq
    <3>. QED  BY <1>0, <2>1, <3>1, Zenon DEF RefInv, TypeInv
  <2>3. \A c \in 1..(j' - 1) : c \notin NR!ModelHits(target)
    <3>1. \A c \in 1..(j - 1) : c \notin NR!ModelHits(target)
      BY <1>0 DEF RefInv, LookupShape
    <3>2. j \notin NR!ModelHits(target)
      BY <1>2 DEF NR!ModelHits
    <3>. QED  BY <1>0, <1>2, <2>1, <3>1, <3>2, CatalogIsSeq
  <2>4. LookupShape'
    <3>1. op = "open" => name \in Names
      BY <1>0 DEF RefInv, LookupShape
    <3>. QED  BY <1>0, <2>1, <2>3, <3>1 DEF LookupShape
  <2>5. QueryOf' = QueryOf
    BY <1>0, <2>1, QueryOfFacts, QueryAfter DEF ModelQuery
  <2>. QED  BY <2>1, <2>2, <2>4, <2>5 DEF RefInv
<1>3. CASE ~(j <= Len(Catalog))
  <2>1. iter' = FALSE /\ ModelLookupReturns(Failed("unsupported")) /\ UNCHANGED j
    BY <1>3 DEF ScanForModel
  <2>2. Failed("unsupported") \in Results
    BY DEF Failed, Results
  <2>3. NR!SpecResolve(ModelQuery) = Failed("unsupported")
    BY <1>0, <1>3, ModelExhausted
  <2>. QED  BY <1>0, <2>1, <2>2, <2>3, ModelReturnStep
<1>. QED  BY <1>1, <1>2, <1>3

-----------------------------------------------------------------------------
(* A step that changes none of the variables changes neither the query    *)
(* nor the result: Terminating and the stutter steps of Spec.              *)
LEMMA StutterStep ==
    ASSUME RefInv, UNCHANGED vars
    PROVE  RefInv' /\ [NR!Ask \/ NR!Answer]_<<QueryOf, result>>
<1>1. RefInv'
  BY DEF vars, RefInv, TypeInv, LookupShape, EarlierEntriesMiss
<1>2. QueryOf' = QueryOf
  BY DEF vars, QueryOf
<1>. QED  BY <1>1, <1>2 DEF vars

-----------------------------------------------------------------------------
(* The initial state: no call has been made, nothing is pending.          *)
LEMMA InitRefInv ==
    ASSUME Init
    PROVE  RefInv
<1>1. /\ 1 \in 1..(Len(NamePatterns) + 1) /\ 1 \in 1..(Len(Catalog) + 1)
      /\ 0 \in 0..MaxCalls
  BY TableIsSeq, CatalogIsSeq, IdentificationAssumption
<1>2. Failed("none") \in Results /\ NoLabel \in Labels
  BY DEF Failed, Results, Labels
<1>3. [n \in Names |-> NoLabel] \in [Names -> Labels]
  BY <1>2
<1>4. TypeInv
  BY <1>1, <1>2, <1>3 DEF Init, TypeInv
<1>5. LookupShape
  BY DEF Init, LookupShape
<1>. QED  BY <1>4, <1>5 DEF RefInv

(* Every step of Next, or a stutter, keeps RefInv and maps to a step of   *)
(* the contract or to a stutter of it.                                     *)
LEMMA NextStep ==
    ASSUME RefInv, [Next]_vars
    PROVE  RefInv' /\ [NR!Ask \/ NR!Answer]_<<QueryOf, result>>
<1>1. CASE CallByName                BY <1>1, CallByNameStep
<1>2. CASE create_parser_for_device  BY <1>2, CreateParserStep
<1>3. CASE TestPattern               BY <1>3, TestPatternStep
<1>4. CASE ScanForPattern            BY <1>4, ScanForPatternStep
<1>5. CASE PatternScanDone           BY <1>5, PatternScanDoneStep
<1>6. CASE StartFallback             BY <1>6, StartFallbackStep
<1>7. CASE ScanFallback              BY <1>7, ScanFallbackStep
<1>8. CASE StartModelScan            BY <1>8, StartModelScanStep
<1>9. CASE open_ble_device           BY <1>9, OpenBleDeviceStep
<1>10. CASE ScanForModel             BY <1>10, ScanForModelStep
<1>11. CASE Terminating              BY <1>11, StutterStep DEF Terminating
<1>12. CASE UNCHANGED vars           BY <1>12, StutterStep
<1>. QED  BY <1>1, <1>2, <1>3, <1>4, <1>5, <1>6, <1>7, <1>8, <1>9, <1>10,
             <1>11, <1>12 DEF Next

(* RefInv, TypeOK with what each lookup loop has ruled out, holds in      *)
(* every reachable state.                                                  *)
THEOREM RefInvInvariant == Spec => []RefInv
<1>1. Init => RefInv
  BY InitRefInv
<1>2. RefInv /\ [Next]_vars => RefInv'
  BY NextStep
<1>. QED  BY <1>1, <1>2, PTL DEF Spec

(* Type correctness of the identification model: every variable of the   *)
(* lookups and their callers stays within the range TypeOK gives it.      *)
THEOREM IdentificationTypeCorrect == Spec => []TypeOK
<1>1. RefInv => TypeOK
  BY DEF RefInv, TypeInv, TypeOK, Results, Labels
<1>. QED  BY <1>1, RefInvInvariant, PTL

(* The lookups of configuredc.c implement the contract of spec 4.2: with  *)
(* the query pending exactly while find_descriptor_by_name or              *)
(* find_descriptor_by_model runs, every return gives the first table      *)
(* entry's first descriptor, else the first BLE filter match, else        *)
(* Unsupported (or the first descriptor of the family and model), or an   *)
(* iterator error; every other step leaves query and result alone.        *)
THEOREM ResolutionRefinedTheorem == Spec => ResolutionRefined
<1>1. Init => NR!AInit
  <2>. SUFFICES ASSUME Init PROVE NR!AInit
    OBVIOUS
  <2>1. QueryOf = NR!NoQuery
    BY QueryOfFacts DEF Init
  <2>2. result = NR!Failed("none")
    BY ContractOps DEF Init
  <2>. QED  BY <2>1, <2>2 DEF NR!AInit
<1>2. RefInv /\ [Next]_vars => [NR!Ask \/ NR!Answer]_<<QueryOf, result>>
  BY NextStep
<1>. QED  BY <1>1, <1>2, RefInvInvariant, PTL DEF Spec, ResolutionRefined, NR!ASpec

=============================================================================
