----------------------- MODULE IdentificationPrecedence -----------------------
(***************************************************************************)
(* Proof that find_descriptor_by_name never answers through a broader     *)
(* table entry when a more specific one applies (MostSpecificWins), for   *)
(* every catalog and every set of names, given the order of                *)
(* name_patterns[] that TableOrder states and the identification run       *)
(* checks on the table itself.                                             *)
(***************************************************************************)
EXTENDS IdentificationRefinement

(* What RefInv leaves out and the precedence argument needs: which        *)
(* callers run which lookup, that the fallback starts only past the last   *)
(* entry, and that an answer of the pattern loop came from the first entry *)
(* that matches the name and has a descriptor.                              *)
PatternPhase ==
    /\ pc \in {"pat", "pscan", "fb"} => op \in {"info", "label", "open"}
    /\ pc \in {"found", "mstart", "mscan"} => op \in {"open", "parser"}
    /\ pc = "fb" => i = Len(NamePatterns) + 1
    /\ AnsweredByPattern => EarlierEntriesMiss(i) /\ i \in NR!PatternHits(name)

PrecInv == RefInv /\ PatternPhase

-----------------------------------------------------------------------------
(* A name lookup hands its caller a pending open_ble_device only when it  *)
(* found a descriptor and the caller is not one that only reads or        *)
(* formats it.                                                              *)
LEMMA FoundOnlyForOpen ==
    ASSUME NEW r, NameLookupReturns(r), pc' = "found"
    PROVE  r.status = "success" /\ op \notin {"info", "label"}
<1>1. r.status = "success"
  BY DEF NameLookupReturns
<1>2. CASE op = "info"
  BY <1>1, <1>2 DEF NameLookupReturns
<1>3. CASE op = "label"
  BY <1>1, <1>3 DEF NameLookupReturns
<1>. QED  BY <1>1, <1>2, <1>3

(* The pattern scan's hit: entry i matches the name and has a descriptor. *)
LEMMA PatternHitAt ==
    ASSUME RefInv, pc = "pscan", j <= Len(Catalog),
           SameProduct(Catalog[j], NamePatterns[i])
    PROVE  i \in NR!PatternHits(name)
<1>1. i \in 1..(Len(NamePatterns) + 1) /\ j \in 1..(Len(Catalog) + 1)
  BY DEF RefInv, TypeInv
<1>2. i <= Len(NamePatterns) /\ PatternMatches(name, NamePatterns[i])
  BY DEF RefInv, LookupShape
<1>3. i \in 1..Len(NamePatterns) /\ j \in 1..Len(Catalog)
  BY <1>1, <1>2, TableIsSeq, CatalogIsSeq
<1>4. NR!SpecMatches(name, NR!NamePatterns[i])
      /\ NR!SameProduct(Catalog[j], NR!NamePatterns[i])
  BY <1>2, ContractOps
<1>. QED  BY <1>3, <1>4, TableIsSeq, CatalogIsSeq, ContractOps DEF NR!PatternHits

(* A return of find_descriptor_by_name keeps PatternPhase when a success  *)
(* with i still in the table is an answer of the first matching entry.    *)
LEMMA NameReturnPhase ==
    ASSUME PatternPhase, pc \in {"pat", "pscan", "fb"}, NEW r,
           NameLookupReturns(r), UNCHANGED <<op, name, i>>,
           pc' \in {"idle", "found"},
           r.status = "success" /\ i <= Len(NamePatterns) =>
               EarlierEntriesMiss(i) /\ i \in NR!PatternHits(name)
    PROVE  PatternPhase'
<1>1. op \in {"info", "label", "open"}
  BY DEF PatternPhase
<1>2. pc' = "found" => op' \in {"open", "parser"}
  BY <1>1, FoundOnlyForOpen
<1>3. AnsweredByPattern' => EarlierEntriesMiss(i)' /\ (i \in NR!PatternHits(name))'
  <2>1. result' = r
    BY DEF NameLookupReturns
  <2>. QED  BY <2>1 DEF AnsweredByPattern, EarlierEntriesMiss
<1>. QED  BY <1>2, <1>3 DEF PatternPhase

(* A return of find_descriptor_by_model goes back to its caller, which is *)
(* never one that reads a name's answer.                                   *)
LEMMA ModelReturnPhase ==
    ASSUME PatternPhase, pc \in {"mstart", "mscan"}, NEW r,
           ModelLookupReturns(r), UNCHANGED op
    PROVE  PatternPhase'
<1>1. op \in {"open", "parser"} /\ pc' = "idle"
  BY DEF PatternPhase, ModelLookupReturns
<1>. QED  BY <1>1 DEF PatternPhase, AnsweredByPattern

-----------------------------------------------------------------------------
(* Every step keeps PatternPhase.                                          *)
LEMMA InitPhase ==
    ASSUME Init
    PROVE  PatternPhase
BY DEF Init, PatternPhase, AnsweredByPattern, Failed

LEMMA NextPhase ==
    ASSUME RefInv, PatternPhase, [Next]_vars
    PROVE  PatternPhase'
<1>0. Len(NamePatterns) \in Nat /\ i \in 1..(Len(NamePatterns) + 1)
  BY TableIsSeq DEF RefInv, TypeInv
<1>1. CASE CallByName
  BY <1>1 DEF CallByName, PatternPhase, AnsweredByPattern
<1>2. CASE create_parser_for_device
  BY <1>2 DEF create_parser_for_device, PatternPhase, AnsweredByPattern
<1>3. CASE TestPattern
  <2>1. CASE PatternMatches(name, NamePatterns[i])
    <3>1. CASE /\ pc' = "pscan" /\ j' = 1 /\ iter' = TRUE
               /\ UNCHANGED <<i, held, result, target, fmtLabel>>
      BY <1>3, <3>1 DEF TestPattern, PatternPhase, AnsweredByPattern
    <3>2. CASE NameLookupReturns(Failed("iterator_error")) /\ UNCHANGED <<i, j, iter>>
      <4>1. pc' \in {"idle", "found"}
        BY <3>2, NameLookupReturnsFacts DEF RefInv, TypeInv
      <4>. QED  BY <1>3, <3>2, <4>1, NameReturnPhase DEF TestPattern, Failed
    <3>. QED  BY <1>3, <2>1, <3>1, <3>2 DEF TestPattern
  <2>2. CASE ~PatternMatches(name, NamePatterns[i])
    BY <1>3, <2>2 DEF TestPattern, PatternPhase, AnsweredByPattern
  <2>. QED  BY <2>1, <2>2
<1>4. CASE ScanForPattern
  <2>1. CASE SameProduct(Catalog[j], NamePatterns[i])
    <3>1. NameLookupReturns(Found(j)) /\ UNCHANGED <<op, name, i>> /\ pc = "pscan"
      BY <1>4, <2>1 DEF ScanForPattern
    <3>2. pc' \in {"idle", "found"}
      BY <3>1, NameLookupReturnsFacts DEF RefInv, TypeInv
    <3>3. EarlierEntriesMiss(i) /\ i \in NR!PatternHits(name)
      <4>1. EarlierEntriesMiss(i)
        BY <3>1 DEF RefInv, LookupShape
      <4>. QED  BY <1>4, <2>1, <3>1, <4>1, PatternHitAt DEF ScanForPattern
    <3>. QED  BY <3>1, <3>2, <3>3, NameReturnPhase
  <2>2. CASE ~SameProduct(Catalog[j], NamePatterns[i])
    BY <1>4, <2>2 DEF ScanForPattern, PatternPhase, AnsweredByPattern
  <2>. QED  BY <2>1, <2>2
<1>5. CASE PatternScanDone
  BY <1>5 DEF PatternScanDone, PatternPhase, AnsweredByPattern
<1>6. CASE StartFallback
  <2>1. CASE /\ pc' = "fb" /\ j' = 1 /\ iter' = TRUE
             /\ UNCHANGED <<held, result, target, fmtLabel>>
    BY <1>6, <2>1 DEF StartFallback, PatternPhase, AnsweredByPattern
  <2>2. CASE NameLookupReturns(Failed("iterator_error")) /\ UNCHANGED <<j, iter>>
    <3>1. pc' \in {"idle", "found"}
      BY <2>2, NameLookupReturnsFacts DEF RefInv, TypeInv
    <3>. QED  BY <1>6, <2>2, <3>1, NameReturnPhase DEF StartFallback, Failed
  <2>. QED  BY <1>6, <2>1, <2>2 DEF StartFallback
<1>7. CASE ScanFallback
  <2>1. pc = "fb" /\ i = Len(NamePatterns) + 1 /\ UNCHANGED <<op, name, i>>
    BY <1>7 DEF ScanFallback, PatternPhase
  <2>2. ~(i <= Len(NamePatterns))
    BY <1>0, <2>1
  <2>3. CASE j <= Len(Catalog) /\ FilterAccepts(Catalog[j], name)
    <3>1. NameLookupReturns(Found(j))
      BY <1>7, <2>3 DEF ScanFallback
    <3>2. pc' \in {"idle", "found"}
      BY <3>1, NameLookupReturnsFacts DEF RefInv, TypeInv
    <3>. QED  BY <2>1, <2>2, <3>1, <3>2, NameReturnPhase
  <2>4. CASE j <= Len(Catalog) /\ ~FilterAccepts(Catalog[j], name)
    BY <1>7, <2>1, <2>4 DEF ScanFallback, PatternPhase, AnsweredByPattern
  <2>5. CASE ~(j <= Len(Catalog))
    <3>1. NameLookupReturns(Failed("unsupported"))
      BY <1>7, <2>5 DEF ScanFallback
    <3>2. pc' \in {"idle", "found"}
      BY <3>1, NameLookupReturnsFacts DEF RefInv, TypeInv
    <3>. QED  BY <2>1, <2>2, <3>1, <3>2, NameReturnPhase
  <2>. QED  BY <2>3, <2>4, <2>5
<1>8. CASE StartModelScan
  <2>1. CASE /\ pc' = "mscan" /\ j' = 1 /\ iter' = TRUE
             /\ UNCHANGED <<held, result, sessLabel>>
    BY <1>8, <2>1 DEF StartModelScan, PatternPhase, AnsweredByPattern
  <2>2. CASE ModelLookupReturns(Failed("iterator_error")) /\ UNCHANGED <<j, iter>>
    BY <1>8, <2>2, ModelReturnPhase DEF StartModelScan
  <2>. QED  BY <1>8, <2>1, <2>2 DEF StartModelScan
<1>9. CASE open_ble_device
  BY <1>9 DEF open_ble_device, PatternPhase, AnsweredByPattern
<1>10. CASE ScanForModel
  <2>1. CASE j <= Len(Catalog) /\ Catalog[j].family = target.family
                               /\ Catalog[j].model = target.model
    BY <1>10, <2>1, ModelReturnPhase DEF ScanForModel
  <2>2. CASE j <= Len(Catalog) /\ ~(Catalog[j].family = target.family
                                    /\ Catalog[j].model = target.model)
    BY <1>10, <2>2 DEF ScanForModel, PatternPhase, AnsweredByPattern
  <2>3. CASE ~(j <= Len(Catalog))
    BY <1>10, <2>3, ModelReturnPhase DEF ScanForModel
  <2>. QED  BY <2>1, <2>2, <2>3
<1>11. CASE Terminating \/ UNCHANGED vars
  BY <1>11 DEF Terminating, vars, PatternPhase, AnsweredByPattern, EarlierEntriesMiss
<1>. QED  BY <1>1, <1>2, <1>3, <1>4, <1>5, <1>6, <1>7, <1>8, <1>9, <1>10,
             <1>11 DEF Next

(* PrecInv holds in every reachable state.                                 *)
THEOREM PrecInvInvariant == Spec => []PrecInv
<1>1. Init => PrecInv
  BY InitRefInv, InitPhase DEF PrecInv
<1>2. PrecInv /\ [Next]_vars => PrecInv'
  BY NextStep, NextPhase DEF PrecInv
<1>. QED  BY <1>1, <1>2, PTL DEF Spec

-----------------------------------------------------------------------------
(* With name_patterns[] in the order TableOrder states, a name that a     *)
(* more specific entry matches never resolves through a broader entry:    *)
(* when find_descriptor_by_name answers from entry i, every entry whose   *)
(* key strictly contains entry i's key comes earlier in the table, and    *)
(* the loop already rejected it.                                            *)
LEMMA PrecInvMostSpecific ==
    ASSUME TableOrder, PrecInv
    PROVE  MostSpecificWins
<1>. SUFFICES ASSUME AnsweredByPattern, NEW k \in DOMAIN NamePatterns,
                     NamePatterns[k].key # NamePatterns[i].key,
                     Contains(NamePatterns[k].key, NamePatterns[i].key),
                     PatternMatches(name, NamePatterns[k]),
                     \E c \in DOMAIN Catalog : SameProduct(Catalog[c], NamePatterns[k])
              PROVE  FALSE
  BY DEF MostSpecificWins
<1>1. EarlierEntriesMiss(i) /\ i \in NR!PatternHits(name)
  BY DEF PrecInv, PatternPhase
<1>2. i \in DOMAIN NamePatterns
  BY <1>1, ContractOps DEF NR!PatternHits
<1>3. k < i
  BY <1>2 DEF TableOrder
<1>4. k \in NR!PatternHits(name)
  <2>1. NR!SpecMatches(name, NR!NamePatterns[k])
    BY ContractOps
  <2>2. \E c \in DOMAIN Catalog : NR!SameProduct(Catalog[c], NR!NamePatterns[k])
    BY ContractOps
  <2>. QED  BY <2>1, <2>2, ContractOps DEF NR!PatternHits
<1>5. k \in 1..(i - 1)
  BY <1>2, <1>3, TableIsSeq
<1>. QED  BY <1>1, <1>4, <1>5 DEF EarlierEntriesMiss

(* Table precedence (spec section 8) for every catalog, every set of      *)
(* names and every bound on the calls: the pattern loop of                 *)
(* find_descriptor_by_name, with the table in its declared order, never   *)
(* answers a name through a broader entry than one that applies.          *)
THEOREM MostSpecificWinsTheorem ==
    ASSUME TableOrder
    PROVE  Spec => []MostSpecificWins
<1>1. PrecInv => MostSpecificWins
  BY PrecInvMostSpecific
<1>. QED  BY <1>1, PrecInvInvariant, PTL

=============================================================================
