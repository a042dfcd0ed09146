------------------------- MODULE IdentificationTable -------------------------
(***************************************************************************)
(* The data and the string tests of device identification in              *)
(* configuredc.c: the name_patterns table in its declared order, the       *)
(* three match modes, and the "Vendor Product" label.  Strings are TLA+    *)
(* strings; strstr and strncmp are written with Len and SubSeq, which TLC  *)
(* evaluates on strings.                                                    *)
(*                                                                         *)
(* The descriptor catalog of libdivecomputer is a constant: a sequence of  *)
(* records [vendor, product, family, model, ble, filter] in iteration      *)
(* order, where filter is the set of name fragments dc_descriptor_filter   *)
(* accepts for BLE.                                                         *)
(***************************************************************************)
EXTENDS Naturals, Sequences

CONSTANT Catalog

(* The catalog is libdivecomputer's list of dc_descriptor_t in iteration *)
(* order: vendor and product strings, a family, a model number, whether    *)
(* the device speaks BLE, and the name fragments its filter accepts.       *)
ASSUME CatalogAssumption ==
    Catalog \in Seq([vendor : STRING, product : STRING, family : STRING,
                     model : Nat, ble : BOOLEAN, filter : SUBSET STRING])

Pat(k, v, p, m) == [key |-> k, vendor |-> v, product |-> p, mode |-> m]

(* Mutant: "Petrel" is listed before "Petrel 3".                        *)
NamePatternsPetrelFirst ==
  << Pat("Predator", "Shearwater", "Predator", "exact"),
     Pat("Perdix 2", "Shearwater", "Perdix 2", "exact"),
     Pat("Petrel", "Shearwater", "Petrel 2", "exact"),
     Pat("Petrel 3", "Shearwater", "Petrel 3", "exact"),
     Pat("Perdix", "Shearwater", "Perdix", "exact"),
     Pat("Teric", "Shearwater", "Teric", "exact"),
     Pat("Peregrine TX", "Shearwater", "Peregrine TX", "exact"),
     Pat("Peregrine", "Shearwater", "Peregrine TX", "exact"),
     Pat("NERD 2", "Shearwater", "NERD 2", "exact"),
     Pat("NERD", "Shearwater", "NERD", "exact"),
     Pat("Tern", "Shearwater", "Tern", "exact"),
     Pat("EON Steel", "Suunto", "EON Steel", "exact"),
     Pat("Suunto D5", "Suunto", "D5", "exact"),
     Pat("EON Core", "Suunto", "EON Core", "exact"),
     Pat("G2", "Scubapro", "G2", "exact"),
     Pat("HUD", "Scubapro", "G2 HUD", "exact"),
     Pat("G3", "Scubapro", "G3", "exact"),
     Pat("Aladin", "Scubapro", "Aladin Sport Matrix", "exact"),
     Pat("A1", "Scubapro", "Aladin A1", "exact"),
     Pat("A2", "Scubapro", "Aladin A2", "exact"),
     Pat("Luna 2.0 AI", "Scubapro", "Luna 2.0 AI", "exact"),
     Pat("Luna 2.0", "Scubapro", "Luna 2.0", "exact"),
     Pat("Mares Genius", "Mares", "Genius", "exact"),
     Pat("Sirius", "Mares", "Sirius", "exact"),
     Pat("Quad Ci", "Mares", "Quad Ci", "exact"),
     Pat("Puck4", "Mares", "Puck 4", "exact"),
     Pat("CARESIO_", "Cressi", "Cartesio", "prefix"),
     Pat("GOA_", "Cressi", "Goa", "prefix"),
     Pat("Leonardo", "Cressi", "Leonardo 2.0", "contains"),
     Pat("Donatello", "Cressi", "Donatello", "contains"),
     Pat("Michelangelo", "Cressi", "Michelangelo", "contains"),
     Pat("Neon", "Cressi", "Neon", "contains"),
     Pat("Nepto", "Cressi", "Nepto", "contains"),
     Pat("OSTC 3", "Heinrichs Weikamp", "OSTC Plus", "exact"),
     Pat("OSTC s#", "Heinrichs Weikamp", "OSTC Sport", "exact"),
     Pat("OSTC s ", "Heinrichs Weikamp", "OSTC Sport", "exact"),
     Pat("OSTC 4-", "Heinrichs Weikamp", "OSTC 4", "exact"),
     Pat("OSTC 2-", "Heinrichs Weikamp", "OSTC 2N", "exact"),
     Pat("OSTC + ", "Heinrichs Weikamp", "OSTC 2", "exact"),
     Pat("OSTC", "Heinrichs Weikamp", "OSTC 2", "exact"),
     Pat("COSMIQ", "Deepblu", "Cosmiq+", "exact"),
     Pat("S1", "Oceans", "S1", "exact"),
     Pat("McLean Extreme", "McLean", "Extreme", "exact"),
     Pat("DiveComputer", "Tecdiving", "DiveComputer.eu", "exact"),
     Pat("DS", "Ratio", "iX3M 2021 GPS Easy", "exact"),
     Pat("IX5M", "Ratio", "iX3M 2021 GPS Easy", "exact"),
     Pat("RATIO-", "Ratio", "iX3M 2021 GPS Easy", "exact") >>

(* name_patterns[]: order matters, the first match wins.                 *)
NamePatterns ==
  << Pat("Predator", "Shearwater", "Predator", "exact"),
     Pat("Perdix 2", "Shearwater", "Perdix 2", "exact"),
     Pat("Petrel 3", "Shearwater", "Petrel 3", "exact"),
     Pat("Petrel", "Shearwater", "Petrel 2", "exact"),
     Pat("Perdix", "Shearwater", "Perdix", "exact"),
     Pat("Teric", "Shearwater", "Teric", "exact"),
     Pat("Peregrine TX", "Shearwater", "Peregrine TX", "exact"),
     Pat("Peregrine", "Shearwater", "Peregrine TX", "exact"),
     Pat("NERD 2", "Shearwater", "NERD 2", "exact"),
     Pat("NERD", "Shearwater", "NERD", "exact"),
     Pat("Tern", "Shearwater", "Tern", "exact"),
     Pat("EON Steel", "Suunto", "EON Steel", "exact"),
     Pat("Suunto D5", "Suunto", "D5", "exact"),
     Pat("EON Core", "Suunto", "EON Core", "exact"),
     Pat("G2", "Scubapro", "G2", "exact"),
     Pat("HUD", "Scubapro", "G2 HUD", "exact"),
     Pat("G3", "Scubapro", "G3", "exact"),
     Pat("Aladin", "Scubapro", "Aladin Sport Matrix", "exact"),
     Pat("A1", "Scubapro", "Aladin A1", "exact"),
     Pat("A2", "Scubapro", "Aladin A2", "exact"),
     Pat("Luna 2.0 AI", "Scubapro", "Luna 2.0 AI", "exact"),
     Pat("Luna 2.0", "Scubapro", "Luna 2.0", "exact"),
     Pat("Mares Genius", "Mares", "Genius", "exact"),
     Pat("Sirius", "Mares", "Sirius", "exact"),
     Pat("Quad Ci", "Mares", "Quad Ci", "exact"),
     Pat("Puck4", "Mares", "Puck 4", "exact"),
     Pat("CARESIO_", "Cressi", "Cartesio", "prefix"),
     Pat("GOA_", "Cressi", "Goa", "prefix"),
     Pat("Leonardo", "Cressi", "Leonardo 2.0", "contains"),
     Pat("Donatello", "Cressi", "Donatello", "contains"),
     Pat("Michelangelo", "Cressi", "Michelangelo", "contains"),
     Pat("Neon", "Cressi", "Neon", "contains"),
     Pat("Nepto", "Cressi", "Nepto", "contains"),
     Pat("OSTC 3", "Heinrichs Weikamp", "OSTC Plus", "exact"),
     Pat("OSTC s#", "Heinrichs Weikamp", "OSTC Sport", "exact"),
     Pat("OSTC s ", "Heinrichs Weikamp", "OSTC Sport", "exact"),
     Pat("OSTC 4-", "Heinrichs Weikamp", "OSTC 4", "exact"),
     Pat("OSTC 2-", "Heinrichs Weikamp", "OSTC 2N", "exact"),
     Pat("OSTC + ", "Heinrichs Weikamp", "OSTC 2", "exact"),
     Pat("OSTC", "Heinrichs Weikamp", "OSTC 2", "exact"),
     Pat("COSMIQ", "Deepblu", "Cosmiq+", "exact"),
     Pat("S1", "Oceans", "S1", "exact"),
     Pat("McLean Extreme", "McLean", "Extreme", "exact"),
     Pat("DiveComputer", "Tecdiving", "DiveComputer.eu", "exact"),
     Pat("DS", "Ratio", "iX3M 2021 GPS Easy", "exact"),
     Pat("IX5M", "Ratio", "iX3M 2021 GPS Easy", "exact"),
     Pat("RATIO-", "Ratio", "iX3M 2021 GPS Easy", "exact") >>

(* strstr(name, key) != NULL                                               *)
Contains(name, key) ==
    \E k \in 0..(Len(name) - Len(key)) : SubSeq(name, k + 1, k + Len(key)) = key

(* strncmp(name, key, strlen(key)) == 0                                    *)
StartsWith(name, key) ==
    Len(key) <= Len(name) /\ SubSeq(name, 1, Len(key)) = key

(* Mutant: MATCH_EXACT compares the whole name, as its comment says.    *)
PatternMatchesWholeName(name, p) ==
    CASE p.mode = "prefix" -> StartsWith(name, p.key)
      [] p.mode = "exact"  -> name = p.key
      [] OTHER             -> Contains(name, p.key)

(* The switch on match_type: MATCH_EXACT and MATCH_CONTAINS both use      *)
(* strstr, MATCH_PREFIX uses strncmp.                                      *)
PatternMatches(name, p) ==
    IF p.mode = "prefix" THEN StartsWith(name, p.key) ELSE Contains(name, p.key)

(* The test on each descriptor of the pattern phase: vendor and product   *)
(* equal those of the pattern.                                              *)
SameProduct(d, p) == d.vendor = p.vendor /\ d.product = p.product

(* The test of the fallback phase: a BLE descriptor whose filter accepts  *)
(* the name.                                                                *)
FilterAccepts(d, name) == d.ble /\ \E f \in d.filter : Contains(name, f)

(* A lookup's dc_status_t with the descriptor it stored in               *)
(* *out_descriptor, given as its catalog index (0 when none).               *)
Found(c) == [status |-> "success", desc |-> c]

Failed(st) == [status |-> st, desc |-> 0]

NoModel == [family |-> "none", model |-> 0]

(* The (family, model) pairs a caller may ask for: those of the catalog  *)
(* and model 0, which no descriptor has.                                   *)
ModelKeys ==
    {[family |-> Catalog[c].family, model |-> m] :
        c \in DOMAIN Catalog, m \in {Catalog[d].model : d \in DOMAIN Catalog} \cup {0}}

(* snprintf(full_name, len, "%s %s", vendor, product)                      *)
Label(d) == d.vendor \o " " \o d.product

=============================================================================
