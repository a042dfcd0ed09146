-------------------------- MODULE MCIdentification --------------------------
(***************************************************************************)
(* A small catalog for Identification, in libdivecomputer's iteration     *)
(* order: the Shearwater Petrel family, where "Petrel" and "Petrel 2"     *)
(* share family and model 3, and one device reachable only through its    *)
(* BLE filter.  The names exercise a specific key ("Petrel 3", "Perdix 2") *)
(* against its broader one, an entry with no catalog descriptor ("Teric"), *)
(* the filter fallback ("FQ123456") and an unknown device ("Nemo").        *)
(***************************************************************************)
EXTENDS Identification

Dev(v, p, f, m, b, fl) ==
    [vendor |-> v, product |-> p, family |-> f, model |-> m, ble |-> b, filter |-> fl]

MCCatalog ==
    << Dev("Shearwater", "Petrel", "shearwater_petrel", 3, FALSE, {"Petrel"}),
       Dev("Shearwater", "Petrel 2", "shearwater_petrel", 3, TRUE, {"Petrel"}),
       Dev("Shearwater", "Perdix", "shearwater_petrel", 5, TRUE, {"Perdix"}),
       Dev("Shearwater", "Petrel 3", "shearwater_petrel", 10, TRUE, {"Petrel"}),
       Dev("Shearwater", "Perdix 2", "shearwater_petrel", 11, TRUE, {"Perdix"}),
       Dev("Oceanic", "Geo 4.0", "oceanic_atom2", 18003, TRUE, {"FQ"}) >>

MCNames == {"Petrel", "Petrel 3 0412", "Perdix 2 0A1B", "Teric", "FQ123456", "Nemo"}

MCMaxCalls == 2

=============================================================================
