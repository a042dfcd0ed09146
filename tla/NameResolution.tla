--------------------------- MODULE NameResolution ---------------------------
(***************************************************************************)
(* What a descriptor lookup promises, stated declaratively from spec.md    *)
(* section 4.2: a lookup by advertised name returns the first catalog      *)
(* descriptor of the first table entry that matches the name and has one; *)
(* failing that, the first BLE descriptor whose filter accepts the name;   *)
(* failing that, Unsupported.  A lookup by (family, model) returns the     *)
(* first descriptor with that family and model, or Unsupported.  Either    *)
(* lookup may instead report that the catalog iterator could not be        *)
(* created.  A lookup is one atomic step here: query is the pending        *)
(* question and result the last answer.                                    *)
(***************************************************************************)
EXTENDS IdentificationTable

CONSTANT Names

VARIABLES query, result

NoQuery == [kind |-> "none", name |-> "", model |-> NoModel]

Queries == [kind : {"name"}, name : Names, model : {NoModel}]
           \cup [kind : {"model"}, name : {""}, model : ModelKeys]

(* The least element of a non-empty set of indices.                      *)
First(S) == CHOOSE x \in S : \A y \in S : x <= y

(* Step 1 of the contract: Exact and Contains test that the key is a      *)
(* substring of the name, Prefix that the name starts with the key.        *)
SpecMatches(n, p) ==
    IF p.mode = "prefix" THEN StartsWith(n, p.key) ELSE Contains(n, p.key)

PatternHits(n) ==
    {i \in DOMAIN NamePatterns :
        SpecMatches(n, NamePatterns[i])
        /\ \E c \in DOMAIN Catalog : SameProduct(Catalog[c], NamePatterns[i])}

FilterHits(n) == {c \in DOMAIN Catalog : FilterAccepts(Catalog[c], n)}

ModelHits(fm) == {c \in DOMAIN Catalog : Catalog[c].family = fm.family /\ Catalog[c].model = fm.model}

SpecResolve(q) ==
    IF q.kind = "name"
    THEN IF PatternHits(q.name) # {}
         THEN Found(First({c \in DOMAIN Catalog :
                             SameProduct(Catalog[c], NamePatterns[First(PatternHits(q.name))])}))
         ELSE IF FilterHits(q.name) # {} THEN Found(First(FilterHits(q.name)))
              ELSE Failed("unsupported")
    ELSE IF ModelHits(q.model) # {} THEN Found(First(ModelHits(q.model))) ELSE Failed("unsupported")

AInit == query = NoQuery /\ result = Failed("none")

Ask == query = NoQuery /\ \E q \in Queries : query' = q /\ UNCHANGED result

Answer == query # NoQuery /\ query' = NoQuery /\ result' \in {SpecResolve(query), Failed("iterator_error")}

ASpec == AInit /\ [][Ask \/ Answer]_<<query, result>>

=============================================================================
