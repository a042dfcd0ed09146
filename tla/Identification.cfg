CONSTANTS
    Catalog <- MCCatalog
    Names <- MCNames
    MaxCalls <- MCMaxCalls
SPECIFICATION Spec
INVARIANTS
    TypeOK
    NoDescriptorLeak
    MostSpecificWins
    TableOrder
PROPERTIES
    LookupsReturn
    ResolutionRefined
