CONSTANTS
    Catalog <- MCCatalog
    Names <- MCNames
    MaxCalls <- MCMaxCalls
SPECIFICATION Spec
INVARIANT
    SessionLabelMatchesName
