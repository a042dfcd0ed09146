CONSTANTS
    MaxCalls <- MCMaxCalls
    MaxDownloads <- MCMaxDownloads
SPECIFICATION Spec
INVARIANT TypeOK
INVARIANT LeakFree
INVARIANT SessionWellFormed
PROPERTY StoredFallbackClean
PROPERTY SessionLifecycleRefined
