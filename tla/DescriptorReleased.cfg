CONSTANTS
    MaxCalls <- MCMaxCalls
    MaxDownloads <- MCMaxDownloads
SPECIFICATION Spec
INVARIANT DescriptorReleased
