SPECIFICATION Spec
CONSTANTS
    Configs <- Files
    Builtin <- supportedResources
    Catalogs <- ApiCatalogs
INVARIANTS
    LoadedIsAWatchList
    LoadedRulesResolve
    OneLookupPerGroupVersion
CHECK_DEADLOCK FALSE
