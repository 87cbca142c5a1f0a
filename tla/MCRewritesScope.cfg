SPECIFICATION QuerySpec
CONSTANTS
    WrittenQueries <- Bare
    Databases <- Contents
    Schemas <- Catalog
INVARIANT
    RewriteIsInvisible
CHECK_DEADLOCK FALSE
