CONSTANTS
    Requests = {1, 4, 8}
    BlockSize = 7
    memory_ceiling = 1000
    HeaderSize = 2
    LongSize = 4
    Word = 8
    static_prune_point = 100
    schemes_to_use = {2}
    document_filenames_chunk_size = 4
    PointerSize = 1
    members_per_chunk = 2
    FileNames <- MCFileNames
    Texts <- MCTexts
    MaxDocuments = 4
    MaxOthers = 2
SPECIFICATION RepositorySpec
INVARIANTS RepositoryTypes Apart NamesCollected
PROPERTIES ImplementsStore
