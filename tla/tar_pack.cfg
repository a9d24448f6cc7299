SPECIFICATION Spec
CONSTANTS
    Id = {1, 2, 3, 4}
    Compressed = {1, 2}
    Sizes = {1, 2}
    Overhead = 1
    target_archive_size = 6
    limitperarchive = 2
    max_tries = 2
    Mishaps = {{"changed", "leftover"}, {"retry", "bad_xz"}}
INVARIANTS TypeOK NamesListed VerifiedSizes WholeMembers ArchiveBounds
PROPERTIES PacksAsPromised
CHECK_DEADLOCK FALSE
