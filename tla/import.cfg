SPECIFICATION FilesSpec

CONSTANTS
    k1 = k1
    k2 = k2
    old = old
    new = new
    app = app
    junk = junk
    Null = Null
    Key = {k1, k2, junk}
    Text = {old, new, app, junk}
    Char <- MCChar
    Export <- MCExport
    LineOf <- MCLineOf
    File <- MCFile
    New <- MCNew
    MaxId = 5
    MaxLiked = 1
    MaxReruns = 1
    MaxCrashes = 1

INVARIANTS
    MergeInv
    KeysHold
    FilesComeWhole

PROPERTIES
    IdentityIsKept
    ImportIsMerge

CHECK_DEADLOCK FALSE
