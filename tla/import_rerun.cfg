SPECIFICATION Spec

CONSTANTS
    k1 = k1
    k2 = k2
    k3 = k3
    old = old
    new = new
    app = app
    Null = Null
    Key = {k1, k2, k3}
    Text = {old, new, app}
    File <- MCShipped
    New <- MCNew
    MaxId = 5
    MaxLiked = 1
    MaxReruns = 1
    MaxCrashes = 0

PROPERTIES
    MergeGoesByNaturalKey

CHECK_DEADLOCK FALSE
