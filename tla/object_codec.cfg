CONSTANTS
    Alphabet <- Words
    Tree <- Trees
    depth <- Depth
    Option <- Options
    List <- Lists
    Envelope = {"alias", "filter"}
    Name <- Names
    None = None
    Refused = Refused
SPECIFICATION CodecSpec
INVARIANTS CollapseComplete SortedReadsBack ImportRestoresBlock
