------------------------------- MODULE MCHTTP2 -------------------------------
EXTENDS HTTP2

MCFat == <<[name |-> "page", data |-> <<"head", "variable", "foot", "end">>, hasIndex |-> TRUE],
           [name |-> "", data |-> <<"offset", "part">>, hasIndex |-> FALSE],
           [name |-> "part", data |-> <<"part">>, hasIndex |-> FALSE],
           [name |-> "config", data |-> <<"foot">>, hasIndex |-> FALSE]>>
MCChunks == {"head", "variable", "foot", "end", "offset", "part"}
MCAlone == {"nothing", "form", "badimage", "nolength", "config", "lost", "other", "endless"}
MCKinds == <<{"page", "image"}, {"page", "image"} \cup MCAlone>>
MCKindsOf == [c \in Conns |-> MCKinds[c + 1]]
==============================================================================
