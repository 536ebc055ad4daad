CONSTANTS
    Mutations = {m1}
    Writers = {}
    Autos = {}
    Manuals = {}
    Resumes = {r1}
    Wakes = {k1}
    Pauses = {p1}
    Hibernates = {h1}
    Nobody = Nobody
    Concierge = TRUE
    Window = 1
    AutoLimit = 1
    AutoWindow = 2
    MaxFaults = 1
    Crowds = {{m1, r1, k1, p1, h1}}
    ChatScenes = {}
    ChatEvents = {e1}
    ChatChannels = {c1}
    PollLoops = {}
    HookCalls = {}
    ChatSends = {}
    Nil = nil
    ChannelBudget = 1
    MaxPosts = 2
    MaxTextLen = 5
    ChunkLen = 3
    MaxChatFaults = 1
SPECIFICATION FairCrowdSpec
CHECK_DEADLOCK FALSE
PROPERTIES RequestsEnd
