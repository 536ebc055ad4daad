CONSTANTS
    Mutations = {m1, m2}
    Writers = {w1}
    Autos = {a1, a2}
    Manuals = {o1}
    Resumes = {}
    Wakes = {}
    Pauses = {}
    Hibernates = {}
    Nobody = Nobody
    Concierge = FALSE
    Window = 1
    AutoLimit = 1
    AutoWindow = 2
    MaxFaults = 1
    Crowds = {{m1, m2, w1}, {m1, w1, o1}, {m1, m2, o1}, {m1, a1, a2, o1}}
    ChatScenes = {"poll", "hook", "post", "split"}
    ChatEvents = {e1, e2}
    ChatChannels = {c1, c2}
    PollLoops = {l1, l2}
    HookCalls = {q1, q2}
    ChatSends = {s1, s2}
    Nil = nil
    ChannelBudget = 1
    MaxPosts = 2
    MaxTextLen = 5
    ChunkLen = 3
    MaxChatFaults = 1
SPECIFICATION CrowdSpec
SYMMETRY Symmetry
CHECK_DEADLOCK FALSE
INVARIANTS RestartsAreSerial WritesLand BreakerBounds ChatsAreServed
