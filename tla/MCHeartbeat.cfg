SPECIFICATION Spec
CONSTANTS
    Socket = {s1, s2}
    Off = Off
    HeartbeatInterval = 3
    PongTimeout = 2
    MaxLatency = 5
INVARIANTS TimersBelongToLiveSockets PromptClientStays
PROPERTIES SilentClientCloses
