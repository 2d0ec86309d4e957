CONSTANTS
    p1 = p1  p2 = p2  a1 = a1  a2 = a2  a3 = a3
    Pusher = {p1, p2}
    Addr = {a1, a2, a3}
    MaxPush <- Pushes
    PipeCap = 2
    ReadMax = 1
    Null = Null
    Producers = {p1, p2}
    MaxItems = 2
    SyncPipeCap = 1
    SyncReadMax = 1
    Nobody = Nobody
    Threads = {th1, th2}
    Routines = {r1, r2}
    MaxStarts = 3
    MaxPauses = 1
    EndPipeCap = 1
    EndReadMax = 1
    Requests = {q1, q2}
    Services = {1, 2}
    Offered <- OneService
    Handlers = {h1, h2}
    IoHandlers = {h1}
    ErrorCodes = {0, 7}
    Users = {u1, u2, u3, u4}
    MaxConnect = 2
    Envs = {e1, e2}
    Topics = {t1, t2}
    MaxPublish = 2
    MaxBreaks = 1
    MaxCallbacks = 3
SPECIFICATION Spec
INVARIANTS NodesAccounted 
PROPERTIES QueuesFifo ServicesSettle
CHECK_DEADLOCK FALSE
