\* A probe arriving for a VM whose tap has the responder, --watch.
CONSTANTS
    Ip = {"A", "B", "C", "D", "S"}
    Vni = {0, 100, 200}
    Node = {"a", "r", "b", "h"}
    Iface = {"a1", "r1", "r2", "b1", "eth0", "vx", "vy", "md", "ta", "tb"}
    NodeOf <- MCNodeOf
    Tap = {"ta", "tb"}
    VxlanDev = {"vx", "vy", "md"}
    DevVni <- MCDevVni
    Deployments <- WatchDeployment
    Journeys <- InboundJourney
    Home <- MCHome
    Probes <- MCProbes
SPECIFICATION Spec
INVARIANT DroppedIsAnswered
CHECK_DEADLOCK FALSE
