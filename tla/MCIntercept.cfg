\* The routed network and the hypervisor, every deployment, journey and probe.
CONSTANTS
    Ip = {"A", "B", "C", "D", "S"}
    Vni = {0, 100, 200}
    Node = {"a", "r", "b", "h"}
    Iface = {"a1", "r1", "r2", "b1", "eth0", "vx", "vy", "md", "ta", "tb"}
    NodeOf <- MCNodeOf
    Tap = {"ta", "tb"}
    VxlanDev = {"vx", "vy", "md"}
    DevVni <- MCDevVni
    Deployments <- AllDeployments
    Journeys <- AllJourneys
    Home <- MCHome
    Probes <- MCProbes
SPECIFICATION FairSpec
INVARIANTS StaticDropIsAnswered CoveredDropIsAnswered NoDoubleReply RepliesAreQuiet
    ObservationsMatchFate VniConsistent
PROPERTIES AnswerReachesSender DeliverReachesEnd
CHECK_DEADLOCK FALSE
