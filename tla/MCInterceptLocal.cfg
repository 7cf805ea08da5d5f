\* A probe between two VMs of one hypervisor, --watch.
CONSTANTS
    Ip = {"A", "B", "C", "D", "S"}
    Vni = {0, 100, 200}
    Node = {"a", "r", "b", "h"}
    Iface = {"a1", "r1", "r2", "b1", "eth0", "vx", "vy", "md", "ta", "tb"}
    NodeOf <- MCNodeOf
    Tap = {"ta", "tb"}
    VxlanDev = {"vx", "vy", "md"}
    DevVni <- MCDevVni
    Deployments <- WatchDeployment
    Journeys <- LocalJourney
    Home <- MCHome
    Probes <- MCProbes
SPECIFICATION Spec
INVARIANT TransitNeverDrops
CHECK_DEADLOCK FALSE
