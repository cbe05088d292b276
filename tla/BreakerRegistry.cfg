SPECIFICATION RegistrySpec
CONSTANTS
    t1 = t1
    t2 = t2
    s1 = s1
    Absent = Absent
    Reloader = Reloader
    Target = {t1, t2}
    Service = {s1}
    Request = {r1, r2}
    Object = {o1, o2, o3}
    Snapshots <- Retire
SYMMETRY RequestSymmetry
INVARIANTS
    OneBreakerPerTarget
    GaugeTracksBreakers
