SPECIFICATION Spec
CONSTANTS
    e1 = e1
    e2 = e2
    a1 = a1
    m1 = m1
    m2 = m2
    m3 = m3
    Experiments = {e1, e2, a1}
    Autolock = {a1}
    Machines = {m1, m2, m3}
    Crosfleet = {m3}
    Labels <- MCLabels
    NumLeases = 1
    Remote <- MCRemote
    LabelRemote <- MCLabelRemote
    Hardware = {1, 2}
    Reports <- MCReports
    None = None
INVARIANT UsesOnlyLocked
