SPECIFICATION Spec
CONSTANTS
    c1 = c1
    c2 = c2
    Commands = {c1, c2}
    Versions <- MCVersions
    Nightlies <- MCNightlies
    Damaged = Damaged
    None = None
    MaxRev = 2
    Reuploaded <- MCReuploaded
PROPERTIES
    InstallsWhatItFound
    StableInstallsNewer
SYMMETRY MCSymmetry
