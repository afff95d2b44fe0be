SPECIFICATION UpgradeSpec
CONSTANTS
    Releases <- ThreeReleases
    First = 1
    NeedsVenv <- Second
    NeedsPackage <- Second
    p1 = p1
    p2 = p2
    Runs = {p1, p2}
    MaxDeaths = 2
    None = None
INVARIANTS UpgradeTypeOK NeverHalfSwitched RunsKeepTheirEngine TrustCoversInstalled
PROPERTIES UpgradesAtomically InterruptionRecovered
