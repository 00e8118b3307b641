\* Two callers and the rotation task share one manager; four profiles, one
\* without a ClientHello on disk and one that falls back to another; two
\* fronting domains.
CONSTANTS
  chrome = chrome
  firefox = firefox
  opera = opera
  safari = safari
  Threads = {t1, t2}
  Profiles = {chrome, firefox, opera, safari}
  Tabled = {chrome, firefox, opera}
  Fallback = chrome
  Rotation <- ThreeProfiles
  Dumped = {chrome, firefox}
  Domains = 2
  None = None
  MaxPackets = 3
  MaxRekeys = 1
  MaxSets = 2
  MaxRequests = 3
SPECIFICATION FairSpec
INVARIANTS KeysNeverRepeat OneBrowser
PROPERTY RotationRecurs
