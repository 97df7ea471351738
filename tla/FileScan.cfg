SPECIFICATION FairSpec
CONSTANTS
  root = root  a = a  b = b  c = c  m = m
  top = top  usr = usr  doc = doc  mnt = mnt  lib = lib  txt = txt  Cut = Cut
  Dirs <- AllDirs
  Root = root
  NameOf <- Names
  FilesIn <- Files
  Tracked = {lib}
  Mounts = {c, m}
  Excluded = {m}
  BindMounts = {}
  PruneNames = {}
  PrunePaths <- DocOfUsr
  PruneBindMounts = TRUE
  Faults = {"unreadable", "nostat", "nostream", "nolink", "untyped"}
  MaxFaults = 1
  MaxTrouble = 2
  FdLimit = 4
  PathLimit = 3
  MaxFileSamples = 1
  MaxPathSamples = 2
INVARIANTS TypeOK FindsAll PrunedStaysOut PathsAreReal NoChangeIsMissed
PROPERTY ScanEnds
