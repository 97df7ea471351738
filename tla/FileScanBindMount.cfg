SPECIFICATION FairSpec
CONSTANTS
  root = root  a = a  b = b  c = c  m = m
  top = top  usr = usr  doc = doc  mnt = mnt  lib = lib  txt = txt  Cut = Cut
  Dirs <- AllDirs
  Root = root
  NameOf <- Names
  FilesIn <- Files
  Tracked = {lib}
  Mounts = {m}
  Excluded = {}
  BindMounts = {c}
  PruneNames = {}
  PrunePaths = {}
  PruneBindMounts = TRUE
  Faults = {}
  MaxFaults = 0
  MaxTrouble = 1
  FdLimit = 4
  PathLimit = 3
  MaxFileSamples = 1
  MaxPathSamples = 2
INVARIANT BindMountsStayOut
