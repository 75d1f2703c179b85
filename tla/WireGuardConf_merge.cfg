\* Any requests, one after the other: a peer is added after one was removed.
SPECIFICATION ConfSpec
CONSTANTS
  h1 = h1
  h2 = h2
  i1 = i1
  i2 = i2
  i3 = i3
  NoInode = NoInode
  Writers <- Both
  Inodes <- ThreeInodes
  Lengths <- ShortAndLong
  Default = "0644"
  Modes = {"0600"}
  Handlers <- One
  Kinds <- Serial
  Keys = {"k1", "k2"}
  Interface = "interface"
  FinalNewline = {TRUE}
  Faults = FALSE
  MaxSections = 6
INVARIANTS SurvivesReboot
