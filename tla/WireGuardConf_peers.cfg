\* Any requests at once, with failures, crashes and reboots: peers, or the saves of a file.
SPECIFICATION SideSpec
CONSTANTS
  h1 = h1
  h2 = h2
  i1 = i1
  i2 = i2
  i3 = i3
  NoInode = NoInode
  Writers <- Both
  Inodes <- ThreeInodes
  Lengths <- ShortAndLong
  Default = "0644"
  Modes = {"0600"}
  Handlers <- Both
  Kinds <- Anything
  Keys = {"k1", "k2"}
  Interface = "interface"
  FinalNewline = {TRUE, FALSE}
  Faults = TRUE
  MaxSections = 5
INVARIANTS TypeOK SurvivesUnlessDisturbed InterfaceKept FileWhole ModeAsWanted
CONSTRAINT NotDisturbed
SYMMETRY Symmetry
