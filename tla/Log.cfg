SPECIFICATION Spec
CONSTANTS
  ctl1 = ctl1
  ctl2 = ctl2
  Ctls = {ctl1}
  Texts = {"plain", "escaped"}
  MaxBoots = 3
  MaxMessages = 2
  MaxKernel = 1
  MaxRequests = 2
  MaxCrashes = 1
  MaxEvents = 4
INVARIANTS TypeOK LoggedIsKept CutIsGone LogIsReadable IndexIsTrue ShowIsExact
CONSTRAINT FewEvents
SYMMETRY Symmetric
CHECK_DEADLOCK FALSE
