SPECIFICATION Spec
CONSTANTS
  ctl1 = ctl1
  ctl2 = ctl2
  Ctls = {ctl1}
  Texts = {"plain"}
  MaxBoots = 3
  MaxMessages = 1
  MaxKernel = 0
  MaxRequests = 2
  MaxCrashes = 1
  MaxEvents = 4
INVARIANTS VacuumRemoves
CONSTRAINT FewEvents
SYMMETRY Symmetric
CHECK_DEADLOCK FALSE
