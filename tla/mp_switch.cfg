SPECIFICATION Spec
CONSTANTS
  N = 3
  MaxCalls = 2
  Manner = "Hlt"
  CallKinds <- MCSwitch
  Usage = {"switchBSP", "enableDisable"}
INVARIANTS
  TypeOK
  NoOrphan
  SingleOwner
  Accounting
  OneAtATime
