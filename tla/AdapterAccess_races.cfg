SPECIFICATION Spec
CONSTANTS
  System = System  Global = Global  Workspaces = {w1, w2}
  gmail = gmail  ses = ses  smtp = smtp  Adapters = {gmail, ses, smtp}
  gi = gi  si = si  sj = sj  Idents = {gi, si, sj}  SeedIdents = {gi, si}
  KindOf <- MCKindOf  OwnerOf <- MCOwnerOf  AdapterOf <- MCAdapterOf
  Domain = Domain  None = None  Keep = Keep
  Procs = {p1, p2}  MaxRequests = 3
SYMMETRY Symmetry
CHECK_DEADLOCK FALSE
INVARIANTS SendsWereGranted InUseIsGranted SelectionIsCoherent
