SPECIFICATION Spec
CONSTANTS
  f1 = f1  f2 = f2  d1 = d1  d2 = d2  v1 = v1  v2 = v2
  File = {f1, f2}
  Data = {d1, d2}
  Size <- OneLength
  Vault = {v1, v2}
  Events = {"fail", "lost_answer", "kill", "list_fails", "no_stat", "old_index", "edit_busy"}
  max_tries = 2
  MaxEdits = 1
  MaxUploads = 2
INVARIANTS TypeOK CleanIsUploaded RowsTrue SyncComplete IInv
PROPERTY NoRedundantUpload
CONSTRAINT SecondVault
SYMMETRY SwapAll
CHECK_DEADLOCK FALSE
