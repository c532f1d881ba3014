CONSTANTS
  p1 = p1
  Producers = {p1}
  Routes = {"cout_proxy", "cerr_proxy", "file_out_proxy"}
  MaxItems = 2
  MaxRestarts = 1
SPECIFICATION Spec
INVARIANT PauseWritesEverything
