SPECIFICATION Spec
CONSTANTS
  None = None
  Tabs = {t1, t2}
  Calls = {c1, c2}
  Tokens = {n1, n2, n3}
  Access = {a1, a2}
  SignIns = {f1, f2}
  Actions = {"open", "visit", "sign_in", "sign_out", "request"}
SYMMETRY Sym
INVARIANTS ReuseEndsSession
