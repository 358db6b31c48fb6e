----------------------------- MODULE MCSession -----------------------------
EXTENDS Session, TLC
Sym == Permutations(Tabs) \cup Permutations(Calls) \cup Permutations(Tokens)
       \cup Permutations(Access) \cup Permutations(SignIns)
=============================================================================
