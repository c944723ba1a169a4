-------------------------- MODULE MCExplorerStore --------------------------
EXTENDS ExplorerStore, TLC

CONSTANTS w1, w2

MCWindows == {w1,w2}
Symmetry == Permutations(MCWindows)

MCContents == {"default", "edited"}
MCDefaultContent == "default"
MCLayouts == {"single", "split"}
=============================================================================
