------------------------ MODULE MCExplorerThumbnails ------------------------
(* The instance of ExplorerThumbnails that TLC checks.                     *)
EXTENDS ExplorerThumbnails

MCModels == {2}
=============================================================================
