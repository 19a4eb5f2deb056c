--------------------------- MODULE ModelDownloadMC ---------------------------
(* An instance of ModelDownload for TLC: two models in each list, two      *)
(* downloads at a time and models of three chunks, so that a download can  *)
(* be overtaken in the middle of a file.                                   *)
EXTENDS ModelDownload
=============================================================================
