----------------------------- MODULE MCRestDownload -----------------------------
(* Model checking of RestDownload: the constants are plain values of the cfg. *)
EXTENDS RestDownload
================================================================================
