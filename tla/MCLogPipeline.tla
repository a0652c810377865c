---------------------------- MODULE MCLogPipeline ----------------------------
(* Instances of LogPipeline with the flags of Settings/ControlEngine.json. *)
EXTENDS LogPipeline

OneLogger == {"logger"}
ShippedNetwork == {"Info", "Debug", "Warning", "Error"}
=============================================================================
