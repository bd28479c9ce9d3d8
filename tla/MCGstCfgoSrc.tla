---------------------------- MODULE MCGstCfgoSrc ----------------------------
(* One element, two clients, and two sources made one after the other. *)
EXTENDS GstCfgoSrc

MCClient == 1..MaxHandles
=============================================================================
