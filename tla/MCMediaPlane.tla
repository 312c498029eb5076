---------------------------- MODULE MCMediaPlane ----------------------------
(* The instance that MediaPlane.cfg gives its constants.                    *)
EXTENDS MediaPlane
=============================================================================
