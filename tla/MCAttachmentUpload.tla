------------------------ MODULE MCAttachmentUpload ------------------------
(* Small instances of AttachmentUpload for TLC.                             *)
EXTENDS AttachmentUpload

CONSTANT d1
=============================================================================
