------------------------------ MODULE MCAudit ------------------------------
(* A file and a remote observer; only the remote one fails. *)
EXTENDS Audit

MCObservers == <<"file", "url">>
=============================================================================
