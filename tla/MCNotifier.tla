----------------------------- MODULE MCNotifier -----------------------------
(* The Notifier on a small task. *)
EXTENDS Notifier
=============================================================================
