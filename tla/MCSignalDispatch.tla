-------------------------- MODULE MCSignalDispatch --------------------------
(* SignalDispatch on a small instance. *)
EXTENDS SignalDispatch
=============================================================================
