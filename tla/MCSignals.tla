------------------------------ MODULE MCSignals ------------------------------
(* A small instance of Signals for TLC. *)
EXTENDS Signals

(* The database thread takes both mutexes, the others do what main does. *)
OneWorker == <<"db">>

(* wctl.cfg without FATAL and ERROR, which nothing here logs or toggles. *)
InfoAndStatus == {"INFO", "STATUS"}
Info == {"INFO"}
AllSignals == {"TERM", "USR1", "USR2"}
Term == {"TERM"}
=============================================================================
