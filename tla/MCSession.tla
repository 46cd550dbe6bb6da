----------------------------- MODULE MCSession -----------------------------
(* Instances of Session for TLC: the scripts the console is given. *)
EXTENDS Session

(* The shape of test/std.cfg, and scripts that go through every command;    *)
(* none stops before it has started.                                        *)
OrdinaryScripts == {
  <<"target", "start", "interact", "message", "quit">>,
  <<"target", "start", "restart", "exec", "message">>,
  <<"target", "exec", "start", "stop">>,
  <<"start", "target", "start", "show">>,
  <<"message", "empty">>}

(* A stop right after a start. *)
StopAtOnce == {<<"target", "start", "stop", "message">>}

(* A signal that kill sends and the one of Ctrl-C: exit_operation begins    *)
(* anew in the middle of an exit_operation.                                 *)
TwoSignals == {"INT", "TERM"}
=============================================================================
