----------------------------- MODULE MCEnviron -----------------------------
(* Instances of Environ for TLC. *)
EXTENDS Environ

SomeNames == {"HTH_MSQ", "HTH", "_", "_X", "_XY"}

SomeBeginnings ==
  {<<n, n>> : n \in SomeNames}
    \cup {<<"HTH", "HTH_MSQ">>, <<"_", "_X">>, <<"_", "_XY">>, <<"_X", "_XY">>}

SomeEnvironments ==
  {<<"_", "HTH", "_XY">>, <<"_XY", "_", "HTH_MSQ", "_X">>, <<"HTH", "_X", "_", "_XY">>}
=============================================================================
