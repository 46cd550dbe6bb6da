------------------------------- MODULE EnvMap -------------------------------
(***************************************************************************)
(* What the console makes of the environment of the target, as a map: a    *)
(* command gives one variable a value, and it may cost one variable whose  *)
(* name begins with the name in the command: never another one, and never  *)
(* two.                                                                    *)
(***************************************************************************)
CONSTANTS Names, Values, NoValue, BeginsWith

VARIABLE env

(* The name m begins with the name n. *)
Begins(n, m) == <<n, m>> \in BeginsWith

EnvInit == env \in [Names -> Values \cup {NoValue}]

Assign(n, v) == env' = [env EXCEPT ![n] = v]

Lose(n, m) == Begins(n, m) /\ env' = [env EXCEPT ![m] = NoValue]

Displace(n, v, m) ==
  /\ Begins(n, m) /\ env[n] = NoValue /\ env[m] # NoValue
  /\ env' = [env EXCEPT ![m] = NoValue, ![n] = v]

EnvNext ==
  \E n \in Names :
    \/ \E v \in Values : Assign(n, v)
    \/ \E m \in Names : Lose(n, m)
    \/ \E v \in Values, m \in Names : Displace(n, v, m)

EnvSpec == EnvInit /\ [][EnvNext]_env

=============================================================================
