------------------------------- MODULE Money -------------------------------
(* Amounts and times are integers. None stands for a value that is absent,    *)
(* unreadable or was never established; the code keeps those apart from zero. *)
EXTENDS Integers, Sums

CONSTANT None

ASSUME NoneIsNoNumber == None \notin Int

AtLeastZero(n) == IF n < 0 THEN 0 ELSE n
Lesser(m, n) == IF m < n THEN m ELSE n

(* A JSON object with the entry of a key replaced or added.                   *)
Put(file, key, value) ==
  [k \in DOMAIN file \cup {key} |-> IF k = key THEN value ELSE file[k]]
=============================================================================
