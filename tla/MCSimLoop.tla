----------------------------- MODULE MCSimLoop -----------------------------
(* Instances of SimLoop for TLC: values for its constants. *)
EXTENDS SimLoop

OneMachine == {"driver", "wire"}
TwoMachines == {"driver", "node", "wire"}
DriverHost == "driver"
TheWire    == "wire"

NoOffset   == {0}
SlowOrFast == {-1, 1}
ShortDelays == {0, 1}
LongDelay  == {2}
OneDeadline == {1}
NoDeadlines == {}
=============================================================================
