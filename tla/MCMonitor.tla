------------------------------ MODULE MCMonitor -------------------------------
(* The monitor task with the two buttons that exclude each other.            *)
EXTENDS Monitor

BothButtons == <<"btn1", "btn0">>

(* Registered before midnight of a Sunday, and within a minute.              *)
TwoTimes ==
  {[week |-> 7, hour |-> 23, min |-> 59, sec |-> 57],
   [week |-> 1, hour |-> 8, min |-> 59, sec |-> 55]}
=============================================================================
