---------------------------- MODULE MCPartitions ----------------------------
(* Months of one and two days; sFlow writes two tables, gNMI the third.    *)
EXTENDS Partitions

MCMonthStart == <<0, 2, 3, 5, 6>>
MCWrites == [sflow |-> {"flow", "util"}, gnmi |-> {"queue"}]
=============================================================================
