---------------------------- MODULE MCMonitoring ----------------------------
(***************************************************************************)
(* Instances of Monitoring for TLC.  o1 and o2 are two folders reached     *)
(* under the path p1, one after the other: on one volume (a folder renamed *)
(* away and replaced) or, in MCVolReuse, on two (the letter of a drive     *)
(* that is out, taken by another).  o3 is the folder of the path p2, on a  *)
(* drive of its own.                                                       *)
(***************************************************************************)
EXTENDS Monitoring, TLC

CONSTANTS o1, o2, o3, p1, p2, v1, v2

MCHome     == [o \in Objects |-> IF o = o3 THEN p2 ELSE p1]
MCVol      == [o \in Objects |-> IF o = o3 THEN v2 ELSE v1]
MCVolReuse == [o \in Objects |-> IF o = o1 THEN v1 ELSE v2]

\* o1 already carries an audit rule of somebody else's; failures were audited.
MCSacl   == [o \in Objects |-> IF o = o1 THEN {"other"} ELSE {}]
MCPolicy == {"failure"}
MCNames  == [p \in Paths |-> IF p = p1 THEN o1 ELSE o3]
=============================================================================
