-------------------------- MODULE MCInstallation --------------------------
(***************************************************************************)
(* Installation for TLC, with a service that has three things to say.      *)
(***************************************************************************)
EXTENDS Installation

\* Watching everything; waiting for a drive; off, with a rule that could not be removed.
SomeReports ==
  {[ready |-> TRUE, running |-> TRUE, enabled |-> TRUE, waiting |-> FALSE, pending |-> FALSE],
   [ready |-> TRUE, running |-> FALSE, enabled |-> TRUE, waiting |-> TRUE, pending |-> FALSE],
   [ready |-> TRUE, running |-> FALSE, enabled |-> FALSE, waiting |-> FALSE, pending |-> TRUE]}
=============================================================================
