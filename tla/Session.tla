------------------------------ MODULE Session ------------------------------
(***************************************************************************)
(* What the lease of the ReadWatch service promises (the comments of       *)
(* cmd/readwatch/ipc_windows.go): the service lives for its viewers.       *)
(* It lets itself go only when no viewer holds it and nothing it was asked *)
(* to do is unfinished, and when it has ended it has left nothing running. *)
(* One thing excuses it: a viewer that went before it was taken in is      *)
(* taken in late, and until then another may be mistaken for the one that  *)
(* went.                                                                   *)
(***************************************************************************)
CONSTANT Clients  \* what may hold the service or ask it to do something

VARIABLES holders,  \* the viewers that hold the service
          early,    \* the ones that went before they were taken in
          busy,     \* the connections something is being done for
          lapsed,   \* the service has let itself go
          asked,    \* it has been told to stop
          watching, \* monitoring is on
          ended     \* it is no longer there

vars == <<holders, early, busy, lapsed, asked, watching, ended>>

Init ==
  /\ holders = {} /\ early = {} /\ busy = {}
  /\ lapsed = FALSE /\ asked = FALSE /\ watching = FALSE /\ ended = FALSE

Take(c) ==
  /\ holders' = holders \cup {c}
  /\ UNCHANGED <<early, busy, lapsed, asked, watching, ended>>

\* One goes before it is taken in, and is taken in when it has gone.
GoEarly(c) ==
  /\ c \notin holders /\ early' = early \cup {c}
  /\ UNCHANGED <<holders, busy, lapsed, asked, watching, ended>>

TakeLate(c) ==
  /\ early' = early \ {c}
  /\ UNCHANGED <<holders, busy, lapsed, asked, watching, ended>>

\* One viewer lets go, or all that are left are let go because of a stop.
Release(c) ==
  /\ holders' = holders \ {c}
  /\ UNCHANGED <<early, busy, lapsed, asked, watching, ended>>

ReleaseAll ==
  /\ asked /\ holders' = {} /\ early' = {}
  /\ UNCHANGED <<busy, lapsed, asked, watching, ended>>

Enter(c) ==
  /\ busy' = busy \cup {c}
  /\ UNCHANGED <<holders, early, lapsed, asked, watching, ended>>

\* It has nothing left to do and nobody holds it, unless one may be mistaken for another.
Free == (holders = {} \/ early # {}) /\ busy' = {}

Lapse ==
  /\ Free /\ lapsed' = TRUE
  /\ UNCHANGED <<holders, early, busy, asked, watching, ended>>

Leave(c) ==
  /\ busy' = busy \ {c}
  /\ lapsed' \in IF Free THEN {lapsed, TRUE} ELSE {lapsed}
  /\ UNCHANGED <<holders, early, asked, watching, ended>>

Ask ==
  /\ asked' = TRUE
  /\ UNCHANGED <<holders, early, busy, lapsed, watching, ended>>

Watch ==
  /\ ~ended /\ watching' \in BOOLEAN
  /\ UNCHANGED <<holders, early, busy, lapsed, asked, ended>>

End ==
  /\ asked /\ ended' = TRUE
  /\ watching' = FALSE /\ holders' = {} /\ early' = {} /\ busy' = {}
  /\ UNCHANGED <<lapsed, asked>>

Next ==
  \/ \E c \in Clients : \/ Take(c) \/ GoEarly(c) \/ TakeLate(c) \/ Release(c)
                        \/ Enter(c) \/ Leave(c)
  \/ ReleaseAll \/ Lapse \/ Ask \/ Watch \/ End

Spec == Init /\ [][Next]_vars
=============================================================================
