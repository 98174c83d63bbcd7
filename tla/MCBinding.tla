----------------------------- MODULE MCBinding -----------------------------
(***************************************************************************)
(* Binding on a fixed NTFS volume that carries two nested watched folders  *)
(* and the log, and a letter that an NTFS and an exFAT drive share.        *)
(***************************************************************************)
EXTENDS Binding

CONSTANTS vc, vd, vx,         \* the fixed volume, and the two drives
          a, f, b, j, s,      \* folders on vc: watched, watched within it, the log's,
                              \* a junction to a, and one that is not the owner's
          old, fresh,         \* a file in s, and the log to be created
          g, x                \* the folders of the drives

MCKind == [t \in Things |-> IF t = j THEN "junction"
                            ELSE IF t \in {old, fresh} THEN "file" ELSE "folder"]
MCVol == [t \in Things |-> IF t = g THEN vd ELSE IF t = x THEN vx ELSE vc]
MCLeads == [t \in {j} |-> a]
MCAllowed == Things \ {s, old}
MCFormat == [v \in Volumes |-> IF v = vx THEN "exfat" ELSE "ntfs"]

MCPlace == [t \in Things |->
  CASE t = a -> Spot(vc, "a") [] t = f -> Spot(a, "f") [] t = b -> Spot(vc, "b")
    [] t = j -> Spot(vc, "j") [] t = s -> Spot(vc, "s") [] t = old -> Spot(s, "l")
    [] t = g -> Spot(vd, "g") [] t = x -> Spot(vx, "g") [] OTHER -> New]
MCLetter == [l \in Letters |-> IF l = "C" THEN vc ELSE vd]

MCSpots == [t \in Things |->
  CASE t = a -> {Spot(vc, "a"), Spot(vc, "z")}
    [] t = f -> {Spot(a, "f"), Spot(a, "z")}
    [] t = b -> {Spot(vc, "b"), Spot(vc, "z")}
    [] t = j -> {Spot(vc, "j"), Spot(vc, "a"), Spot(vc, "b")}
    [] t = s -> {Spot(vc, "s"), Spot(vc, "a"), Spot(vc, "b")}
    [] t = g -> {Spot(vd, "g"), Spot(vd, "z")}
    [] OTHER -> {}]

MCFolders == << [letter |-> "C", dir |-> None, name |-> "a"],
                [letter |-> "C", dir |-> "a", name |-> "f"],
                [letter |-> "D", dir |-> None, name |-> "g"] >>
MCLog == [letter |-> "C", dir |-> "b", name |-> "l"]
=============================================================================
