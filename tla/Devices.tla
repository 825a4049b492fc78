------------------------------ MODULE Devices -------------------------------
(* Small devices for TLC: two partition pairs, one of them "boot".         *)

\* system_x on unit 0 and boot_x on unit 1, as on UFS
TwoUnits == [p \in {"boot", "system"} |->
  [s \in {"_a", "_b"} |-> IF p = "system" THEN 0 ELSE 1]]

\* all on the one user area of an eMMC
OneUnit == [p \in {"boot", "system"} |-> [s \in {"_a", "_b"} |-> 0]]

Blank == [type |-> "idle", pri |-> 0, act |-> FALSE, ret |-> 0,
          suc |-> FALSE, unb |-> FALSE]

\* What the flashing tool writes: no attributes yet.
Factory ==
  [p \in {"boot", "system"} |-> [s \in {"_a", "_b"} |->
     [Blank EXCEPT !.type = IF s = "_a" THEN "own" ELSE "idle"]]]

\* A device in use: slot _a runs, slot _b holds the previous system.
InUse ==
  [p \in {"boot", "system"} |-> [s \in {"_a", "_b"} |->
     IF p = "boot"
     THEN [Factory[p][s] EXCEPT !.pri = IF s = "_a" THEN 3 ELSE 2,
                                !.act = (s = "_a"), !.suc = TRUE]
     ELSE [Factory[p][s] EXCEPT !.act = (s = "_a")]]]

DeviceTables == {Factory, InUse}

\* What three lost writes of a first boot leave, when the system marks its slot
\* all the same: no slot is active, and no first boot comes again.
Unprepared == [Factory EXCEPT !["boot"]["_a"].suc = TRUE]

AllTables == DeviceTables \cup {Unprepared}
=============================================================================
