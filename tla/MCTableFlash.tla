---------------------------- MODULE MCTableFlash ----------------------------
(* Two layouts with slots and two without, in use or fresh.                *)
EXTENDS TableFlash, Devices

SlotsInUse == [name |-> "ab1", t |-> InUse]
SlotsFresh == [name |-> "ab2", t |-> Factory]

StartLayouts == {SlotsInUse, SlotsFresh}

Image(p) == [gpt |-> TRUE, pri |-> TRUE, home |-> TRUE, bak |-> TRUE, parts |-> p]

\* Sound images, and images with one fault each
HostImages ==
  {Image(SlotsFresh), Image([SlotsInUse EXCEPT !.name = "ab2"]),
   Image(Parts("plain")), Image(Parts("other"))}
  \cup {[Image(SlotsFresh) EXCEPT !.gpt = FALSE],
        [Image(SlotsFresh) EXCEPT !.home = FALSE],
        [Image(SlotsFresh) EXCEPT !.bak = FALSE]}
=============================================================================
