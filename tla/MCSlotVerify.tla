---------------------------- MODULE MCSlotVerify ----------------------------
(* Releases and damaged images for the device of Devices.                  *)
EXTENDS SlotVerify, Devices

Release == [key |-> "oem", index |-> 0, disabled |-> FALSE,
            chainKey |-> "oem", chainIndex |-> 0,
            boot |-> "good", dtbo |-> "good"]
NewRelease == [Release EXCEPT !.index = 1, !.chainIndex = 1]

SomeImages ==
  {Release, NewRelease,
   [NewRelease EXCEPT !.dtbo = "bad"],            \* damaged on the way
   [NewRelease EXCEPT !.chainKey = "none"],       \* its chained part too
   [NewRelease EXCEPT !.chainIndex = 0],          \* an older part
   [Release EXCEPT !.key = "none", !.index = 1],  \* built without a key
   [Release EXCEPT !.key = "user", !.dtbo = "absent"],
   [NewRelease EXCEPT !.disabled = TRUE, !.boot = "bad"],
   [Release EXCEPT !.chainKey = "broken"]}

BothProven ==
  [InUse EXCEPT !["boot"]["_a"].ret = MaxRetry, !["boot"]["_b"].ret = MaxRetry]
=============================================================================
