---------------------------- MODULE MCMarkerFiles ---------------------------
(***************************************************************************)
(* MarkerFiles with two tapes: one with three PRs, the second of two       *)
(* blocks, and one with a single PR, whose runs must not see what is left  *)
(* of the first.                                                           *)
(***************************************************************************)
EXTENDS MarkerFiles

TwoTapes == {"A", "B"}
TapePrs  == [t \in TwoTapes |-> IF t = "A" THEN <<1, 2, 1>> ELSE <<1>>]
ThreePrs == <<"PR_0", "PR_1", "PR_2">>
SomeOrder == <<"OTFLabel">> \o ThreePrs \o <<"RCM_0", "RCM_1", "VOL1Label">>

OwnCodes == [t \in TwoTapes |-> t]
NoCodes  == [t \in TwoTapes |-> "null"]
AnyCodes == {OwnCodes, NoCodes}
Readable == {OwnCodes}
Unreadable == {NoCodes}
=============================================================================
