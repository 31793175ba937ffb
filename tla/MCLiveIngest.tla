---------------------------- MODULE MCLiveIngest ----------------------------
(* An instance of LiveIngest for TLC.                                      *)
EXTENDS LiveIngest

TwoAssets == {1, 2}
Nothing   == {}
OneWallet == {"w"}
=============================================================================
