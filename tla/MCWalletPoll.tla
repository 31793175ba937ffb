----------------------------- MODULE MCWalletPoll -----------------------------
(* Instances of WalletPoll for TLC.                                        *)
EXTENDS WalletPoll, TLC

CONSTANT w1

OneWallet == {w1}

EachSecond == [w \in Wallets |-> [i \in Fills |-> i]]
OneSecond  == [w \in Wallets |-> [i \in Fills |-> 1]]

(* Every fill has a transaction of its own; the newest two share one, and  *)
(* its second.                                                             *)
OwnTx        == [w \in Wallets |-> [i \in Fills |-> <<w, i>>]]
LastTxShared == [w \in Wallets |->
                   [i \in Fills |-> IF i = MaxFills THEN i - 1 ELSE i]]

(* One token, or the two tokens in turn.                                   *)
OneAsset    == [w \in Wallets |-> [i \in Fills |-> "yes"]]
BothAssets  == [w \in Wallets |->
                  [i \in Fills |-> IF i % 2 = 1 THEN "yes" ELSE "no"]]
FromStart   == {1}
TwoWindows  == {1, 3}
=============================================================================
