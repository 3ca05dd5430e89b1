----------------------------- MODULE MCWallets -----------------------------
(***************************************************************************)
(* Configurations for TLC: two currencies; one of them renamed and the other *)
(* removed; two currencies of one master contract.                          *)
(***************************************************************************)
EXTENDS Wallets, TLC

ThreeConfigs ==
    {"A" :> "m1" @@ "B" :> "m2", "C" :> "m1", "A" :> "m1" @@ "B" :> "m1"}

\* ids 2..5; the one before MaxUint32 included
SomeInShard == "m1" :> {2, 4, 5} @@ "m2" :> {3, 4}
============================================================================
