---------------------------- MODULE MCExposure -----------------------------
(* Small instances of Exposure for TLC. *)
EXTENDS Exposure, TLC

CONSTANTS t1, t2, t3

\* Wallets of 200 units, of which one is the fallback's half percent: with
\* room for most of a largest trade, but not for two, with one token over its
\* own cap, and over both caps.
Light == (t1 :> 35) @@ (t2 :> 35) @@ (t3 :> 0) @@ (Base :> 130)
Tilted == (t1 :> 20) @@ (t2 :> 60) @@ (t3 :> 0) @@ (Base :> 120)
Heavy == (t1 :> 80) @@ (t2 :> 40) @@ (t3 :> 0) @@ (Base :> 80)

MCWallets == {Light, Tilted, Heavy}
=============================================================================
