-------------------------- MODULE MCProviderEvents --------------------------
(* Small instances of ProviderEvents for TLC. *)
EXTENDS ProviderEvents, TLC

CONSTANTS m1, m2, m3, h1, h2

HandlerSymmetry == Permutations({h1, h2})

BounceKinds    == m1 :> "delivered" @@ m2 :> "hard" @@ m3 :> "soft"
SubscribeKinds == m1 :> "subscribe" @@ m2 :> "hard" @@ m3 :> "complained"

WriteFaults == {"crash", "db", "noid"}
Duplicates  == {"restart", "claim", "verify", "garbled", "duplicate", "late", "confirm",
                "noid", "sweep", "reset"}
=============================================================================
