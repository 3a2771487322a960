--------------------------- MODULE MCSuppression ---------------------------
(* One workspace that owns a bulk type and inherits another, whose slug a   *)
(* type of its own may take.                                                *)
EXTENDS Suppression, TLC

CONSTANTS w1, system, news, newsSystem, digest

MCFirstSlug == news :> NoSlug @@ newsSystem :> "news" @@ digest :> "digest"
MCScope     == news :> w1 @@ newsSystem :> system @@ digest :> w1
=============================================================================
