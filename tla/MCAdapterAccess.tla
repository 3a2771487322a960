--------------------------- MODULE MCAdapterAccess ---------------------------
(* A Gmail adapter shared as a whole, an SES adapter shared by its identities, *)
(* and a global SMTP adapter that needs no grant.                              *)
EXTENDS AdapterAccess, TLC

CONSTANTS gmail, ses, smtp, gi, si, sj

MCKindOf == gmail :> "gmail" @@ ses :> "ses" @@ smtp :> "smtp"
MCOwnerOf == gmail :> System @@ ses :> System @@ smtp :> Global
MCAdapterOf == gi :> gmail @@ si :> ses @@ sj :> ses

Symmetry == Permutations(Workspaces) \cup Permutations(Procs)
=============================================================================
