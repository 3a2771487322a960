------------------------ MODULE MCTemplateResolution ------------------------
(* Two workspaces, the default and a regional locale, a fallback chain es-CO, es. *)
EXTENDS TemplateResolution

CONSTANTS w1, s1, es, esCO, b1, b2

MCKeys == {[ws |-> System, slug |-> s1, loc |-> NoLocale], [ws |-> w1, slug |-> s1, loc |-> esCO]}
MCPrefixOf == [l \in Locales |-> IF l = esCO THEN es ELSE NoLocale]
MCDefaultLocaleOf == [b \in Bodies |-> IF b = b1 THEN es ELSE esCO]
=============================================================================
