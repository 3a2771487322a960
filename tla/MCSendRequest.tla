---------------------------- MODULE MCSendRequest ----------------------------
(***************************************************************************)
(* Small instance of SendRequest: a customer written in two ways, a second *)
(* customer and two test inboxes, one locale besides the default, and a    *)
(* template type that can change its recipient policy or lose its adapter. *)
(***************************************************************************)
EXTENDS SendRequest

MCAddresses == {"ana", "Ana", "bob", "qa"}
MCCanonical == [a \in MCAddresses |-> IF a = "Ana" THEN "ana" ELSE a]
MCWorkspacePolicy == [mode |-> "replace", inbox |-> <<"qa">>]

(* On the lists or opted out from the start; a list may hold another spelling. *)
MCFirstBlocks == {{}, {<<"lists", "ana">>}, {<<"lists", "Ana">>}, {<<"optouts", "ana">>},
                  {<<"optouts", "bob">>, <<"lists", "qa">>}}

Type(mode, inbox, adapter) == [mode |-> mode, inbox |-> inbox, adapter |-> adapter]
MCTypeRows ==
    [e \in {"prod", "test"} |->
       IF e = "prod" THEN {Type("none", <<>>, TRUE), Type("none", <<>>, FALSE)}
       ELSE {Type("none", <<>>, TRUE), Type("replace", <<"bob">>, TRUE),
             Type("append", <<"qa">>, TRUE), Type("replace", <<>>, TRUE)}]

Item(to, copies, loc) == [to |-> to, copies |-> copies, loc |-> loc]
Request(kind, env, ref, items) == [kind |-> kind, env |-> env, ref |-> ref, items |-> items]
MCSends ==
    {Request("single", e, "own", <<Item(<<"ana", "bob">>, {"Ana"}, "es")>>) : e \in {"prod", "test"}}
    \cup {Request("single", "prod", r, <<Item(<<"ana">>, {}, NoLocale)>>) : r \in {"other", "system"}}
    \cup {Request("batch", "test", "own",
                  <<Item(<<"ana">>, {}, NoLocale), Item(<<"Ana">>, {"bob"}, "es")>>),
          Request("batch", "prod", "own",
                  <<Item(<<"ana">>, {"bob"}, NoLocale), Item(<<"bob">>, {"Ana"}, "es")>>)}
    \cup {Request("bulk", e, "own", <<Item(<<"ana">>, {}, NoLocale)>>) : e \in {"prod", "test"}}
=============================================================================
