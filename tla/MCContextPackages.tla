-------------------------- MODULE MCContextPackages --------------------------
(* Two files, of up to two chunks each, that share words with the task.    *)
EXTENDS ContextPackages

MCPathHints == << {"openapi"}, {} >>
MCContents == {<<>>, <<"auth">>, <<"plan", "code", "auth">>}
MCQuery == <<"auth", "code">>

==============================================================================
