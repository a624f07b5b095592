------------------------------ MODULE MCRouter ------------------------------
(***************************************************************************)
(* Five names: `local` is never registered and `mistral` has no model. A     *)
(* router may be built with three usable providers, with one, or with none.  *)
(***************************************************************************)
EXTENDS Router

MCOrder == <<"cerebras", "ollama", "mistral", "local", "gemini">>

MCRegistries == {{"ollama", "cerebras", "gemini", "mistral"}, {"gemini", "mistral"}, {"mistral"}}
=============================================================================
