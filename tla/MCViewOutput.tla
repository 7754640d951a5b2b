---------------------------- MODULE MCViewOutput ----------------------------
(* The requests and layouts for which TLC checks ViewOutput: all output on a  *)
(* wide screen, all output on a narrow one without scripts, and a load of     *)
(* data that only wants the document.                                         *)
EXTENDS ViewOutput, TLC

Full == [loadType |-> "default", method |-> "POST", body |-> TRUE, typed |-> FALSE,
         counted |-> TRUE, script |-> TRUE, screen |-> "wide", paintRect |-> "wide",
         render |-> TRUE, paint |-> TRUE, outputDOM |-> TRUE, outputRender |-> TRUE,
         callback |-> TRUE]
MCRequests ==
  {Full,
   [Full EXCEPT !.method = "other", !.script = FALSE, !.screen = "narrow"],
   [Full EXCEPT !.loadType = "data", !.paint = FALSE, !.outputRender = FALSE,
                !.callback = FALSE]}

MCLayout(request, size) ==
  CASE size = "wide" -> (1 :> <<2, 1>>) @@ (2 :> <<1, 0>>)
    [] size = "narrow" -> (1 :> <<-1, 2>>) @@ (3 :> <<0, 1>>)
    [] OTHER -> (1 :> <<1, 1>>) @@ (2 :> <<0, 0>>)
=============================================================================
