-------------------------- MODULE MCRequestContext --------------------------
(* The requests for which TLC checks RequestContext: a page that may go to   *)
(* one other, a frame, a scripted style sheet, and an excluded URL.          *)
EXTENDS RequestContext

\* BrowserRequestSettings() with scripts enabled, and variations.
Default == [observer |-> FALSE, allResponse |-> FALSE, adURLs |-> FALSE, css |-> FALSE,
            script |-> TRUE, afterWindowLoad |-> TRUE, subresources |-> TRUE]
MCSettings ==
  {Default,
   [Default EXCEPT !.observer = TRUE, !.afterWindowLoad = FALSE],
   [Default EXCEPT !.script = FALSE, !.allResponse = TRUE, !.adURLs = TRUE, !.css = TRUE,
                   !.subresources = FALSE]}
=============================================================================
