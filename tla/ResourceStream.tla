---------------------------- MODULE ResourceStream ----------------------------
(***************************************************************************)
(* What ResourceLoaderBridge promises its peer (WebKit's loader) about one  *)
(* asynchronous load: the response of the last URL whose redirect the peer  *)
(* accepted, then the body's chunks in order and without gaps, then one     *)
(* completion; success means that the whole body was delivered; a load that *)
(* was cancelled is completed; nothing is heard after the completion or     *)
(* after the bridge is deleted.  ResourceLoader.tla is the implementation   *)
(* on the main and the IO thread.                                           *)
(***************************************************************************)
EXTENDS Integers, Sequences

VARIABLES length,     \* number of chunks of the body
          stream,     \* "new", "open", "done" or "dropped" (no bridge)
          permitted,  \* redirects the peer accepted
          page,       \* permitted redirects when the response came, or -1
          data,       \* chunks the peer received
          outcome,    \* "none", "ok" or "error"
          cancelled   \* the peer cancelled or refused a redirect

vars == <<length, stream, permitted, page, data, outcome, cancelled>>

Init == /\ length \in Nat
        /\ stream = "new" /\ permitted = 0 /\ page = -1 /\ data = <<>>
        /\ outcome = "none" /\ cancelled = FALSE

Start == /\ stream = "new"
         /\ stream' = "open"
         /\ UNCHANGED <<length, permitted, page, data, outcome, cancelled>>

Permit == /\ stream = "open" /\ page = -1
          /\ permitted' = permitted + 1
          /\ UNCHANGED <<length, stream, page, data, outcome, cancelled>>

Cancel == /\ stream \in {"open", "done"}
          /\ cancelled' = TRUE
          /\ UNCHANGED <<length, stream, permitted, page, data, outcome>>

Response == /\ stream = "open" /\ page = -1
            /\ page' = permitted
            /\ UNCHANGED <<length, stream, permitted, data, outcome, cancelled>>

Data == /\ stream = "open" /\ page # -1 /\ Len(data) < length
        /\ data' = Append(data, Len(data) + 1)
        /\ UNCHANGED <<length, stream, permitted, page, outcome, cancelled>>

Complete == /\ stream = "open"
            /\ stream' = "done"
            /\ \/ outcome' = "error"
               \/ outcome' = "ok" /\ page # -1 /\ Len(data) = length
            /\ UNCHANGED <<length, permitted, page, data, cancelled>>

Drop == /\ stream \in {"open", "done"}
        /\ stream' = "dropped"
        /\ UNCHANGED <<length, permitted, page, data, outcome, cancelled>>

Next == Start \/ Permit \/ Cancel \/ Response \/ Data \/ Complete \/ Drop

Spec == Init /\ [][Next]_vars /\ WF_vars(cancelled /\ Complete)
=============================================================================
