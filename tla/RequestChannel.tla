--------------------------- MODULE RequestChannel ---------------------------
(***************************************************************************)
(* What BrowserQueueManager promises the rest of the shell: one FIFO        *)
(* channel.  Requests leave it in the order they came, consumers (views)    *)
(* are served in the order they asked, each request goes to exactly one     *)
(* consumer, and whenever a request and a consumer are both present they    *)
(* meet.  After Close the channel dismisses the consumers that still wait.  *)
(* RequestQueue.tla is the thread-level implementation of this module.      *)
(***************************************************************************)
EXTENDS Naturals, Sequences

CONSTANTS Views,        \* the consumers
          MaxRequests   \* bound on the number of requests ever sent

VARIABLES queue,        \* requests accepted and not yet given to a consumer
          sent,         \* number of requests accepted so far
          waiting,      \* consumers that asked and were not served yet
          handed,       \* pairs given to a consumer that has not loaded them
          channel       \* "open", "closed", or "crashed"

vars == <<queue, sent, waiting, handed, channel>>

Init == /\ queue = <<>> /\ sent = 0
        /\ waiting = <<>> /\ handed = <<>>
        /\ channel = "open"

Send == /\ channel = "open" /\ sent < MaxRequests
        /\ sent' = sent + 1
        /\ queue' = Append(queue, sent + 1)
        /\ UNCHANGED <<waiting, handed, channel>>

Ask(v) == /\ channel = "open"
          /\ \A i \in DOMAIN waiting : waiting[i] # v
          /\ waiting' = Append(waiting, v)
          /\ UNCHANGED <<queue, sent, handed, channel>>

\* A request may still be given out while the channel is being closed.
Give == /\ channel # "crashed"
        /\ queue # <<>> /\ waiting # <<>>
        /\ handed' = Append(handed, [view |-> Head(waiting), request |-> Head(queue)])
        /\ queue' = Tail(queue)
        /\ waiting' = Tail(waiting)
        /\ UNCHANGED <<sent, channel>>

Take == /\ channel # "crashed"
        /\ handed # <<>>
        /\ handed' = Tail(handed)
        /\ UNCHANGED <<queue, sent, waiting, channel>>

Close == /\ channel = "open"
         /\ channel' = "closed"
         /\ UNCHANGED <<queue, sent, waiting, handed>>

Dismiss == /\ channel = "closed"
           /\ waiting # <<>>
           /\ waiting' = Tail(waiting)
           /\ UNCHANGED <<queue, sent, handed, channel>>

\* The process may die only while it is being shut down.
Crash == /\ channel = "closed"
         /\ channel' = "crashed"
         /\ UNCHANGED <<queue, sent, waiting, handed>>

Next == \/ Send \/ Give \/ Take \/ Close \/ Dismiss \/ Crash
        \/ \E v \in Views : Ask(v)

Spec == /\ Init /\ [][Next]_vars
        /\ WF_vars(Give \/ Dismiss)
        /\ WF_vars(Take)
=============================================================================
