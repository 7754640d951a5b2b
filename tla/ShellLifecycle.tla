--------------------------- MODULE ShellLifecycle ---------------------------
(***************************************************************************)
(* From CreateBrowser to ReleaseBrowser and back: the threads, the platform *)
(* and the statics that create() makes and destroy() takes down, step by    *)
(* step, and the reference count that decides who runs ~BrowserShell.       *)
(*                                                                          *)
(* The shell is held by its owner (createOnUIThread adds the reference,     *)
(* asyncDestroy drops it) and by every closure bound to it.  A closure is   *)
(* shared by the message loop it was posted to and by the thread that       *)
(* posted it, until that thread's PostTask statement ends: whichever lets   *)
(* go of the last reference destroys the shell, on its own thread.          *)
(*                                                                          *)
(* Left to other modules: what the receiver and the views do meanwhile      *)
(* (RequestQueue, BrowserShell), the network's side of a load               *)
(* (ResourceLoader), what the storage instance does (WebStorage).           *)
(***************************************************************************)
EXTENDS Integers, Sequences, FiniteSets

CONSTANTS MaxShells,  \* bound on shells created one after the other
          MaxPosts,   \* bound on the closures in the main loop
          MaxPeeks,   \* bound on the increases the receiver asks one shell for
          MaxViews    \* bound on the views of the groups

ASSUME LifecycleBounds == {MaxShells, MaxPosts, MaxPeeks, MaxViews} \subseteq Nat

Posters == {"client", "receiver"}
Kinds == {"observe", "increase", "destroy"}
Closures == [kind : Kinds, shared : Posters \cup {"none"}]

VARIABLES
  shells,     \* shells created so far; the last one has the last options (history)
  shell,      \* s_browserShell, or 0
  owned,      \* the owner's reference is held
  pc,         \* where the client is in create() or destroy()
  caller,     \* the thread that calls them: a client's, or the worker
  increases,  \* tryToIncreaseBrowserView calls create() has to make
  peeks,      \* increases the receiver will still ask for: one per request queued
  loop,       \* the main message loop: closures, and which thread still shares them
  alone,      \* threads whose PostTask outlived the closure's run
  threads,    \* running threads
  platform,   \* s_browserPlatform with its storage instance: the shell it was made for
  params,     \* s_browserRequestContextParam: options it was made from, or 0
  network,    \* s_browserRequestContext: the options it was made from, or 0
  observing,  \* the task monitor observes the main loop
  views,      \* views of the groups
  event       \* s_waitableEvent: "none", "unset" or "set"

shellVars == <<shells, shell, owned, observing, views>>
callVars == <<pc, caller, increases, peeks>>
loopVars == <<loop, alone>>
platformVars == <<threads, platform, params, network>>
vars == <<shellVars, callVars, loopVars, platformVars, event>>

DefaultNetwork == -1 \* a network context made without parameters

Threads == {"main", "worker", "receiver", "io", "cache"}
PC == {"none", "main", "observe", "worker", "receiver", "increase", "ready",
       "post", "posted", "wait", "worker gone", "main gone", "receiver gone"}

\* Type invariant.
LifecycleTypeOK ==
  /\ shells \in 0..MaxShells /\ shell \in {0, shells} /\ owned \in BOOLEAN
  /\ pc \in PC /\ caller \in {"client", "worker"} /\ increases \in 0..5
  /\ peeks \in 0..MaxPeeks
  /\ loop \in Seq(Closures)
  /\ alone \subseteq Posters
  /\ threads \subseteq Threads
  /\ {platform, params} \subseteq 0..shells /\ network \in {DefaultNetwork} \cup 0..shells
  /\ observing \in BOOLEAN /\ views \in 0..MaxViews
  /\ event \in {"none", "unset", "set"}

Init == /\ shells = 0 /\ shell = 0 /\ owned = FALSE /\ observing = FALSE /\ views = 0
        /\ pc = "none" /\ caller = "client" /\ increases = 0 /\ peeks = 0
        /\ loop = <<>> /\ alone = {}
        /\ threads = {} /\ platform = 0 /\ params = 0 /\ network = 0
        /\ event = "none"

-----------------------------------------------------------------------------
(* References. *)

\* A thread that is in the middle of a PostTask.
Sharing(thread) == thread \in alone \/ \E i \in DOMAIN loop : loop[i].shared = thread

Post(kind, thread) == loop' = Append(loop, [kind |-> kind, shared |-> thread])

DestructSilently == \* mutant: nobody is woken
  shell' = 0 /\ views' = 0 /\ observing' = FALSE /\ UNCHANGED event

\* ~BrowserShell, on whatever thread: the groups with their views go, the
\* observer is removed, and a client that waits is woken.
Destruct ==
  /\ shell' = 0 /\ views' = 0 /\ observing' = FALSE
  /\ event' = IF event = "none" THEN "none" ELSE "set"

\* Nobody holds the shell: not its owner, no closure in the loop, no thread.
LastReference(held, tasks, others) == ~held /\ tasks = <<>> /\ others = {}

\* The PostTask statement of `thread` ends.
PostReturns(thread) ==
  /\ Sharing(thread)
  /\ alone' = alone \ {thread}
  /\ loop' = [i \in DOMAIN loop |-> IF loop[i].shared = thread
                                     THEN [loop[i] EXCEPT !.shared = "none"] ELSE loop[i]]
  /\ IF thread \in alone /\ LastReference(owned, loop, alone')
       THEN Destruct ELSE UNCHANGED <<shell, views, observing, event>>
  /\ UNCHANGED <<shells, owned, callVars, platformVars>>

-----------------------------------------------------------------------------
(* create(), on the client's thread. *)

\* A second CreateBrowser returns the shell there is: nothing changes.
CreateBrowser ==
  /\ pc = "none" /\ shells < MaxShells /\ shell = 0
  /\ pc' = "main"
  /\ UNCHANGED <<shellVars, caller, increases, peeks, loopVars, platformVars, event>>

KeepsBackend == \* mutant: a running IO thread is left alone
  [threads |-> threads, params |-> 0, network |-> network]
KeepsParams == \* mutant: only a running IO thread is taken down
  IF "io" \in threads THEN [threads |-> threads \ {"io", "cache"}, params |-> params, network |-> 0]
                      ELSE [threads |-> threads, params |-> params, network |-> network]

\* The IO thread makes the network context from the parameters, which it deletes,
\* or a default one, and deletes the context when it ends.
IOInit == /\ network' = IF params # 0 THEN params ELSE DefaultNetwork
          /\ params' = 0
CleanUp == 0

\* BrowserResourceLoaderBridge::destroy: a context that was never needed leaves
\* its parameters.
DestroyBridge ==
  IF "io" \in threads THEN [threads |-> threads \ {"io", "cache"}, params |-> params,
                            network |-> CleanUp]
                      ELSE [threads |-> threads, params |-> 0, network |-> network]

\* StartWithOptions of the main thread returns after Init: createOnUIThread has
\* made the shell, the platform, and the loader's parameters (initialize()).
StartMain ==
  /\ pc = "main" /\ pc' = "observe"
  /\ shells' = shells + 1 /\ shell' = shells' /\ owned' = TRUE
  /\ threads' = DestroyBridge.threads \cup {"main"}
  /\ platform' = shells' /\ params' = shells' /\ network' = DestroyBridge.network
  /\ UNCHANGED <<observing, views, caller, increases, peeks, loopVars, event>>

\* initilaOnUIThreadAfterCreateMessageLoop.
PostObserve ==
  /\ pc = "observe" /\ ~Sharing("client") /\ pc' = "worker"
  /\ Post("observe", "client")
  /\ UNCHANGED <<shellVars, caller, increases, peeks, alone, platformVars, event>>

StartWorker ==
  /\ pc = "worker" /\ ~Sharing("client") /\ pc' = "receiver"
  /\ threads' = threads \cup {"worker"}
  /\ UNCHANGED <<shellVars, caller, increases, peeks, loopVars, platform, params, network, event>>

OneTooMany == {1, 6} \* mutant: i <= 4
FirstIncreases == {1, 5} \* one, and four more for a fixed shell

StartReceiver ==
  /\ pc = "receiver" /\ pc' = "increase"
  /\ threads' = threads \cup {"receiver"}
  /\ increases' \in FirstIncreases /\ peeks' = MaxPeeks
  /\ UNCHANGED <<shellVars, caller, loopVars, platform, params, network, event>>

\* tryToIncreaseBrowserView(1): the group may want no view more.
CreateIncrease ==
  /\ pc = "increase" /\ ~Sharing("client")
  /\ \/ /\ increases > 0 /\ increases' = increases - 1 /\ UNCHANGED pc
        /\ loop' = loop \/ (Len(loop) < MaxPosts /\ Post("increase", "client"))
     \/ increases = 0 /\ pc' = "ready" /\ UNCHANGED <<increases, loop>>
  /\ UNCHANGED <<shellVars, caller, peeks, alone, platformVars, event>>

-----------------------------------------------------------------------------
(* Meanwhile. *)

\* increaseConsumerIfNeeded of the receiver, through s_browserShell.
ReceiverIncrease ==
  /\ "receiver" \in threads /\ shell # 0 /\ ~Sharing("receiver") /\ Len(loop) < MaxPosts
  /\ peeks > 0 /\ peeks' = peeks - 1
  /\ Post("increase", "receiver")
  /\ UNCHANGED <<shellVars, pc, caller, increases, alone, platformVars, event>>

\* A page of some view asks for a resource: ensureBackendIOThread.
EnsureBackendIOThread ==
  /\ views > 0 /\ "io" \notin threads
  /\ threads' = threads \cup {"io", "cache"}
  /\ IOInit
  /\ UNCHANGED <<shellVars, callVars, loopVars, platform, event>>

DeletesAtOnce(kind) == kind = "destroy" \* mutant: asyncDestroy deletes the shell
DropsOwner(kind) == FALSE

\* The main loop runs a closure and lets go of it.
RunClosure ==
  /\ "main" \in threads /\ loop # <<>>
  /\ LET task == Head(loop) IN
       /\ loop' = Tail(loop)
       /\ alone' = IF task.shared = "none" THEN alone ELSE alone \cup {task.shared}
       /\ owned' = (owned /\ task.kind # "destroy")
       /\ IF DropsOwner(task.kind) \/ LastReference(owned', loop', alone')
            THEN Destruct
            ELSE /\ observing' = (observing \/ task.kind = "observe")
                 /\ views' \in IF task.kind = "increase" /\ views < MaxViews
                               THEN {views, views + 1} ELSE {views}
                 /\ UNCHANGED <<shell, event>>
  /\ UNCHANGED <<shells, callVars, platformVars>>

\* A view of a NolimitedTab group that answered is deleted.
ViewFinishes ==
  /\ "main" \in threads /\ views > 0 /\ views' = views - 1
  /\ UNCHANGED <<shells, shell, owned, observing, callVars, loopVars, platformVars, event>>

-----------------------------------------------------------------------------
(* destroy(), on the thread that calls ReleaseBrowser: a client's, or the     *)
(* worker when it is called from a request's callback.                        *)

ReleaseBrowser ==
  /\ pc = "ready"
  /\ pc' = "post" /\ caller' \in {"client", "worker"}
  /\ event' = IF event = "none" THEN "unset" ELSE event
  /\ UNCHANGED <<shellVars, increases, peeks, loopVars, platformVars>>

PostDestroy ==
  /\ pc = "post" /\ ~Sharing("client") /\ pc' = "posted"
  /\ Post("destroy", "client")
  /\ UNCHANGED <<shellVars, caller, increases, peeks, alone, platformVars, event>>

DestroyPosted ==
  /\ pc = "posted" /\ ~Sharing("client") /\ pc' = "wait"
  /\ UNCHANGED <<shellVars, caller, increases, peeks, loopVars, platformVars, event>>

WaitElapses == \* mutant: TimedWait, as the line that is commented out has it
  /\ pc = "wait"
  /\ pc' = "worker gone" /\ event' = "none"
  /\ UNCHANGED <<shellVars, caller, increases, peeks, loopVars, platformVars>>

\* Wait() returns; the event is deleted.
WaitReturns ==
  /\ pc = "wait" /\ event = "set"
  /\ pc' = "worker gone" /\ event' = "none"
  /\ UNCHANGED <<shellVars, caller, increases, peeks, loopVars, platformVars>>

\* A thread cannot join itself.
StopWorker ==
  /\ pc = "worker gone" /\ caller # "worker" /\ pc' = "main gone"
  /\ threads' = threads \ {"worker"}
  /\ UNCHANGED <<shellVars, caller, increases, peeks, loopVars, platform, params, network, event>>

\* The main loop ends; CleanUp deletes the platform, whose destructor takes the
\* loader down.
StopMain ==
  /\ pc = "main gone" /\ loop = <<>> /\ pc' = "receiver gone"
  /\ threads' = DestroyBridge.threads \ {"main"}
  /\ platform' = 0 /\ params' = DestroyBridge.params /\ network' = DestroyBridge.network
  /\ UNCHANGED <<shellVars, caller, increases, peeks, loopVars, event>>

StopReceiver ==
  /\ pc = "receiver gone" /\ pc' = "none"
  /\ threads' = threads \ {"receiver"} /\ caller' = "client"
  /\ UNCHANGED <<shellVars, increases, peeks, loopVars, platform, params, network, event>>

-----------------------------------------------------------------------------
CreateStep == \/ StartMain \/ PostObserve \/ StartWorker \/ StartReceiver \/ CreateIncrease
DestroyStep == \/ PostDestroy \/ DestroyPosted \/ WaitReturns
               \/ StopWorker \/ StopMain \/ StopReceiver
Next == \/ CreateBrowser \/ CreateStep
        \/ ReceiverIncrease \/ EnsureBackendIOThread \/ RunClosure \/ ViewFinishes
        \/ ReleaseBrowser \/ DestroyStep
        \/ \E thread \in Posters : PostReturns(thread)

\* Threads are scheduled.  The receiver ends its peek (DeleteReleasesReceiver
\* of RequestQueue), so joining it needs no more.
Spec == /\ Init /\ [][Next]_vars
        /\ WF_vars(CreateStep) /\ WF_vars(DestroyStep) /\ WF_vars(RunClosure)
        /\ \A thread \in Posters : WF_vars(PostReturns(thread))

-----------------------------------------------------------------------------
(* Properties. *)

\* No closure runs on a deleted shell, whoever dropped the last reference, and
\* the monitor is out of the main loop before it is deleted.
ShellOutlivesClosures ==
  /\ loop # <<>> \/ alone # {} \/ owned \/ observing \/ views > 0 => shell # 0
  /\ shell # 0 => owned \/ loop # <<>> \/ alone # {}

\* The shell and its event go with the calls: it is owned until destroy() posts,
\* and the event that destroy() waits for is set exactly when it is gone.
CallsInOrder ==
  /\ pc = "main" => shells < MaxShells
  /\ pc \in {"observe", "worker", "receiver", "increase", "ready", "post"} =>
       owned /\ \A i \in DOMAIN loop : loop[i].kind # "destroy"
  /\ pc \in {"observe", "worker", "receiver"} =>
       views = 0 /\ \A i \in DOMAIN loop : loop[i].kind # "increase"
  /\ pc \in {"none", "main", "worker gone", "main gone", "receiver gone"} => shell = 0
  /\ event # "none" <=> pc \in {"post", "posted", "wait"}
  /\ event = "unset" => shell # 0
  /\ event = "set" => shell = 0

\* Threads run while create() is past them and destroy() has not come back to
\* them; the platform lives as long as the main thread.
ThreadsInOrder ==
  /\ "main" \in threads <=> pc \notin {"none", "main", "receiver gone"}
  /\ "worker" \in threads <=>
       pc \in {"receiver", "increase", "ready", "post", "posted", "wait", "worker gone"}
  /\ "receiver" \in threads <=>
       pc \in {"increase", "ready", "post", "posted", "wait", "worker gone", "main gone",
              "receiver gone"}
  /\ "cache" \in threads <=> "io" \in threads
  /\ platform = IF "main" \in threads THEN shells ELSE 0
  /\ params = IF "io" \in threads THEN 0 ELSE platform
  /\ network = IF "io" \in threads THEN platform ELSE 0
  /\ "io" \in threads => "main" \in threads

\* The inductive invariant of the proofs.
LifecycleInv == LifecycleTypeOK /\ ShellOutlivesClosures /\ CallsInOrder /\ ThreadsInOrder

\* While a view exists, all that it reaches through raw pointers does: the three
\* threads whose loops it posts to and the platform.
ViewsHaveThreads ==
  views > 0 => {"main", "worker", "receiver"} \subseteq threads /\ platform = shell

\* The network context is the one the current shell's options ask for, also
\* after earlier shells with other options came and went, having used the
\* network or not.
NetworkOfThisShell ==
  /\ network # 0 => network = platform
  /\ platform # 0 => (params = platform) # (network = platform)

\* When no shell is there for the client, nothing of the last is left.
NothingLeft ==
  pc = "none" =>
    /\ shell = 0 /\ threads = {} /\ event = "none"
    /\ platform = 0 /\ params = 0 /\ network = 0

\* ReleaseBrowser returns, unless the worker itself called it.
ReleaseReturns == (pc = "post") ~> (pc = "none" \/ caller = "worker")
=============================================================================
