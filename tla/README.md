# A verification project for LightBrowser

LightBrowser is a headless browser library built on Chromium's WebKit: a client
creates a shell, hands it requests with a callback (`BrowserLoad`), and gets the
loaded page's DOM, render information or image. This directory holds TLA+
modules of its own logic, the configurations TLC checks them with, and proofs
that TLAPS checks. Paths below are relative to the repository.

## 1. The system

Four kinds of thread. *Clients* call the API. The *main* thread owns the views,
WebKit and V8. The *receiver* thread blocks on the queue on behalf of views. The
*worker* thread runs timers and the users' callbacks. Network code has its own
IO, file and cache threads.

| component (source) | state | operations | interacts through |
|---|---|---|---|
| request queue (`src/SimpleBrowserQueue.cpp`, `src/BrowserQueueManager.cpp`) | income and work queue, lock, auto-reset event, `m_reciveDelete` | append + signal, peek/wait, post the load, ask for a consumer, `willDelete` | called by clients and main, posts to receiver and main |
| shell (`src/BrowserShell.cpp`, `BrowserShellProxy.cpp`) | the threads, two view groups, queue manager, platform, statics, its reference count | create, load, increase, release | posts to main; reached from every thread through a static pointer |
| view groups (`src/BrowserViewGroupImp.cpp`) | list of views, maximum | `getBrowserView`, `canGetMore…`, `finishLoad` | read by the receiver, changed by main |
| view and response (`src/BrowserView.cpp`, `BrowserViewDelegate.cpp`, `BrowserViewRequestProxy.cpp`, `WebViewHost.cpp`) | `m_identifier`, delegate flags, resources in flight, request context, preferences, window | load, stop, WebKit callbacks, answer, next request | posts to main and worker |
| request monitor and message manager (`src/BrowserViewRequestMonitor.cpp`, `BrowserMessageManager.cpp`) | one-shot timer; pipe | set, stop, fire; dispatch | worker to main |
| task monitor (`src/BrowserTaskMonitor.cpp`) | begin and end of the last task | before/after each task; periodic check | main and worker, under a lock |
| request context (`src/BrowserViewRequestContext.cpp`) | a request's settings, its response so far, its log | filters, scripts, records | main |
| resource loader (`src/platform/BrowserResourceLoaderBridge.cpp`) | per load: bridge, proxy with one buffer and a reference count, URL request, sync result | start, redirect, read, cancel, complete, synchronous load, delete | main and IO loops |
| web storage (`src/platform/BrowserWebStorageNamespace.cpp`) | the instance, its namespaces, areas and connections | allocate, copy, create, change, delete, events | main, through weak pointers |
| API and options (`LightBrowser.cpp`) | - | parse options, copy a request | clients |

The network context, the platform and the browser's glue appear as what
`create()` makes and `destroy()` takes down; logging, the test driver and the
build are not modelled (`PROJECT.json` lists them all).

What makes each part correct:

* queue - no wake-up is lost; first in, first out across both queues and both
  message loops; a view is served once per ask; releasing the shell frees the
  receiver.
* shell and groups - the groups keep their bounds although they are tested on
  one thread and changed on another; start-up fills a fixed group; where a view
  is kept, every accepted request is loaded.
* life of the shell - no closure outlives the shell it is bound to, no view its
  threads; a second shell gets its own network; a release returns and leaves
  nothing.
* view - every load is answered exactly once, in order, with an error that is its
  own, and at the latest when its time is over; what is sent and what comes back
  is of that one load.
* request context - the headers, URL and code of an answer are of one response;
  what was excluded stays out; a redirect that was taken leaves nothing in the answer
  that was asked for before it; the answer waits for the onload it was asked to wait for.
* task monitor - a script that hangs is ended in bounded time, and no other is.
* resource loader - the peer hears the body in order and one completion; buffer
  and proxy survive whatever order the two threads work in; a synchronous result
  is whole.
* storage - an area works on its own connection across restarts; a session
  namespace lives as long as its object, whatever events are dispatched.

`PROJECT.json` lists the hazards, each at its line, with the properties that
watch it or the reason none does.

## 2. Modules

* `RequestChannel.tla` - what the queue manager promises: an abstract FIFO
  channel (`Send`, `Ask`, `Give`, `Take`, `Close`, `Dismiss`, `Crash`).
* `RequestQueue.tla` - the threads that implement it. A program counter per
  client (`idle`, `append` inside the lock, `signal`), one for the receiver
  through `peekRequestFormQueue`, and the progress of `~BrowserShell` on main.
  The message loops are sequences. A request is its number; the fields of
  `BrowserRequest` are not kept. Every shared access of the code that another
  thread can see in between is a step of its own: the append, the signal, the
  swap-and-pop, the return from `Wait` (which resets the event), the second look
  at `m_reciveDelete`, the post. Its `Channel` instance maps it to
  `RequestChannel`.
* `BrowserShell.tla` - extends it with the type the options leave in `m_type`, the
  view groups, and what the queue leaves open: when an increase is posted
  (`tryToIncreaseBrowserView`) and what `getBrowserView` returns. `QueueSpec` says
  that the shell is a refinement of the queue's open environment. Reads of
  `size()` while a client pushes may give anything (`ObservedSizes`): the code
  takes no lock.
* `ShellLifecycle.tla` - `CreateBrowser` and `ReleaseBrowser` step by step: which
  threads run, the platform, the two statics of the network context, the event
  `destroy()` waits for. A reference to the shell is a closure in the main loop, a
  `PostTask` that has not returned (`alone`), or the owner's; whoever drops the
  last one runs `~BrowserShell` (`LetGo`). `caller` is a client or the worker, for
  a release from a request's callback. Shells follow one another with other options.
* `ViewResponse.tla` - one view from `load` to its answer. The delegate's
  callbacks are functions on a record (`ui`) of the fields that WebKit's
  callbacks change, so that a step in which WebKit calls several of them
  (`stopLoading`, `loadRequest(about:blank)`) is their composition. Monitor,
  pipe and worker loop are sequences. Whether the view is kept or is one of a
  NolimitedTab group, which is deleted when it answered and may have a successor
  at its address, is chosen in `Init` (`hasObserver`).
* `RequestContext.tla` - what one load collects: the delegate's forwarding and the
  context's filters, headers, URL and code, advertisement URLs, style sheets,
  scripts and log, as functions on a record (`load`), under a main frame that goes
  from page to page, its subframes and their resources. `page` is what the main frame
  loads and `document` what it shows: from `didStartLoading` of a page until its commit
  (`CommitPage`) the document it leaves goes on sending, starting frames and speaking.
  What is in flight carries the page at which it was sent, and so does every header and
  advertisement recorded for it.
* `ViewOutput.tla` - the data of a load: the frame's request (`ContructWebURLRequest`),
  preferences and window going in; document, layout and image coming out, the
  render parser included, while the worker still holds earlier answers.
* `ResourceStream.tla` - what a bridge promises its peer about one asynchronous
  load: `Permit` (a redirect), `Response`, `Data`, `Complete`, `Cancel`, `Drop`.
* `ResourceLoader.tla` - one load by its bridge, proxy and URL request. The two
  message loops carry the proxy's tasks and notifications; the steps of the
  proxy are functions on a record (`proxy`) of what the threads share. The
  reference count is not a variable: a queued task is a reference, as
  `base::Bind` makes it one, and so is the bridge's `AddRef` until its
  `ReleaseSoon` ran (`Unreferenced`). A chunk is its number; `buffer` is 0 while
  a pending read may write to it. In a synchronous load (`proxy.sync`) the
  overridden methods of `BrowserSyncRequestProxy` replace the notifications. Its
  `Stream` instance maps it to `ResourceStream`.
* `WebStorage.tla` - the storage instance, the namespaces and areas WebKit holds,
  and the weak pointers between them. An operation with the events it causes is
  one step: all of it runs on the main thread, and WebKit queues storage events. No
  operation therefore begins inside another, `area_being_processed_` is always the area
  that acts, and it is left out. What an event leaves behind is kept: the temporary
  `NamespaceImpl` of `DispatchDomStorageEvent` is made and deleted (`EventNamespace`).
* `TaskMonitor.tla` - the task observer, the periodic `doTimeout` in its two
  halves (the test under the lock, the call after it), V8's termination request
  and the end of the monitor, against a clock that stands still while tasks run.
* `MCRequestQueue.tla`, `MCRequestContext.tla`, `MCViewOutput.tla` - instances for
  TLC whose constants are more than sets of model values. The other modules are
  instantiated by their `.cfg` files alone.
* `BrowserShellProofs.tla` (the queue, the channel and the shell),
  `ViewResponseProofs.tla`, `RequestContextProofs.tla`, `ViewOutputProofs.tla`,
  `ShellLifecycleProofs.tla`, `ResourceLoaderProofs.tla`, `WebStorageProofs.tla`,
  `TaskMonitorProofs.tla` - the theorems.

A few definitions are marked *mutant*: each is a plausible mistake in the
definition after it. No specification uses them; `PROJECT.json`
says which property each one breaks when it takes the place of the original.

How they fit: `BrowserShell` extends `RequestQueue` and is shown to keep its
rules. `BrowserShell` takes a load as one step that ends, which is what
`ViewResponse` shows of one view; `ViewResponse` leaves the contents of an answer
to `RequestContext` (what was reported during the load) and `ViewOutput` (what the
page became); `ShellLifecycle` says when the threads and the platform that all of
them take for granted are there.

## 3. What the runs show

| run | instance | properties |
|---|---|---|
| `queue` | 2 clients, 2 views, 3 requests, 2 start-up increases | `NoLostWakeup`, `InOrder`, `OneAskPerView`, the inductive invariant `IInv`, `DeleteReleasesReceiver`, and `ChannelSpec` (the queue implements the channel, fairness included) |
| `shell` | every type and a garbage one, counts 0 and 2, 3 views, 4 requests, 5 start-up increases | `ShellInv`, `MainGroupBounded`, `OneConsumerInLine`, `QueueSpec`, `StartupFillsGroup`, `EveryRequestLoaded` |
| `lifecycle` | 2 shells one after the other, 2 views, 3 closures at a time | `LifecycleInv`, `ViewsHaveThreads`, `NetworkOfThisShell`, `NothingLeft`, `ReleaseReturns` |
| `view` | a view that is kept, or those of a NolimitedTab group at one address; 2 loads, one subresource | `AnswersInOrder`, `KeptTimeoutOnlyWhenFired`, `NothingLeftOver`, `EveryLoadAnswered` |
| `context` | 3 settings, 3 page, 2 frame and 2 resource URLs (one of them excluded), 2 pages, 3 requests of WebKit | `UrlNamesHeader`, `OnlySinceRedirect`, `ResourcesAsReceived`, `LogTellsWholeLoad`, `PostedAfterOnload` |
| `output` | 2 views, 3 loads of 3 requests that differ in every field | `AnswerOfOneLoad`, `RenderInfoIsLayout`, `LoadedAsAsked` |
| `loader` | asynchronous or synchronous, 2 redirects, 3 chunks, 2 cancels | `SharedSafely`, `ProxyReclaimed`, `EveryLoadCompletes`; asynchronous: `StreamSpec`; synchronous: `ResultWhole`, `ResultSettled` |
| `storage` | 2 instances, 2 namespaces, 2 areas, 2 origins, 2 sessions, 3 connections | `StorageInv`, `SessionsReclaimed` |
| `task_monitor` | period 3, worker up to 1 late, 14 ticks | `LongScriptEnds`, `TimerDestroyed` |
| `shell_new_tab_stall` | NEW_TAB, 2 views, 2 requests | `NoNeedToIncreaseConsumer` is violated |
| `view_tab_stale_stop` | views of a NolimitedTab group | `TimeoutOnlyWhenFired` is violated |
| `task_monitor_short` | as `task_monitor` | `OnlyLongTasksTerminated` is violated |

Some invariants are conjunctions, whose parts are stated one by one in their
module: `NothingLeftOver`, `SharedSafely`, `ResourcesAsReceived`, `LoadedAsAsked`,
`ShellInv`, `LifecycleInv`, `StorageInv`. Each includes its module's type invariant.

**Findings.** (1) In a NEW_TAB shell the consumer that had to wait for its
request is not replaced, against the comment at `BrowserQueueManager.cpp:71`:
the view is deleted after its answer and nobody asks the queue again. (2) A stop
message names a view by address; in a NolimitedTab group the view may be gone,
and a new one at that address has the same identifier 0, so its load ends with
`E_TIMEOUT` though its own timer never fired. (A view that is kept is safe from
this: `KeptTimeoutOnlyWhenFired`.) (3) `BrowserTaskMonitor` takes an idle main
thread for one long task when the last task began and ended in the same tick, and
it calls V8 after it released the lock: scripts of tasks that have only begun are
terminated.

**Observations.** Behaviour the models show that no statement of the repository
excludes, so that no run checks against it:

* A second `CreateBrowser` returns the same shell. `~BrowserShell` may run on a
  client's or the receiver's thread, whichever drops the last reference.
  `ReleaseBrowser` from a request's callback makes the worker join itself, and
  never returns (`ReleaseReturns` excepts it).
* A page that announces a redirect it never makes lets the next frame's response
  take the place of the page's header and URL in the answer. Between
  `didStartLoading` of a redirect and the commit of its page, the document that is left
  may still send, and a response to it that comes first becomes the header, URL and
  code of the answer, the page's own being recorded no more: `didReceiveResponse` does
  not ask who sent. (`LightBrowser.h:53` says that by default the main resource's
  header is returned; `OnlySinceRedirect` claims no more than the code gives.) A redirect's
  `reset()` also clears the flag that forbids subresources. A navigation by a
  click after the load finished keeps the old page's headers and flags. When a
  subframe resets the delegate, an answer that waits for onload comes only with
  the time-out. With all responses asked for, `m_httpCode` may be of an earlier one
  than `m_url`, and without any response it is uninitialised.
  Style sheets and the log are kept from page to page.
* The parser of a render dump skips the first character of a field and ends it at
  the first space. A PUT's body is never sent, and `m_userAgent` goes out as a
  header named `UserAgent`. The preferences are one static object that every view
  changes before it applies them.
* `stopLoad` trusts `m_didResponse`, which is set when a response is *posted*; if
  that task declines because the page loads again, nothing else answers. The
  assumption on stopped pages below keeps the page from loading again.

**Bounds.** Two clients are enough to race for the lock, for the signal and for
the transition of the income queue from empty; three requests let one be in each
of the income queue, the work queue and the receiver or a loop at once; two
views let one wait behind another. Four requests in a single shell exceed
`3 * views`, so that a tab is added, answers and is deleted while requests are
left; two places and five increases make a fixed group overflow if it can. Two
shells let every static be met by its successor. Two
loads of a view let everything left over from the first meet the second, and one
subresource besides the main one is enough for `resources` to become empty twice.
`MaxTasks` (and `MaxPosts`) hold WebKit's callbacks back while so many tasks wait
on the main loop: two posted responses are enough for the second to be a leftover
of the first. Two pages of a load let one be left, three identifiers let a page, a
frame and a resource be in flight together. Three loads on two views let one view
be used again while the other's answer is on the worker. In the loader, two
redirects let one follow another, three chunks let one be
delivered, one be in the buffer and one be still to read, and of two cancels one
comes when the other has done its work. Two storage instances let an object of
the first meet the second, three connections let one be closed between two that
are open. The monitor's 14 ticks are four periods: a script can begin in any phase
of the timer and outlast the bound.
`CHECK_DEADLOCK` is off because the system really stops: after the release of the
shell, when a load is over, and at the bounds on requests, loads and the clock.

**Fairness.** Threads are scheduled: the receiver and the main loop run what is
posted to them, a client inside `BrowserLoad` comes out, `create()` and
`destroy()` go on, a `PostTask` returns, the timer's interval ends and the pipe is
read. Nothing is assumed of the clients (they may never call), of WebKit or of the
network (they may never report); `EveryLoadCompletes` alone is about a network
that answers, and says so in its formula. A `TimedWait` ends. In `BrowserShell`
each load is assumed to end in a response, which is what `ViewResponse` shows of
one view (`EveryLoadAnswered`). `ViewOutput`, `RequestContext` and `WebStorage`
promise nothing that needs fairness.

**Assumed of WebKit and Chromium.** A resource that was sent ends at most once;
the main frame fires onload or stops loading only when its main resource ended; a
frame that fails has nothing in flight and sends for nothing more;
`stopLoading()` ends everything in flight before it returns; `about:blank` is
loaded when `loadRequest` returns; and no script of a stopped page sends for
anything again. A main frame that goes to another page first ends what is in
flight and then reports `didStartLoading`; the document it leaves stays alive until the new
one is committed, but fires no onload while the page's request is in flight; the commit
follows the page's response and ends what that document has sent since. Resources that
WebKit ends together are one report, with one check for an answer. A page whose subresources are forbidden has its own URL as the request's.
A document is what was asked for under the preferences it ran with, and
`DumpRenderInfo` (not in the repository) writes a layout in the form the parser
expects. `dom_storage` keeps the sessions and connections it was told of.

**Undefined behaviour.** Message loops reached through a deleted thread and the
shell reached through a NULL pointer are a crash (`receiverPc = "crashed"`). A
notification that outlives its proxy, a second deletion, a write to the result of
a synchronous load whose caller has gone (`BrowserResourceLoaderBridge.cpp:597`
after a time-out; the caller's response is taken to live as long as the bridge), and a timer that calls a deleted monitor may end the process or
do nothing; TLC reaches all of them. The first needs the main thread to drop the
last reference (`:539`) while the URL request reports once more. A
group read while `~BrowserShell` deletes it, and a stop message dispatched to a
deleted view, may crash or do nothing. `m_type` is not initialised when the option
is missing: it is any of `Garbage`.

## 4. What is proved

Every theorem holds for every value of the constants that satisfies the module's
named assumptions, and rests on nothing else. Each `…Step` lemma has one step per
action of `Next`; the last theorem of a chain is `Spec => []Inv`.

**`BrowserShellProofs.tla`, the queue**: `IInv`, and from it `TypeOK`, `NoLostWakeup`,
`DeleteWakesReceiver`, `InOrder` and `OneAskPerView`, from `MaxRequests` and
`InitialIncreases` being natural numbers and `NoView` not being a view. None of
them is inductive alone. `IInv` adds `Control`: who may be inside the
lock, that the flag and the deletion of the views follow `~BrowserShell`, and in
which steps the receiver's `view` and `request` are set. Then

* `NoLostWakeup` is kept by an append because the client that finds the income
  queue empty becomes the one that signals, and by a peek because the receiver
  goes to sleep only when it found both queues empty under the lock, when no
  client is inside the critical section;
* `InOrder` is an interval: the numbers in flight are exactly
  `lastLoaded+1 .. requestNumber`, cut into main loop, receiver, work queue and
  income queue. `LoadsStep` says what a post and a pop do to the main loop's part;
* `OneAskPerView` ties each view's state to the one place in which it stands.

**`BrowserShellProofs.tla`, the channel**: from `IInv`, that every step of the queue's threads
is a step of `RequestChannel` or none of it, with its initial states. `InOrder` turns
the mapping into intervals: the channel's queue is `Taken+1 .. requestNumber`, what was
handed over is `lastLoaded+1 .. Taken`. A pop, with or without the swap of the
two queues, moves one number from the first to the second, and a post to the main loop
moves none. The steps are proved with the handed requests read off by number (`Numbered`);
`SameHanded` then counts the loads in the main loop to show that `Channel`, which TLC
checks and which takes them as they stand there, is given the same. `Close` needs one
more invariant, that no client is inside `BrowserLoad` when the shell is released
(`ClientsInside`).

**`BrowserShellProofs.tla`, the shell**: `ShellInv`, `QueueSpec`, `MainGroupBounded`
and `OneConsumerInLine`, for
every type and count the options may hold, from `GroupsAssumption`,
`ViewsAssumption` (finitely many views), `CreateAssumption` and
`OptionsAssumption`. The argument has two halves that need each other. A step of
the shell is a step of the queue's open environment only if the view it lets ask
is not in line already, which the lists tell (`GroupTypeOK`: a view is in at most
one group and lives exactly as long as it is in one); and given that,
`IInv` of the queue carries over, which says where an increase or a load in the main loop came
from. `MainGroupBounded` needs `SingleTabFirst`: until a single shell has its tab
only the one increase of `create()` is under way, and after it the receiver
asks for tabs alone, so the increases in flight never meet an empty main group.
`OneConsumerInLine` is a second induction, on `OnePlace`: the one consumer of a NEW_TAB
shell is an increase still to be made by `create()`, one in the main loop, a view in
line, the view in the receiver's hands, or the receiver about to ask; only one of these
at a time, because each step takes it from one place to the next.

**`ViewResponseProofs.tla`**: `AnswersInOrder`, `KeptTimeoutOnlyWhenFired` and
`NothingLeftOver`, for any number of loads and subresources. What one event of WebKit
sets off is a composition of functions on `ui`; `Reports` is what any chain of them has in
common, a reflexive and transitive relation: the context keeps its load, responses of that
load are appended to the main loop, and nothing sets the delegate's `m_timeout`. `IInv`
then says where the one request of a view is (`PhaseInv`, `TasksInv`), how many were answered
(`AnswersInv`), that every timer but the present load's is followed by its stop in
the worker's loop (`MonitorInv`) and, for a view that is kept, that `m_identifier` is the number
of its load (`KeptInv`): so a stop message that comes late names another load than the
present one, and a leftover `doResponseOnMainThread` finds no context.

**`RequestContextProofs.tla`**: `UrlNamesHeader`, `OnlySinceRedirect`,
`ResourcesAsReceived`, `LogTellsWholeLoad` and `PostedAfterOnload`, for all URLs, lists and
settings and any number of pages, resources and requests, from `RequestUrlAssumption`,
`SettingsAssumption` and `ScriptsAssumption` (the tags by which the model names a
request's own scripts are no URLs). The callbacks are functions on `load`; each is
shown to report (`Reports`: it erases resources, logs, and posts at most one answer, in
time) or to be one of the three that say more: `SendForKeeps`, `Receives`, `Finishes`.
None of the properties is inductive: what a resource adds to the answer when it ends
depends on the URL and page it was registered with, so `IInv` follows it in between.
`FlightInv` says that what is registered is in flight under its present URL, and that of no
excluded one, `ReceivedInv` that only what responded is spoken of, `OnloadInv`
that the flag of onload is the present page's, once that is committed and unless it was
reached without notice, and `LeftInv` why the document left does not disturb it: it may
set the flag only when nothing is in flight for a page. `LeftInv` also says that what is
in flight was sent since the main frame went to its page, which is all that
`OnlySinceRedirect` needs of the order in which responses arrive.

**`ViewOutputProofs.tla`**: `AnswerOfOneLoad` and `LoadedAsAsked`, for any views, requests
and layouts. A load is in one place at a time (`OnePlace`): with its view, in a task of
the worker, or in a callback's answer. While it is with the view, page, preferences and
window are of it (`ViewsInv`), and what leaves the view is of one state of that page
(`OfOneLoad`); nothing that happens to the view later reaches it. `RenderInfoIsLayout` needs
two things more. The dump that the worker parses was taken of the page and the window its
image shows (`TextInv`). And the parser undoes the dump (`ReadsBack`), whatever the
layout, as long as it is a finite one of integers (`LayoutAssumption`): a text is read
along a run of the parser's states (`Reads`), runs are put together as texts are
(`ReadsBoth`), the run of a line begins and ends between two lines and adds its block
(`LineParsed`), and so the text that `DumpRenderInfo` writes, line by line, makes the
blocks written so far (`DumpParsed`). A text is a sequence of the characters of the form
and of whole numbers: how `strtoul` reads the digits of a number is not modelled. The inductions over the text use `AllNumbers`, which
states induction for a set of numbers instead of a predicate, and follows from the
well-foundedness of `<` on the naturals (`Least`).

**`ShellLifecycleProofs.tla`**: `LifecycleInv`, `ViewsHaveThreads`,
`NetworkOfThisShell` and `NothingLeft`. `ShellOutlivesClosures` counts references
by where they are, `CallsInOrder` says what may be in the main loop at each point
of `create()` and `destroy()`, and `ThreadsInOrder` reads off the program counter
which threads run and whose platform and network context is there. The last three
theorems follow from these without another induction.

**`ResourceLoaderProofs.tla`**: `SharedSafely`, `ResultWhole`, `ResultSettled`, and that
every step of a load is a step of `ResourceStream` or none of it, for any number of
redirects, chunks and cancels (`LoaderAssumption`). The two loops may hold any
number of tasks, and cancels may come anywhere between them; what orders a load is that
after a redirect or a chunk the URL request goes no further until the peer has
answered and the IO thread has run the answer. `Turns` says that at most one such
notification or answer is under way, in either loop. Given that,

* `Waits` and `Delivered` say what the buffer holds and what the peer is still owed
  while it is: so no read is pending when the buffer is copied, and the chunks
  arrive in order and without gaps;
* `Permitted` and `Ordered` say the same of redirects and of the response, which
  is notified once, of the last URL, before the body;
* `Owned` says that nothing releases the bridge's reference before the bridge is
  deleted, so that the last reference cannot be dropped earlier on either thread;
* `Synchronous` says that such a load has no notifications, that its result is what was
  read so far, and that it is signalled exactly when it has no request any more: later
  tasks find none and write nothing.

**`WebStorageProofs.tla`**: `StorageInv` and `SessionsReclaimed`.
`StoreInv` joins the two: an area keeps its connection because parents, ids
and connections in use were all handed out by counters (`StorageTypeOK`), so what
is new is different from everything that is left of an earlier instance.

**`TaskMonitorProofs.tla`**: `MonitorTypeOK` and `LongScriptEnds` for every
interval and every bound on the clock, if the worker is never a whole period late
(`MonitorAssumption`; with a later worker the timer would start so late that the
bound is wrong for the first script). `LongScriptEnds` is about the clock alone;
what makes it inductive is `Deadline`, when the test that ends the running script
is due: a test may fail at most one interval after the script began, so the next
is due at most two intervals after it. `Watching` says that the worker is not late
while the shell lives and `SeemsToRun` that a task that runs passes the test's
first condition.

**Only model-checked**: everything about liveness, the fairness in `ChannelSpec` and
`StreamSpec` included, which is out of the prover's reach together with ENABLED. Every
safety property of a passing run is a theorem.

## 5. Not modelled

* The time a request spent in the queue and its subtraction from `m_timeout`
  (`SimpleBrowserQueue.cpp:43`); the capacity of the message pipe; a load task in the main
  loop that was posted before the shell was released and runs after it.
* Of the view: dialogs, plug-ins, the navigation policy, popup windows (which
  `createNewWindow` makes and nobody deletes), and the many delegate methods that
  only hand on to Chromium or return a constant.
* Of the request context: the wording of the log and the matching of URLs by the
  redirect filter, which are constants and external choices.
* Of the resource loader: loads to a file and upload progress (`CompleteMe` in the
  code), the headers of a response, and `Start` returning false because the IO thread
  could not be started.
* Of the options: those that are handed on unread (logger, cache, proxy). The copy
  of a request, whose constructor assigns `m_extendStringParam` and
  `m_extendIntParam` to themselves (`LightBrowser.cpp:105`), holds no state.
* How Chromium's network stack is put together, MIME tables, the platform's other
  calls, the loggers (static objects that write files), the test driver and the
  build: they hold no protocol of their own.
