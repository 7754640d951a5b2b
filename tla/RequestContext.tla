--------------------------- MODULE RequestContext ---------------------------
(***************************************************************************)
(* What one load collects for its answer.  WebKit reports to the view's     *)
(* BrowserViewDelegate on the main thread; the delegate passes most reports *)
(* on to the load's BrowserViewRequestContext, which fills in a             *)
(* BrowserResponse (response headers, the URL and HTTP code of the page,    *)
(* advertisement URLs, style sheets, the observer's log), executes the      *)
(* scripts the request carries, and refuses the URLs on its exclude list.   *)
(* doResponseOnMainThread copies the response.                              *)
(*                                                                          *)
(* Timers, stop messages and the view's next load are ViewResponse.tla's.   *)
(* WebKit is external.  What is assumed of it: a main frame that goes to    *)
(* another page first ends everything in flight (stopAllLoaders), then      *)
(* reports didStartLoading; the document it leaves stays alive until the    *)
(* new one is committed: it may send, start frames, speak and announce      *)
(* redirects, but fires no onload while the page's request is in flight;    *)
(* the commit follows the response of the page and ends what the document   *)
(* left has sent since; another frame's load reports didStartLoading when   *)
(* nothing was loading; a server's redirect asks willSendRequest again      *)
(* under the same identifier; a request whose URL was cleared gets no       *)
(* response and fails; onload may be fired more than once (document.open).  *)
(* Resources that WebKit ends together are one report, with one check.      *)
(***************************************************************************)
EXTENDS Naturals, FiniteSets

CONSTANTS RequestUrl,     \* m_request.m_url
          PageUrls,       \* URLs the main frame may go to
          FrameUrls,      \* documents of subframes
          ResourceUrls,   \* scripts, images, style sheets
          ExcludedUrls,   \* m_request.m_excludeURL
          ScriptedUrls,   \* m_request.m_mapUrlAndExtendJavaScript
          StyleUrls,      \* resources whose subresourceData is CSS
          Settings,       \* the settings a request may carry
          MaxPages,       \* bound on the pages of a load
          MaxIdentifiers, \* bound on the identifiers of a load
          MaxPosts        \* WebKit reports while fewer answers than this are posted

Urls == PageUrls \cup FrameUrls \cup ResourceUrls
Ids == 1..MaxIdentifiers

\* What ran records of the request's scripts that run in every page; no URL.
OwnScripts == {"created", "parsed", "onload"}

ASSUME RequestUrlAssumption == RequestUrl \in PageUrls
ASSUME SettingsAssumption ==
  Settings \subseteq [observer : BOOLEAN, allResponse : BOOLEAN, adURLs : BOOLEAN,
                      css : BOOLEAN, script : BOOLEAN, afterWindowLoad : BOOLEAN,
                      subresources : BOOLEAN]
ASSUME ScriptsAssumption == OwnScripts \cap (Urls \cup ExcludedUrls) = {}
ASSUME BoundsAssumption == {MaxPages, MaxIdentifiers, MaxPosts} \subseteq Nat

VARIABLES
  settings,    \* m_request.m_settings
  load,        \* the delegate's flags and what the context collects, see LoadState
  flight,      \* requests WebKit has sent, by identifier (external)
  identifiers, \* identifiers given out so far (external)
  document,    \* the page whose document the main frame shows, 0: a blank one (external)
  page,        \* history: pages the main frame went to
  byRedirect,  \* history: the page was the load's first, or a redirect was announced
  ran,         \* history: scripts executed, with the page they ran in
  received,    \* history: URLs that responded
  refused,     \* history: the exclude list refused a URL
  answer       \* the response the callback gets, or NoAnswer

history == <<page, byRedirect, ran, received, refused>>
vars == <<settings, load, flight, identifiers, document, history, answer>>

Statuses == {"ok", "ad"}  \* "ad": 404 with the text TecentAdURL
NoAnswer == [errorCode |-> "none"]

\* Functions from a subset of A to B.
Partial(A, B) == UNION {[D -> B] : D \in SUBSET A}

\* Headers and advertisements carry the page the main frame was at, or going to,
\* when their request was sent (history).
Entries == [status : Statuses, page : 1..MaxPages]

IsResponse(r) ==
  /\ DOMAIN r = {"errorCode", "url", "httpCode", "headers", "adURLs", "subResources", "log"}
  /\ r.errorCode \in {"E_OK", "E_BAD_URL", "E_NETWORK"}
  /\ r.url \in Urls
  /\ r.httpCode \in Statuses \cup {"unset"}
  /\ DOMAIN r.headers \subseteq Urls /\ \A u \in DOMAIN r.headers : r.headers[u] \in Entries
  /\ r.adURLs \subseteq [url : Urls, page : 1..MaxPages]
  /\ r.subResources \subseteq Urls
  /\ r.log \subseteq {"exclude", "script", "event"}

\* Type invariant.  An answer that was given is whole: every field is set but
\* m_httpCode, which no constructor initialises.
ContextTypeOK ==
  /\ settings \in Settings
  /\ DOMAIN load = {"loading", "resources", "didFinishLoad", "windowLoaded", "forbidden",
                    "isRedirect", "posts", "response"}
  /\ {load.loading, load.didFinishLoad, load.windowLoaded, load.forbidden, load.isRedirect}
       \subseteq BOOLEAN
  /\ load.posts \in 0..(MaxPosts + 1)
  /\ DOMAIN load.resources \subseteq Ids /\ \A i \in DOMAIN load.resources : load.resources[i] \in Urls
  /\ IsResponse(load.response)
  /\ DOMAIN flight \subseteq Ids
  /\ \A i \in DOMAIN flight :
       flight[i] \in [url : Urls, role : {"page", "frame", "resource"}, received : BOOLEAN,
                      page : 1..MaxPages]
  /\ identifiers \in 0..MaxIdentifiers
  /\ page \in 0..MaxPages /\ document \in 0..page /\ {byRedirect, refused} \subseteq BOOLEAN
  /\ ran \subseteq [script : Urls \cup OwnScripts, page : 1..MaxPages]
  /\ received \subseteq Urls
  /\ answer = NoAnswer \/ IsResponse(answer)

NoEntries == [u \in {} |-> u]
\* std::map's operator[]=: an entry is added or replaced.
With(f, a, b) == [x \in {a} \cup DOMAIN f |-> IF x = a THEN b ELSE f[x]]

EmptyResponse(url) == [errorCode |-> "E_OK", url |-> url, httpCode |-> "unset",
                       headers |-> NoEntries, adURLs |-> {}, subResources |-> {}, log |-> {}]
BlankResponse == EmptyResponse("") \* mutant: the context leaves m_url empty

\* The constructors of BrowserResponse and of the context: m_httpCode is left
\* without a value.
NewResponse == EmptyResponse(RequestUrl)

\* BrowserView::load up to loadRequest: reset(), a new context, and
\* m_forbiddenSubResource from the request.
Init ==
  /\ settings \in Settings
  /\ load = [loading |-> FALSE, resources |-> NoEntries, didFinishLoad |-> FALSE,
             windowLoaded |-> FALSE, forbidden |-> ~settings.subresources,
             isRedirect |-> FALSE, posts |-> 0, response |-> NewResponse]
  /\ flight = NoEntries /\ identifiers = 0 /\ document = 0
  /\ page = 0 /\ byRedirect = TRUE /\ ran = {} /\ received = {} /\ refused = FALSE
  /\ answer = NoAnswer

-----------------------------------------------------------------------------
(* BrowserViewDelegate and BrowserViewRequestContext: callbacks as functions *)
(* from a load state to the next.                                            *)

\* if (m_enableObserver) m_observerLogger.push_back(..); what is kept of an
\* entry is its kind, "event" for a dialog, a console message or a failure.
Observe(s, kind) == IF settings.observer THEN [s EXCEPT !.response.log = @ \cup {kind}] ELSE s

PostResponse(s, code) == [s EXCEPT !.response.errorCode = code, !.posts = @ + 1]

Pending(s) == ~s.forbidden /\ DOMAIN s.resources # {}

CheckDoResponse(s) ==
  IF \/ Pending(s) \/ (~s.forbidden /\ ~s.didFinishLoad)
     \/ settings.afterWindowLoad /\ ~s.windowLoaded
  THEN s ELSE PostResponse(s, "E_OK")

ResetKeepsOnload(s) == \* mutant: m_didHandleWindowLoadEvent survives
  [s EXCEPT !.resources = NoEntries, !.didFinishLoad = FALSE,
            !.forbidden = FALSE, !.isRedirect = FALSE]

Reset(s) == [s EXCEPT !.resources = NoEntries, !.didFinishLoad = FALSE,
                      !.windowLoaded = FALSE, !.forbidden = FALSE, !.isRedirect = FALSE]

ClearsNothing(s) == s \* mutant: what the left page sent is kept
ClearsLog(s) == \* mutant: the log is cleared with the headers
  [s EXCEPT !.response.headers = NoEntries, !.response.adURLs = {}, !.response.log = {}]

ContextDidStartLoading(s) ==
  [s EXCEPT !.response.headers = NoEntries, !.response.adURLs = {}]

\* A load that starts after the page was finished is not a new page to the
\* delegate unless a redirect was announced.
DidStartLoading(s) ==
  LET t == [s EXCEPT !.loading = TRUE]
  IN  IF s.isRedirect THEN ContextDidStartLoading(Reset(t))
      ELSE IF s.didFinishLoad THEN t
      ELSE ContextDidStartLoading(t)

DidStopLoading(s) ==
  LET t == [s EXCEPT !.loading = FALSE]
  IN  IF s.didFinishLoad THEN t ELSE CheckDoResponse([t EXCEPT !.didFinishLoad = TRUE])

Excluded(url) == url \in ExcludedUrls
Forbids(s, url) == s.forbidden /\ url # RequestUrl
RefusesForbidden(s, url) == Forbids(s, url) \* mutant: only canHandleRequest has the list
Refuses(s, url) == Forbids(s, url) \/ Excluded(url)

RegistersOnce(s, id, url) == \* mutant: a redirected request keeps its first URL
  IF Forbids(s, url) THEN s
  ELSE IF Excluded(url) THEN Observe(s, "exclude")
  ELSE [s EXCEPT !.resources = IF id \in DOMAIN @ THEN @ ELSE With(@, id, url)]

\* willSendRequest: a request that is sent is registered under its URL.
WillSendRequest(s, id, url) ==
  IF Forbids(s, url) THEN s
  ELSE IF Excluded(url) THEN Observe(s, "exclude")
  ELSE [s EXCEPT !.resources = With(@, id, url)]

UrlOfEveryResponse(s, request, status) == \* mutant: m_url follows every response
  [s EXCEPT !.response.headers =
              IF settings.allResponse \/ DOMAIN @ = {}
              THEN With(@, request.url, [status |-> status, page |-> request.page]) ELSE @,
            !.response.url = request.url, !.response.httpCode = status]

\* didReceiveResponse: the first response, or all of them; the first one gives
\* the response its URL and its HTTP code.
RecordHeader(s, request, status) ==
  LET t == [s EXCEPT !.response.headers =
              With(@, request.url, [status |-> status, page |-> request.page])]
  IN  IF ~settings.allResponse /\ DOMAIN s.response.headers # {} THEN s
      ELSE IF Cardinality(DOMAIN t.response.headers) = 1
      THEN [t EXCEPT !.response.url = request.url, !.response.httpCode = status]
      ELSE t

RecordAd(s, request, status) ==
  IF settings.adURLs /\ status = "ad"
  THEN [s EXCEPT !.response.adURLs = @ \cup {[url |-> request.url, page |-> request.page]}]
  ELSE s

DidReceiveResponse(s, request, status) ==
  RecordAd(RecordHeader(s, request, status), request, status)

\* executeScript, logged before it runs.
RunScript(s, runs) == IF runs THEN Observe(s, "script") ELSE s

Erase(s, ids) ==
  [s EXCEPT !.resources = [i \in DOMAIN @ \ ids |-> @[i]]]
CheckWhenEmpty(s) == IF DOMAIN s.resources = {} THEN CheckDoResponse(s) ELSE s

\* The URL a resource that ends was registered under; none after a reset().
NameOf(s, id) == {s.resources[i] : i \in DOMAIN s.resources \cap {id}}
RunsFor(s, id) == IF settings.script THEN NameOf(s, id) \cap ScriptedUrls ELSE {}

DidFinishResourceLoad(s, id) ==
  LET t == RunScript(s, RunsFor(s, id) # {})
      styles == IF settings.css THEN NameOf(s, id) \cap StyleUrls ELSE {}
  IN  CheckWhenEmpty(Erase([t EXCEPT !.response.subResources = @ \cup styles], {id}))

DidFailResourceLoad(s, ids) ==
  IF ids = {} THEN s ELSE CheckWhenEmpty(Erase(Observe(s, "event"), ids))

DoResponseWithoutCheck(s, code) == PostResponse(s, code)

-----------------------------------------------------------------------------
(* WebKit events on the main thread. *)

Live == answer = NoAnswer /\ load.posts < MaxPosts

Sent(url, role, at) == [url |-> url, role |-> role, received |-> FALSE, page |-> at]

\* WebKit sends for `url` under `id` from load state s, with requests fl in
\* flight and the main frame at page `at`; a request that the delegate refuses
\* fails at once.
SendFor(s, fl, id, url, role, at) ==
  /\ refused' = (refused \/ (~Forbids(s, url) /\ Excluded(url)))
  /\ IF Refuses(s, url)
       THEN /\ load' = DidFailResourceLoad(WillSendRequest(s, id, url), {id})
            /\ flight' = [i \in DOMAIN fl \ {id} |-> fl[i]]
       ELSE /\ load' = WillSendRequest(s, id, url)
            /\ flight' = With(fl, id, Sent(url, role, at))

\* canHandleRequest says no before anything else happens.
CannotHandle(s, isMain) ==
  /\ load' = IF isMain THEN DoResponseWithoutCheck(Observe(s, "exclude"), "E_BAD_URL")
             ELSE Observe(s, "exclude")
  /\ refused' = TRUE
  /\ UNCHANGED <<flight, identifiers, page, byRedirect>>

\* The main frame goes to a page: the request's own, a redirect's or a link's.
StartPage(url) ==
  /\ Live /\ page < MaxPages /\ identifiers < MaxIdentifiers
  /\ page = 0 <=> url = RequestUrl
  /\ \/ Excluded(url) /\ CannotHandle(load, TRUE)
     \/ /\ ~Excluded(url)
        /\ page' = page + 1
        /\ byRedirect' = (page = 0 \/ load.isRedirect)
        /\ identifiers' = identifiers + 1
        /\ SendFor(DidStartLoading(DidFailResourceLoad(load, DOMAIN flight)), NoEntries,
                   identifiers', url, "page", page')
  /\ UNCHANGED <<settings, document, ran, received, answer>>

\* A subframe starts to load its document, possibly one of the document that the
\* main frame is leaving.
StartFrame(url) ==
  /\ Live /\ document # 0 /\ identifiers < MaxIdentifiers
  /\ \/ Excluded(url) /\ CannotHandle(load, FALSE)
     \/ /\ ~Excluded(url)
        /\ identifiers' = identifiers + 1
        /\ SendFor(IF load.loading THEN load ELSE DidStartLoading(load), flight,
                   identifiers', url, "frame", page)
        /\ UNCHANGED <<page, byRedirect>>
  /\ UNCHANGED <<settings, document, ran, received, answer>>

\* So with scripts, images and style sheets: willSendRequest does not ask which
\* document sends.
SendForResource(url) ==
  /\ Live /\ document # 0 /\ identifiers < MaxIdentifiers
  /\ identifiers' = identifiers + 1
  /\ SendFor(load, flight, identifiers', url, "resource", page)
  /\ UNCHANGED <<settings, document, page, byRedirect, ran, received, answer>>

\* A server redirects a request to another URL of its kind.
ServerRedirect(id, url) ==
  /\ Live /\ ~flight[id].received /\ url # flight[id].url
  /\ url \in CASE flight[id].role = "page" -> PageUrls
               [] flight[id].role = "frame" -> FrameUrls
               [] flight[id].role = "resource" -> ResourceUrls
  /\ SendFor(load, flight, id, url, flight[id].role, flight[id].page)
  /\ UNCHANGED <<settings, identifiers, document, page, byRedirect, ran, received, answer>>

ReceiveResponse(id, status) ==
  /\ Live /\ ~flight[id].received
  /\ load' = DidReceiveResponse(load, flight[id], status)
  /\ flight' = [flight EXCEPT ![id].received = TRUE]
  /\ received' = received \cup {flight[id].url}
  /\ UNCHANGED <<settings, identifiers, document, page, byRedirect, ran, refused, answer>>

\* didCommitProvisionalLoad: the page's document takes the place of the one left,
\* whose requests fail.
CommitPage(id) ==
  /\ Live /\ flight[id].role = "page" /\ flight[id].received /\ document # page
  /\ document' = page
  /\ load' = DidFailResourceLoad(load, DOMAIN flight \ {id})
  /\ flight' = [i \in {id} |-> flight[i]]
  /\ UNCHANGED <<settings, identifiers, history, answer>>

\* The page's own request ends well only after the commit.
FinishResource(id) ==
  /\ Live /\ flight[id].received
  /\ flight[id].role = "page" => document = page
  /\ load' = DidFinishResourceLoad(load, id)
  /\ ran' = ran \cup {[script |-> u, page |-> document] : u \in RunsFor(load, id)}
  /\ flight' = [i \in DOMAIN flight \ {id} |-> flight[i]]
  /\ UNCHANGED <<settings, identifiers, document, page, byRedirect, received, refused, answer>>

FailResource(id) ==
  /\ Live
  /\ load' = DidFailResourceLoad(load, {id})
  /\ flight' = [i \in DOMAIN flight \ {id} |-> flight[i]]
  /\ UNCHANGED <<settings, identifiers, document, history, answer>>

\* The callbacks of the document shown that change nothing but the load.
Report(next, scripts) ==
  /\ load' = next
  /\ ran' = ran \cup (IF settings.script THEN [script : scripts, page : {document}] ELSE {})
  /\ UNCHANGED <<settings, flight, identifiers, document, page, byRedirect, received, refused,
                 answer>>

DidCreateScriptContext ==
  Live /\ document # 0 /\ Report(RunScript(load, settings.script), {"created"})

DidFinishDocumentLoad ==
  Live /\ document # 0 /\ Report(RunScript(load, settings.script), {"parsed"})

DidHandleOnloadEvents ==
  /\ Live /\ document # 0 /\ \A i \in DOMAIN flight : flight[i].role # "page"
  /\ IF load.windowLoaded THEN Report(load, {})
     ELSE Report(CheckDoResponse(RunScript([load EXCEPT !.windowLoaded = TRUE],
                                           settings.script)),
                 {"onload"})

\* Dialogs and console messages.
PageSpeaks == Live /\ document # 0 /\ Report(Observe(load, "event"), {})

\* willPerformClientRedirect; didCancelClientRedirect takes nothing back.
WillPerformClientRedirect ==
  Live /\ document # 0 /\ Report([load EXCEPT !.isRedirect = TRUE], {})

StopsLoading ==
  /\ Live /\ load.loading
  /\ \A i \in DOMAIN flight : flight[i].role = "resource"
  /\ Report(DidStopLoading(load), {})

\* didFailProvisionalLoad, didFailLoad of the main frame.
MainFrameFails ==
  /\ Live /\ load.loading
  /\ IF document = page THEN DOMAIN flight = {}
     ELSE \A i \in DOMAIN flight : flight[i].role # "page"
  /\ Report(DoResponseWithoutCheck(Observe(load, "event"), "E_NETWORK"), {})

\* doResponseOnMainThread; with its answer the context is deleted.
DoResponse ==
  /\ answer = NoAnswer /\ load.posts > 0
  /\ load' = [load EXCEPT !.posts = @ - 1]
  /\ answer' = IF Pending(load) THEN NoAnswer ELSE load.response
  /\ UNCHANGED <<settings, flight, identifiers, document, history>>

Next ==
  \/ \E url \in PageUrls : StartPage(url)
  \/ \E url \in FrameUrls : StartFrame(url)
  \/ \E url \in ResourceUrls : SendForResource(url)
  \/ \E id \in DOMAIN flight :
       \/ \E url \in Urls : ServerRedirect(id, url)
       \/ \E status \in Statuses : ReceiveResponse(id, status)
       \/ CommitPage(id) \/ FinishResource(id) \/ FailResource(id)
  \/ DidCreateScriptContext \/ DidFinishDocumentLoad \/ DidHandleOnloadEvents
  \/ PageSpeaks \/ WillPerformClientRedirect
  \/ StopsLoading \/ MainFrameFails \/ DoResponse

Spec == Init /\ [][Next]_vars

-----------------------------------------------------------------------------
(* Properties. *)

Headers == load.response.headers

\* By default the answer holds one header, and m_url and m_httpCode are the URL
\* and the code of that same response, whatever responses, redirects and clears
\* came in between; with all responses m_url still is one of their keys.
UrlNamesHeader ==
  DOMAIN Headers # {} =>
    /\ load.response.url \in DOMAIN Headers
    /\ ~settings.allResponse =>
         /\ Cardinality(DOMAIN Headers) = 1
         /\ load.response.httpCode = Headers[load.response.url].status

\* After an announced redirect was taken, every header and every advertisement in
\* the response is of a request sent since: didStartLoading cleared the earlier
\* ones, and nothing that was in flight brings one back.  It does not say that
\* the new page sent it: what the document left sends before the commit is taken
\* for the page's own.
OnlySinceRedirect ==
  byRedirect =>
    /\ \A u \in DOMAIN Headers : Headers[u].page = page
    /\ \A ad \in load.response.adURLs : ad.page = page

\* What the exclude list names is never answered for: no response is recorded
\* for it, no script runs for it, whether it was asked for by name or reached
\* through a server's redirect.
ExcludedStaysOut ==
  /\ ExcludedUrls \cap (received \cup load.response.subResources \cup DOMAIN Headers) = {}
  /\ \A r \in ran : r.script \notin ExcludedUrls

\* A resource that finishes is looked up under the URL that responded, so the
\* script and the style sheet recorded for it are those of its last URL even
\* after a server redirected it (m_resourceIdentifierMap).
NamedAsReceived ==
  /\ load.response.subResources \subseteq received
  /\ \A r \in ran : r.script \in Urls => r.script \in received

\* What the response says of resources is typed, respects the exclude list, and
\* goes by the names they were received under.
ResourcesAsReceived == ContextTypeOK /\ ExcludedStaysOut /\ NamedAsReceived

\* The observer's log outlives the redirects of a load: it mentions a script
\* exactly when some page of the load executed one, and an exclusion exactly
\* when some page asked for an excluded URL.
LogTellsWholeLoad ==
  settings.observer =>
    /\ "script" \in load.response.log <=> ran # {}
    /\ "exclude" \in load.response.log <=> refused

\* With m_enableResponseAfterWindowLoad, an E_OK answer is posted for a page
\* reached by the request or by an announced redirect, and committed, only after
\* that page's own onload, hence after the script the request wants run there:
\* the onload of the document it left does not count.
PostedAfterOnload ==
  [][load'.posts > load.posts /\ load'.response.errorCode = "E_OK"
       /\ settings.afterWindowLoad /\ settings.script /\ byRedirect /\ document = page
     => [script |-> "onload", page |-> page] \in ran']_vars
=============================================================================
