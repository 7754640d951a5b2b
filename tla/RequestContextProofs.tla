------------------------ MODULE RequestContextProofs ------------------------
(***************************************************************************)
(* RequestContext.tla for all URLs, lists and settings and for any number   *)
(* of pages, resources and answers.                                         *)
(*                                                                          *)
(* The callbacks of the delegate are functions on load states.  The first   *)
(* part says of each what it leaves alone and what it adds: Reports(s, t)   *)
(* is what those have in common that only report (they erase resources,     *)
(* log events, and post at most one answer, in time), and SendForKeeps,     *)
(* Receives and Finishes are the three that say more.  IInv then ties what  *)
(* was collected to what happened: each registered resource is in flight    *)
(* under its present URL (FlightInv), only what responded is spoken of      *)
(* (ReceivedInv), the flag of onload is of the present page, or of the      *)
(* document it is about to replace, unless it was reached without notice    *)
(* (OnloadInv), and what is in flight was sent since the main frame went to *)
(* its present page (LeftInv).  The last part has one lemma for each step.  *)
(***************************************************************************)
EXTENDS RequestContext, TLAPS, FiniteSetTheorems

USE SettingsAssumption, BoundsAssumption

\* The program's values, as sets.
Responses ==
  [errorCode : {"E_OK", "E_BAD_URL", "E_NETWORK"}, url : Urls,
   httpCode : Statuses \cup {"unset"}, headers : Partial(Urls, Entries),
   adURLs : SUBSET [url : Urls, page : 1..MaxPages], subResources : SUBSET Urls,
   log : SUBSET {"exclude", "script", "event"}]
LoadStates ==
  [loading : BOOLEAN, resources : Partial(Ids, Urls), didFinishLoad : BOOLEAN,
   windowLoaded : BOOLEAN, forbidden : BOOLEAN, isRedirect : BOOLEAN, posts : Nat,
   response : Responses]
Flights == [url : Urls, role : {"page", "frame", "resource"}, received : BOOLEAN,
            page : 1..MaxPages]
Scripts == [script : Urls \cup OwnScripts, page : 1..MaxPages]

\* ContextTypeOK, by these sets.
TypeInv ==
  /\ settings \in Settings /\ load \in LoadStates /\ load.posts <= MaxPosts + 1
  /\ flight \in Partial(Ids, Flights) /\ identifiers \in 0..MaxIdentifiers
  /\ page \in 0..MaxPages /\ document \in 0..page
  /\ byRedirect \in BOOLEAN /\ refused \in BOOLEAN
  /\ ran \in SUBSET Scripts /\ received \in SUBSET Urls
  /\ answer = NoAnswer \/ answer \in Responses

\* Before the first page nothing was asked for and nothing came back.
PageInv ==
  page = 0 =>
    /\ DOMAIN flight = {} /\ ~load.loading /\ ~load.windowLoaded
    /\ DOMAIN Headers = {} /\ load.response.adURLs = {}

\* A request in flight is for no excluded URL.
FlightsOK(fl, responded) ==
  \A i \in DOMAIN fl : /\ fl[i].url \notin ExcludedUrls
                       /\ fl[i].received => fl[i].url \in responded

\* A registered resource is in flight, under the URL it is asked for.
Registered(s, fl) ==
  \A i \in DOMAIN s.resources : i \in DOMAIN fl /\ s.resources[i] = fl[i].url

\* Both, of the variables.
FlightInv == FlightsOK(flight, received) /\ Registered(load, flight)

\* Only what responded is spoken of.
ReceivedInv ==
  /\ received \cap ExcludedUrls = {}
  /\ DOMAIN Headers \subseteq received /\ load.response.subResources \subseteq received
  /\ \A r \in ran : r.script \in OwnScripts \cup received

\* The flag of onload is of the page, if it is the one shown and was not reached
\* without notice.
OnloadInv ==
  settings.script /\ byRedirect /\ load.windowLoaded /\ document = page =>
    [script |-> "onload", page |-> page] \in ran

\* What is in flight was sent since the main frame went to its page, and sent by a
\* document unless it is for the page.
SentSince(fl, at, shown) ==
  \A i \in DOMAIN fl : fl[i].page = at /\ (fl[i].role = "page" \/ shown # 0)
NoPage(fl) == \A i \in DOMAIN fl : fl[i].role # "page"

\* The document that is left may set the flag of onload only after the page's
\* request has failed.
LeftInv ==
  /\ SentSince(flight, page, document)
  /\ byRedirect /\ load.windowLoaded /\ document # page => NoPage(flight)

\* UrlNamesHeader, OnlySinceRedirect and LogTellsWholeLoad of a load state s.
NamesHeader(s) ==
  DOMAIN s.response.headers # {} =>
    /\ s.response.url \in DOMAIN s.response.headers
    /\ ~settings.allResponse =>
         /\ Cardinality(DOMAIN s.response.headers) = 1
         /\ s.response.httpCode = s.response.headers[s.response.url].status
OfPage(s, p) ==
  /\ \A u \in DOMAIN s.response.headers : s.response.headers[u].page = p
  /\ \A ad \in s.response.adURLs : ad.page = p
LogTells(s, scripts, excluded) ==
  settings.observer =>
    /\ "script" \in s.response.log <=> scripts # {}
    /\ "exclude" \in s.response.log <=> excluded

\* The inductive invariant.
IInv ==
  /\ TypeInv /\ PageInv /\ FlightInv /\ ReceivedInv /\ OnloadInv /\ LeftInv
  /\ UrlNamesHeader /\ OnlySinceRedirect /\ LogTellsWholeLoad

\* With adds an entry or replaces it.
LEMMA Put ==
  ASSUME NEW A, NEW B, NEW f \in Partial(A, B), NEW a \in A, NEW b \in B
  PROVE  /\ With(f, a, b) \in Partial(A, B)
         /\ DOMAIN (With(f, a, b)) = DOMAIN f \cup {a}
         /\ (With(f, a, b))[a] = b
         /\ \A x \in DOMAIN f : x # a => (With(f, a, b))[x] = f[x]
<1>2. DOMAIN f \subseteq A /\ \A x \in DOMAIN f : f[x] \in B
  BY DEF Partial
<1>3. With(f, a, b) \in [{a} \cup DOMAIN f -> B]
  BY <1>2 DEF With
<1>4. {a} \cup DOMAIN f \in SUBSET A
  BY <1>2
<1> QED
  BY <1>3, <1>4 DEF Partial, With

\* What is left of a function when some of its arguments are taken out.
LEMMA Removed ==
  ASSUME NEW A, NEW B, NEW f \in Partial(A, B), NEW S
  PROVE  [x \in DOMAIN f \ S |-> f[x]] \in Partial(A, B)
<1> DEFINE D == DOMAIN f \ S
<1>1. DOMAIN f \subseteq A /\ \A x \in DOMAIN f : f[x] \in B
  BY DEF Partial
<1>2. [x \in D |-> f[x]] \in [D -> B]
  BY <1>1
<1>3. D \in SUBSET A
  BY <1>1
<1> QED
  BY <1>2, <1>3 DEF Partial

\* No entries are entries of every kind.
LEMMA Empty ==
  ASSUME NEW A, NEW B
  PROVE  NoEntries \in Partial(A, B) /\ DOMAIN NoEntries = {}
<1>1. NoEntries \in [{} -> B] /\ {} \in SUBSET A
  BY DEF NoEntries
<1> QED
  BY <1>1 DEF Partial, NoEntries

\* What membership in Partial says.
LEMMA PartialOf ==
  ASSUME NEW A, NEW B, NEW f \in Partial(A, B)
  PROVE  DOMAIN f \subseteq A /\ \A x \in DOMAIN f : f[x] \in B
  BY DEF Partial

\* The settings are flags.
LEMMA SettingsBoolean ==
  ASSUME NEW t \in Settings
  PROVE  /\ t.observer \in BOOLEAN /\ t.allResponse \in BOOLEAN /\ t.adURLs \in BOOLEAN
         /\ t.css \in BOOLEAN /\ t.script \in BOOLEAN /\ t.afterWindowLoad \in BOOLEAN
         /\ t.subresources \in BOOLEAN
  OBVIOUS

\* The types of the fields, as the steps use them.
LEMMA Fields ==
  ASSUME NEW s \in LoadStates
  PROVE  /\ s.loading \in BOOLEAN /\ s.didFinishLoad \in BOOLEAN /\ s.windowLoaded \in BOOLEAN
         /\ s.forbidden \in BOOLEAN /\ s.isRedirect \in BOOLEAN /\ s.posts \in Nat
         /\ s.resources \in Partial(Ids, Urls) /\ s.response \in Responses
         /\ s.response.errorCode \in {"E_OK", "E_BAD_URL", "E_NETWORK"}
         /\ s.response.url \in Urls /\ s.response.httpCode \in Statuses \cup {"unset"}
         /\ s.response.headers \in Partial(Urls, Entries)
         /\ s.response.adURLs \subseteq [url : Urls, page : 1..MaxPages]
         /\ s.response.subResources \subseteq Urls
         /\ s.response.log \subseteq {"exclude", "script", "event"}
  BY DEF LoadStates, Responses

\* What a callback may leave alone: what the answer says of the responses, the
\* answers posted so far, and the delegate's own state.
SameAnswer(s, t) ==
  /\ t.response.url = s.response.url /\ t.response.httpCode = s.response.httpCode
  /\ t.response.headers = s.response.headers /\ t.response.adURLs = s.response.adURLs
  /\ t.response.subResources = s.response.subResources
SamePosts(s, t) ==
  t.posts = s.posts /\ t.response.errorCode = s.response.errorCode
SameDelegate(s, t) ==
  /\ t.resources = s.resources /\ t.loading = s.loading
  /\ t.windowLoaded = s.windowLoaded /\ t.forbidden = s.forbidden
  /\ t.isRedirect = s.isRedirect

\* An entry of the observer's log changes nothing else.
LEMMA Observed ==
  ASSUME NEW s \in LoadStates, settings \in Settings, NEW kind \in {"exclude", "script", "event"}
  PROVE  /\ Observe(s, kind) \in LoadStates
         /\ SameAnswer(s, Observe(s, kind)) /\ SamePosts(s, Observe(s, kind))
         /\ SameDelegate(s, Observe(s, kind))
         /\ Observe(s, kind).response.log = IF settings.observer THEN s.response.log \cup {kind}
                                            ELSE s.response.log
<1> DEFINE r == [s.response EXCEPT !.log = @ \cup {kind}]
           t == [s EXCEPT !.response = r]
<1>1. Observe(s, kind) = IF settings.observer THEN t ELSE s
  BY DEF Observe
<1>2. r \in Responses /\ r.errorCode = s.response.errorCode /\ r.url = s.response.url
      /\ r.httpCode = s.response.httpCode /\ r.headers = s.response.headers
      /\ r.adURLs = s.response.adURLs /\ r.subResources = s.response.subResources
      /\ r.log = s.response.log \cup {kind}
  BY Fields DEF Responses
<1> HIDE DEF r
<1>3. t \in LoadStates /\ t.response = r /\ t.posts = s.posts /\ SameDelegate(s, t)
  BY <1>2 DEF LoadStates, SameDelegate
<1> HIDE DEF t
<1>4. SameAnswer(s, t) /\ SamePosts(s, t)
  BY <1>2, <1>3 DEF SameAnswer, SamePosts
<1>5. SameAnswer(s, s) /\ SamePosts(s, s) /\ SameDelegate(s, s)
  BY DEF SameAnswer, SamePosts, SameDelegate
<1> QED
  BY <1>1, <1>2, <1>3, <1>4, <1>5, SettingsBoolean

\* What a callback keeps that has nothing new to tell: flags and responses stay,
\* resources are erased at most, and the log gains events at most.
Kept(s, t) ==
  /\ t.windowLoaded = s.windowLoaded /\ t.forbidden = s.forbidden
  /\ t.isRedirect = s.isRedirect /\ (t.loading => s.loading)
  /\ DOMAIN t.resources \subseteq DOMAIN s.resources
  /\ \A i \in DOMAIN t.resources : t.resources[i] = s.resources[i]
  /\ SameAnswer(s, t)
  /\ s.response.log \subseteq t.response.log
  /\ t.response.log \subseteq s.response.log \cup {"event"}

\* From s to t at most one answer is posted, and E_OK not before onload.
OnTime(s, t) ==
  /\ \/ SamePosts(s, t)
     \/ /\ t.posts = s.posts + 1
        /\ t.response.errorCode = "E_OK" /\ settings.afterWindowLoad => s.windowLoaded
  /\ t.windowLoaded => s.windowLoaded

\* A callback that only reports, and one that does not answer either.
Reports(s, t) == t \in LoadStates /\ Kept(s, t) /\ OnTime(s, t)
Quiet(s, t) == t \in LoadStates /\ Kept(s, t) /\ SamePosts(s, t)

\* Callbacks that report nothing new can follow one another.
LEMMA KeptTransitive ==
  ASSUME NEW s, NEW t, NEW u, Kept(s, t), Kept(t, u)
  PROVE  Kept(s, u)
  BY DEF Kept, SameAnswer

\* A callback that posts nothing before one that may.
LEMMA QuietFirst ==
  ASSUME NEW s, NEW t, NEW u, Quiet(s, t), Reports(t, u)
  PROVE  Reports(s, u)
<1>1. Kept(s, u)
  BY KeptTransitive DEF Quiet, Reports
<1> QED
  BY <1>1 DEF Quiet, Reports, OnTime, Kept, SamePosts

\* Nothing reported is a report, too.
LEMMA ReportsItself ==
  ASSUME NEW s \in LoadStates
  PROVE  Reports(s, s) /\ Quiet(s, s)
  BY DEF Reports, Quiet, OnTime, Kept, SamePosts, SameAnswer

\* A dialog, a console message or a failure in the observer's log.
LEMMA EventQuiet ==
  ASSUME NEW s \in LoadStates, settings \in Settings
  PROVE  Quiet(s, Observe(s, "event")) /\ SameDelegate(s, Observe(s, "event"))
<1> DEFINE t == Observe(s, "event")
<1>1. /\ t \in LoadStates /\ SameAnswer(s, t) /\ SamePosts(s, t) /\ SameDelegate(s, t)
      /\ t.response.log = IF settings.observer THEN s.response.log \cup {"event"}
                          ELSE s.response.log
  BY Observed
<1> HIDE DEF t
<1>2. Quiet(s, t)
  BY <1>1 DEF Quiet, Kept, SameDelegate
<1> QED
  BY <1>1, <1>2 DEF t

\* doResponseOnMainThread is posted with a code; with E_OK only after onload, where the
\* request asks for it.
LEMMA Posted ==
  ASSUME NEW s \in LoadStates, NEW code \in {"E_OK", "E_BAD_URL", "E_NETWORK"},
         code = "E_OK" /\ settings.afterWindowLoad => s.windowLoaded
  PROVE  /\ Reports(s, PostResponse(s, code))
         /\ PostResponse(s, code).resources = s.resources
<1> DEFINE r == [s.response EXCEPT !.errorCode = code]
           t == [s EXCEPT !.response = r]
           u == [t EXCEPT !.posts = @ + 1]
<1>1. PostResponse(s, code) = u
  BY DEF PostResponse, LoadStates
<1>2. r \in Responses /\ r.errorCode = code /\ r.url = s.response.url
      /\ r.httpCode = s.response.httpCode /\ r.headers = s.response.headers
      /\ r.adURLs = s.response.adURLs /\ r.subResources = s.response.subResources
      /\ r.log = s.response.log
  BY Fields DEF Responses
<1> HIDE DEF r
<1>3. t \in LoadStates /\ t.response = r /\ t.posts = s.posts /\ t.loading = s.loading
      /\ t.resources = s.resources /\ t.windowLoaded = s.windowLoaded
      /\ t.forbidden = s.forbidden /\ t.isRedirect = s.isRedirect
  BY <1>2 DEF LoadStates
<1> HIDE DEF t
<1>4. u \in LoadStates /\ u.response = r /\ u.posts = s.posts + 1 /\ u.loading = s.loading
      /\ u.resources = s.resources /\ u.windowLoaded = s.windowLoaded
      /\ u.forbidden = s.forbidden /\ u.isRedirect = s.isRedirect
  BY <1>3 DEF LoadStates
<1> HIDE DEF u
<1> QED
  BY <1>1, <1>2, <1>4 DEF Reports, Kept, OnTime, SamePosts, SameAnswer

\* checkDoResponse posts E_OK or does nothing.
LEMMA CheckReports ==
  ASSUME NEW s \in LoadStates, settings \in Settings
  PROVE  /\ Reports(s, CheckDoResponse(s))
         /\ CheckDoResponse(s).resources = s.resources
<1>1. CASE CheckDoResponse(s) = s
  BY <1>1, ReportsItself
<1>2. CASE /\ CheckDoResponse(s) = PostResponse(s, "E_OK")
           /\ settings.afterWindowLoad => s.windowLoaded
  BY <1>2, Posted
<1> QED
  BY <1>1, <1>2 DEF CheckDoResponse

\* A resource that is erased is no longer registered, and that is all.
LEMMA Erased ==
  ASSUME NEW s \in LoadStates, NEW ids
  PROVE  /\ Quiet(s, Erase(s, ids))
         /\ DOMAIN Erase(s, ids).resources = DOMAIN s.resources \ ids
<1> DEFINE g == [i \in DOMAIN s.resources \ ids |-> s.resources[i]]
           t == [s EXCEPT !.resources = g]
<1>1. Erase(s, ids) = t
  BY DEF Erase
<1>2. g \in Partial(Ids, Urls)
  BY Removed, Fields
<1>3. DOMAIN g = DOMAIN s.resources \ ids /\ \A i \in DOMAIN g : g[i] = s.resources[i]
  OBVIOUS
<1> HIDE DEF g
<1>4. t \in LoadStates /\ t.response = s.response /\ t.posts = s.posts /\ t.loading = s.loading
      /\ t.resources = g /\ t.windowLoaded = s.windowLoaded
      /\ t.forbidden = s.forbidden /\ t.isRedirect = s.isRedirect
  BY <1>2 DEF LoadStates
<1> HIDE DEF t
<1> QED
  BY <1>1, <1>3, <1>4 DEF Quiet, Kept, SamePosts, SameAnswer

\* The check that follows when no resource is left.
LEMMA EmptyReports ==
  ASSUME NEW s \in LoadStates, settings \in Settings
  PROVE  /\ Reports(s, CheckWhenEmpty(s))
         /\ CheckWhenEmpty(s).resources = s.resources
  BY CheckReports, ReportsItself DEF CheckWhenEmpty

\* didFailResourceLoad: the resources are erased, and the last one may answer.
LEMMA FailReports ==
  ASSUME NEW s \in LoadStates, settings \in Settings, NEW ids
  PROVE  /\ Reports(s, DidFailResourceLoad(s, ids))
         /\ DOMAIN DidFailResourceLoad(s, ids).resources = DOMAIN s.resources \ ids
<1>1. CASE ids = {}
  BY <1>1, ReportsItself DEF DidFailResourceLoad
<1>2. CASE ids # {}
  <2> DEFINE t == Observe(s, "event")
             u == Erase(t, ids)
             w == CheckWhenEmpty(u)
  <2>1. DidFailResourceLoad(s, ids) = w
    BY <1>2 DEF DidFailResourceLoad
  <2>2. Quiet(s, t) /\ t.resources = s.resources /\ t \in LoadStates
    BY EventQuiet, Observed DEF SameDelegate
  <2> HIDE DEF t
  <2>3. Quiet(t, u) /\ DOMAIN u.resources = DOMAIN s.resources \ ids /\ u \in LoadStates
    BY <2>2, Erased DEF Quiet
  <2> HIDE DEF u
  <2>4. Reports(u, w) /\ w.resources = u.resources
    BY <2>3, EmptyReports
  <2> HIDE DEF w
  <2> QED
    BY <2>1, <2>2, <2>3, <2>4, QuietFirst
<1> QED
  BY <1>1, <1>2

\* didStopLoading, with the check that follows it once.
LEMMA StopReports ==
  ASSUME NEW s \in LoadStates, settings \in Settings
  PROVE  Reports(s, DidStopLoading(s))
<1> DEFINE t == [s EXCEPT !.loading = FALSE]
           u == [t EXCEPT !.didFinishLoad = TRUE]
<1>1. DidStopLoading(s) = t \/ DidStopLoading(s) = CheckDoResponse(u)
  BY DEF DidStopLoading
<1>2. t \in LoadStates /\ t.response = s.response /\ t.posts = s.posts /\ t.loading = FALSE
      /\ t.resources = s.resources /\ t.windowLoaded = s.windowLoaded
      /\ t.forbidden = s.forbidden /\ t.isRedirect = s.isRedirect
  BY DEF LoadStates
<1> HIDE DEF t
<1>3. u \in LoadStates /\ u.response = s.response /\ u.posts = s.posts /\ u.loading = FALSE
      /\ u.resources = s.resources /\ u.windowLoaded = s.windowLoaded
      /\ u.forbidden = s.forbidden /\ u.isRedirect = s.isRedirect
  BY <1>2 DEF LoadStates
<1> HIDE DEF u
<1>4. Quiet(s, t) /\ Quiet(s, u)
  BY <1>2, <1>3 DEF Quiet, Kept, SamePosts, SameAnswer
<1>5. Reports(t, t) /\ Reports(u, CheckDoResponse(u))
  BY <1>2, <1>3, ReportsItself, CheckReports
<1> QED
  BY <1>1, <1>4, <1>5, QuietFirst

\* didStartLoading clears headers and advertisements, or leaves them, and always
\* clears them, with onload's flag, after an announced redirect.
LEMMA StartsLoading ==
  ASSUME NEW s \in LoadStates
  PROVE  /\ DidStartLoading(s) \in LoadStates
         /\ SamePosts(s, DidStartLoading(s))
         /\ DidStartLoading(s).windowLoaded => s.windowLoaded
         /\ \/ DidStartLoading(s).resources = s.resources
            \/ DidStartLoading(s).resources = NoEntries
         /\ DidStartLoading(s).response.url = s.response.url
         /\ DidStartLoading(s).response.httpCode = s.response.httpCode
         /\ DidStartLoading(s).response.subResources = s.response.subResources
         /\ DidStartLoading(s).response.log = s.response.log
         /\ \/ /\ DidStartLoading(s).response.headers = s.response.headers
               /\ DidStartLoading(s).response.adURLs = s.response.adURLs
            \/ /\ DidStartLoading(s).response.headers = NoEntries
               /\ DidStartLoading(s).response.adURLs = {}
         /\ s.isRedirect => /\ ~DidStartLoading(s).windowLoaded
                            /\ DidStartLoading(s).response.headers = NoEntries
                            /\ DidStartLoading(s).response.adURLs = {}
<1> DEFINE t == [s EXCEPT !.loading = TRUE]
           u == Reset(t)
<1>1. t \in LoadStates /\ t.response = s.response /\ t.posts = s.posts
      /\ t.resources = s.resources /\ t.windowLoaded = s.windowLoaded
      /\ t.isRedirect = s.isRedirect /\ t.didFinishLoad = s.didFinishLoad
  BY DEF LoadStates
<1> HIDE DEF t
<1>2. NoEntries \in Partial(Ids, Urls) /\ NoEntries \in Partial(Urls, Entries)
  BY Empty
<1>3. u \in LoadStates /\ u.response = s.response /\ u.posts = s.posts
      /\ u.resources = NoEntries /\ u.windowLoaded = FALSE
  BY <1>1, <1>2 DEF LoadStates, Reset
<1> HIDE DEF u
<1>4. ASSUME NEW w \in LoadStates, w.response = s.response, w.posts = s.posts
      PROVE  LET c == ContextDidStartLoading(w) IN
             /\ c \in LoadStates /\ c.posts = s.posts
             /\ c.resources = w.resources /\ c.windowLoaded = w.windowLoaded
             /\ c.response.errorCode = s.response.errorCode
             /\ c.response.url = s.response.url /\ c.response.httpCode = s.response.httpCode
             /\ c.response.subResources = s.response.subResources
             /\ c.response.log = s.response.log
             /\ c.response.headers = NoEntries /\ c.response.adURLs = {}
  <2> DEFINE r == [w.response EXCEPT !.headers = NoEntries, !.adURLs = {}]
             c == [w EXCEPT !.response = r]
  <2>1. ContextDidStartLoading(w) = c
    BY DEF ContextDidStartLoading, LoadStates, Responses
  <2>2. r \in Responses /\ r.errorCode = s.response.errorCode /\ r.url = s.response.url
        /\ r.httpCode = s.response.httpCode /\ r.headers = NoEntries /\ r.adURLs = {}
        /\ r.subResources = s.response.subResources /\ r.log = s.response.log
    BY <1>2, <1>4, Fields DEF Responses
  <2> HIDE DEF r
  <2>3. c \in LoadStates /\ c.response = r /\ c.posts = s.posts /\ c.resources = w.resources
        /\ c.windowLoaded = w.windowLoaded
    BY <1>4, <2>2 DEF LoadStates
  <2> HIDE DEF c
  <2> QED
    BY <2>1, <2>2, <2>3
<1>5. DidStartLoading(s) = IF s.isRedirect THEN ContextDidStartLoading(u)
                           ELSE IF s.didFinishLoad THEN t ELSE ContextDidStartLoading(t)
  BY <1>1 DEF DidStartLoading, t, u
<1>6. CASE s.isRedirect
  BY <1>3, <1>4, <1>5, <1>6 DEF SamePosts
<1>7. CASE ~s.isRedirect /\ s.didFinishLoad
  BY <1>1, <1>5, <1>7 DEF SamePosts
<1>8. CASE ~s.isRedirect /\ ~s.didFinishLoad
  BY <1>1, <1>4, <1>5, <1>8 DEF SamePosts
<1> QED
  BY <1>6, <1>7, <1>8, Fields

\* willSendRequest registers the URL unless it refuses it; what it refuses by the
\* exclude list is logged.
LEMMA Sends ==
  ASSUME NEW s \in LoadStates, settings \in Settings, NEW id \in Ids, NEW url \in Urls
  PROVE  /\ WillSendRequest(s, id, url) \in LoadStates
         /\ SamePosts(s, WillSendRequest(s, id, url))
         /\ SameAnswer(s, WillSendRequest(s, id, url))
         /\ WillSendRequest(s, id, url).windowLoaded = s.windowLoaded
         /\ Refuses(s, url) => WillSendRequest(s, id, url).resources = s.resources
         /\ ~Refuses(s, url) =>
              WillSendRequest(s, id, url).resources = With(s.resources, id, url)
         /\ WillSendRequest(s, id, url).response.log =
              IF settings.observer /\ ~Forbids(s, url) /\ Excluded(url)
              THEN s.response.log \cup {"exclude"} ELSE s.response.log
<1>1. CASE Forbids(s, url)
  BY <1>1 DEF WillSendRequest, Refuses, SamePosts, SameAnswer
<1>2. CASE ~Forbids(s, url) /\ Excluded(url)
  <2> DEFINE t == Observe(s, "exclude")
  <2>1. WillSendRequest(s, id, url) = t
    BY <1>2 DEF WillSendRequest
  <2>2. /\ t \in LoadStates /\ SameAnswer(s, t) /\ SamePosts(s, t) /\ SameDelegate(s, t)
        /\ t.response.log = IF settings.observer THEN s.response.log \cup {"exclude"}
                            ELSE s.response.log
    BY Observed
  <2> HIDE DEF t
  <2>3. t.resources = s.resources /\ t.windowLoaded = s.windowLoaded
    BY <2>2 DEF SameDelegate
  <2> QED
    BY <1>2, <2>1, <2>2, <2>3 DEF Refuses
<1>3. CASE ~Refuses(s, url)
  <2> DEFINE g == With(s.resources, id, url)
             t == [s EXCEPT !.resources = g]
  <2>1. WillSendRequest(s, id, url) = t
    BY <1>3 DEF WillSendRequest, Refuses
  <2>2. g \in Partial(Ids, Urls)
    BY Put, Fields
  <2> HIDE DEF g
  <2>3. t \in LoadStates /\ t.response = s.response /\ t.posts = s.posts /\ t.resources = g
        /\ t.windowLoaded = s.windowLoaded
    BY <2>2 DEF LoadStates
  <2> HIDE DEF t
  <2>4. SamePosts(s, t) /\ SameAnswer(s, t)
    BY <2>3 DEF SamePosts, SameAnswer
  <2> QED
    BY <1>3, <2>1, <2>3, <2>4 DEF g, Refuses
<1> QED
  BY <1>1, <1>2, <1>3 DEF Refuses

\* A script that runs is logged and changes nothing else here.
LEMMA RunScriptLogs ==
  ASSUME NEW s \in LoadStates, settings \in Settings, NEW runs \in BOOLEAN
  PROVE  /\ RunScript(s, runs) \in LoadStates
         /\ SamePosts(s, RunScript(s, runs)) /\ SameAnswer(s, RunScript(s, runs))
         /\ SameDelegate(s, RunScript(s, runs))
         /\ RunScript(s, runs).response.log =
              IF settings.observer /\ runs THEN s.response.log \cup {"script"}
              ELSE s.response.log
<1>1. CASE ~runs
  BY <1>1 DEF RunScript, SamePosts, SameAnswer, SameDelegate
<1>2. CASE runs
  <2>1. RunScript(s, runs) = Observe(s, "script")
    BY <1>2 DEF RunScript
  <2> QED
    BY <1>2, <2>1, Observed
<1> QED
  BY <1>1, <1>2

\* Put, of what is in flight.
LEMMA PutFlight ==
  ASSUME NEW f \in Partial(Ids, Flights), NEW id \in Ids, NEW b \in Flights
  PROVE  /\ With(f, id, b) \in Partial(Ids, Flights)
         /\ DOMAIN With(f, id, b) = DOMAIN f \cup {id}
         /\ With(f, id, b)[id] = b
         /\ \A i \in DOMAIN f : i # id => With(f, id, b)[i] = f[i]
<1>1. With(f, id, b) \in Partial(Ids, Flights)
  BY Put
<1>2. DOMAIN With(f, id, b) = DOMAIN f \cup {id}
  BY DEF With
<1>3. /\ With(f, id, b)[id] = b
      /\ \A i \in DOMAIN f : i # id => With(f, id, b)[i] = f[i]
  BY DEF With
<1> QED
  BY <1>1, <1>2, <1>3

\* A request of WebKit's keeps the registered resources those in flight, whether it
\* is sent, redirected or refused, and the log exact.
LEMMA SendForKeeps ==
  ASSUME NEW s \in LoadStates, settings \in Settings, NEW fl \in Partial(Ids, Flights),
         NEW id \in Ids, NEW url \in Urls, NEW role \in {"page", "frame", "resource"},
         NEW at \in 1..MaxPages, NEW shown, role = "page" \/ shown # 0,
         refused \in BOOLEAN, Registered(s, fl), FlightsOK(fl, received),
         SentSince(fl, at, shown), LogTells(s, ran, refused),
         SendFor(s, fl, id, url, role, at)
  PROVE  /\ load' \in LoadStates /\ OnTime(s, load') /\ SameAnswer(s, load')
         /\ flight' \in Partial(Ids, Flights)
         /\ Registered(load', flight') /\ FlightsOK(flight', received)
         /\ SentSince(flight', at, shown)
         /\ role # "page" /\ NoPage(fl) => NoPage(flight')
         /\ refused' \in BOOLEAN /\ LogTells(load', ran, refused')
<1> DEFINE w == WillSendRequest(s, id, url)
           t == DidFailResourceLoad(w, {id})
           sent == Sent(url, role, at)
           shut == ~Forbids(s, url) /\ Excluded(url)
           refuses == Refuses(s, url)
<1>1. /\ w \in LoadStates /\ SamePosts(s, w) /\ SameAnswer(s, w)
      /\ w.windowLoaded = s.windowLoaded
      /\ refuses => w.resources = s.resources
      /\ ~refuses => w.resources = With(s.resources, id, url)
      /\ w.response.log = IF settings.observer /\ shut
                          THEN s.response.log \cup {"exclude"} ELSE s.response.log
  BY Sends
<1>2. /\ refused' = (refused \/ shut)
      /\ refuses => load' = t /\ flight' = [i \in DOMAIN fl \ {id} |-> fl[i]]
      /\ ~refuses => load' = w /\ flight' = With(fl, id, sent)
  BY DEF SendFor
<1>3. ~refuses => url \notin ExcludedUrls /\ ~shut
  BY DEF Refuses, Excluded
<1>4. Reports(w, t) /\ DOMAIN t.resources = DOMAIN w.resources \ {id}
  <2> HIDE DEF w
  <2> QED
    BY <1>1, FailReports
<1>5. /\ sent \in Flights /\ sent.url = url /\ sent.received = FALSE
      /\ sent.page = at /\ sent.role = role
  BY DEF Sent, Flights
<1>6. s.resources \in Partial(Ids, Urls)
  BY Fields
<1> HIDE DEF w, t, sent, shut, refuses
<1>7. refused' \in BOOLEAN /\ LogTells(w, ran, refused')
  BY <1>1, <1>2, SettingsBoolean DEF LogTells
<1>8. CASE refuses
  <2>1. OnTime(s, t) /\ SameAnswer(s, t) /\ t \in LoadStates
    BY <1>1, <1>4 DEF OnTime, SamePosts, Reports, Kept, SameAnswer
  <2>2. flight' \in Partial(Ids, Flights)
    <3>1. [i \in DOMAIN fl \ {id} |-> fl[i]] \in Partial(Ids, Flights)
      BY Removed
    <3> QED
      BY <1>2, <1>8, <3>1
  <2>3. Registered(t, flight')
    BY <1>1, <1>2, <1>4, <1>8 DEF Registered, Reports, Kept
  <2>4. FlightsOK(flight', received)
    BY <1>2, <1>8 DEF FlightsOK
  <2>5. LogTells(t, ran, refused')
    BY <1>4, <1>7 DEF LogTells, Reports, Kept
  <2>6. SentSince(flight', at, shown) /\ (NoPage(fl) => NoPage(flight'))
    BY <1>2, <1>8 DEF SentSince, NoPage
  <2> QED
    BY <1>2, <1>7, <1>8, <2>1, <2>2, <2>3, <2>4, <2>5, <2>6
<1>9. CASE ~refuses
  <2>1. OnTime(s, w)
    BY <1>1 DEF OnTime
  <2>2. /\ flight' \in Partial(Ids, Flights) /\ DOMAIN flight' = DOMAIN fl \cup {id}
        /\ flight'[id] = sent /\ \A i \in DOMAIN fl : i # id => flight'[i] = fl[i]
    <3>1. /\ With(fl, id, sent) \in Partial(Ids, Flights)
          /\ DOMAIN With(fl, id, sent) = DOMAIN fl \cup {id}
          /\ With(fl, id, sent)[id] = sent
          /\ \A i \in DOMAIN fl : i # id => With(fl, id, sent)[i] = fl[i]
      <4>1. sent \in Flights /\ fl \in Partial(Ids, Flights) /\ id \in Ids
        BY <1>5
      <4> QED
        BY <4>1, PutFlight
    <3> QED
      BY <1>2, <1>9, <3>1
  <2>3. /\ DOMAIN w.resources = DOMAIN s.resources \cup {id}
        /\ w.resources[id] = url
        /\ \A i \in DOMAIN s.resources : i # id => w.resources[i] = s.resources[i]
    <3> DEFINE g == s.resources
    <3>1. g \in Partial(Ids, Urls)
      BY <1>6
    <3> HIDE DEF g
    <3>2. /\ DOMAIN With(g, id, url) = DOMAIN g \cup {id}
          /\ With(g, id, url)[id] = url
          /\ \A i \in DOMAIN g : i # id => With(g, id, url)[i] = g[i]
      BY <3>1, Put
    <3> QED
      BY <1>1, <1>9, <3>2 DEF g
  <2>4. Registered(w, flight')
    BY <1>5, <2>2, <2>3 DEF Registered
  <2>5. FlightsOK(flight', received)
    BY <1>3, <1>5, <1>9, <2>2 DEF FlightsOK
  <2>6. SentSince(flight', at, shown) /\ (role # "page" /\ NoPage(fl) => NoPage(flight'))
    BY <1>5, <2>2 DEF SentSince, NoPage
  <2> QED
    BY <1>1, <1>2, <1>7, <1>9, <2>1, <2>2, <2>4, <2>5, <2>6
<1> QED
  BY <1>8, <1>9

\* didReceiveResponse: m_url and m_httpCode go with the one header that is kept, and what is recorded is of
\* the page that the request was sent for.
LEMMA Receives ==
  ASSUME NEW s \in LoadStates, settings \in Settings, NEW request \in Flights,
         NEW status \in Statuses
  PROVE  /\ DidReceiveResponse(s, request, status) \in LoadStates
         /\ SamePosts(s, DidReceiveResponse(s, request, status))
         /\ SameDelegate(s, DidReceiveResponse(s, request, status))
         /\ DidReceiveResponse(s, request, status).response.log = s.response.log
         /\ DidReceiveResponse(s, request, status).response.subResources = s.response.subResources
         /\ DOMAIN DidReceiveResponse(s, request, status).response.headers
              \subseteq DOMAIN s.response.headers \cup {request.url}
         /\ OfPage(s, request.page) =>
              OfPage(DidReceiveResponse(s, request, status), request.page)
         /\ NamesHeader(s) => NamesHeader(DidReceiveResponse(s, request, status))
<1> DEFINE url == request.url
           at == request.page
           entry == [status |-> status, page |-> at]
           h == With(s.response.headers, url, entry)
           r == [s.response EXCEPT !.headers = h]
           t == [s EXCEPT !.response = r]
           q == [[r EXCEPT !.url = url] EXCEPT !.httpCode = status]
           u == [s EXCEPT !.response = q]
           w == RecordHeader(s, request, status)
           ads == w.response.adURLs \cup {[url |-> url, page |-> at]}
           p == [w.response EXCEPT !.adURLs = ads]
           z == [w EXCEPT !.response = p]
<1>0. url \in Urls /\ at \in 1..MaxPages
  BY DEF Flights
<1>1. entry \in Entries /\ entry.status = status /\ entry.page = at
  BY <1>0 DEF Entries
<1>2. w = IF ~settings.allResponse /\ DOMAIN s.response.headers # {} THEN s
          ELSE IF Cardinality(DOMAIN h) = 1 THEN u ELSE t
  BY DEF RecordHeader, LoadStates, Responses
<1> HIDE DEF url, at
<1>3. /\ h \in Partial(Urls, Entries) /\ DOMAIN h = DOMAIN s.response.headers \cup {url}
      /\ h[url] = entry
      /\ \A x \in DOMAIN s.response.headers : x # url => h[x] = s.response.headers[x]
  <2> DEFINE g == s.response.headers
  <2>1. g \in Partial(Urls, Entries)
    BY Fields
  <2> HIDE DEF g, entry
  <2>2. /\ With(g, url, entry) \in Partial(Urls, Entries)
        /\ DOMAIN With(g, url, entry) = DOMAIN g \cup {url}
        /\ With(g, url, entry)[url] = entry
        /\ \A x \in DOMAIN g : x # url => With(g, url, entry)[x] = g[x]
    BY <1>0, <1>1, <2>1, Put
  <2> QED
    BY <2>2 DEF g
<1> HIDE DEF h, entry
<1>4. r \in Responses /\ r.errorCode = s.response.errorCode /\ r.url = s.response.url
      /\ r.httpCode = s.response.httpCode /\ r.headers = h
      /\ r.adURLs = s.response.adURLs /\ r.subResources = s.response.subResources
      /\ r.log = s.response.log
  BY <1>3, Fields DEF Responses
<1> HIDE DEF r
<1>5. q \in Responses /\ q.errorCode = s.response.errorCode /\ q.url = url
      /\ q.httpCode = status /\ q.headers = h
      /\ q.adURLs = s.response.adURLs /\ q.subResources = s.response.subResources
      /\ q.log = s.response.log
  BY <1>0, <1>4 DEF Responses
<1> HIDE DEF q
<1>6. t \in LoadStates /\ t.response = r /\ t.posts = s.posts /\ SameDelegate(s, t)
  BY <1>4 DEF LoadStates, SameDelegate
<1>7. u \in LoadStates /\ u.response = q /\ u.posts = s.posts /\ SameDelegate(s, u)
  BY <1>5 DEF LoadStates, SameDelegate
<1> HIDE DEF t, u
<1>8. /\ w \in LoadStates /\ SamePosts(s, w) /\ SameDelegate(s, w)
      /\ w.response.log = s.response.log
      /\ w.response.subResources = s.response.subResources
      /\ w.response.adURLs = s.response.adURLs
      /\ w.response.headers \in {s.response.headers, h}
  BY <1>2, <1>4, <1>5, <1>6, <1>7 DEF SamePosts, SameDelegate
<1>9. NamesHeader(s) => NamesHeader(w)
  <2> SUFFICES ASSUME NamesHeader(s) PROVE NamesHeader(w)
    OBVIOUS
  <2>1. CASE ~settings.allResponse /\ DOMAIN s.response.headers # {}
    BY <1>2, <2>1
  <2>2. CASE ~settings.allResponse /\ DOMAIN s.response.headers = {}
    <3>1. DOMAIN h = {url} /\ Cardinality(DOMAIN h) = 1
      <4>1. DOMAIN h = {url}
        BY <1>3, <2>2
      <4>2. Cardinality({url}) = 1
        BY FS_Singleton
      <4> QED
        BY <4>1, <4>2
    <3>2. w = u
      BY <1>2, <2>2, <3>1
    <3>3. u.response.url \in DOMAIN u.response.headers
          /\ Cardinality(DOMAIN u.response.headers) = 1
          /\ u.response.httpCode = u.response.headers[u.response.url].status
      BY <1>1, <1>3, <1>5, <1>7, <3>1
    <3>4. NamesHeader(u)
      BY <3>3 DEF NamesHeader
    <3> QED
      BY <3>2, <3>4
  <2>3. CASE settings.allResponse
    <3>1. CASE Cardinality(DOMAIN h) = 1
      BY <1>2, <1>3, <1>5, <1>7, <2>3, <3>1 DEF NamesHeader
    <3>2. CASE Cardinality(DOMAIN h) # 1
      <4>1. DOMAIN s.response.headers # {}
        <5>1. SUFFICES ASSUME DOMAIN s.response.headers = {} PROVE Cardinality(DOMAIN h) = 1
          BY <3>2
        <5>2. DOMAIN h = {url}
          BY <1>3, <5>1
        <5>3. Cardinality({url}) = 1
          BY FS_Singleton
        <5> QED
          BY <5>2, <5>3
      <4>2. s.response.url \in DOMAIN h
        BY <1>3, <4>1 DEF NamesHeader
      <4>3. w = t
        BY <1>2, <2>3, <3>2
      <4> QED
        BY <1>4, <1>6, <2>3, <4>2, <4>3 DEF NamesHeader
    <3> QED
      BY <3>1, <3>2
  <2> QED
    BY <2>1, <2>2, <2>3, SettingsBoolean
<1>10. DidReceiveResponse(s, request, status) = IF settings.adURLs /\ status = "ad" THEN z ELSE w
  BY <1>8 DEF DidReceiveResponse, RecordAd, url, at
<1> HIDE DEF w
<1>11. [url |-> url, page |-> at] \in [url : Urls, page : 1..MaxPages]
  BY <1>0
<1>12. ads \subseteq [url : Urls, page : 1..MaxPages]
  BY <1>8, <1>11, Fields
<1>13. \A ad \in ads : ad \in s.response.adURLs \/ ad.page = at
  BY <1>8
<1> HIDE DEF ads
<1>14. p \in Responses /\ p.errorCode = w.response.errorCode /\ p.url = w.response.url
      /\ p.httpCode = w.response.httpCode /\ p.headers = w.response.headers
      /\ p.adURLs = ads /\ p.subResources = w.response.subResources
      /\ p.log = w.response.log
  BY <1>8, <1>12, Fields DEF Responses
<1> HIDE DEF p
<1>15. z \in LoadStates /\ z.response = p /\ z.posts = w.posts /\ SameDelegate(w, z)
  BY <1>8, <1>14 DEF LoadStates, SameDelegate
<1> HIDE DEF z
<1>16. NamesHeader(w) => NamesHeader(z)
  BY <1>14, <1>15 DEF NamesHeader
<1>17. OfPage(s, at) => OfPage(w, at)
  BY <1>1, <1>3, <1>8 DEF OfPage
<1>18. OfPage(s, at) => OfPage(z, at)
  BY <1>8, <1>13, <1>14, <1>15, <1>17 DEF OfPage
<1>19. DOMAIN w.response.headers \subseteq DOMAIN s.response.headers \cup {url}
  BY <1>3, <1>8
<1>20. CASE ~(settings.adURLs /\ status = "ad")
  BY <1>8, <1>9, <1>10, <1>17, <1>19, <1>20 DEF url, at
<1>21. CASE settings.adURLs /\ status = "ad"
  <2>1. SamePosts(s, z) /\ SameDelegate(s, z)
    BY <1>8, <1>14, <1>15 DEF SamePosts, SameDelegate
  <2> QED
    BY <1>8, <1>9, <1>10, <1>14, <1>15, <1>16, <1>18, <1>19, <1>21, <2>1 DEF url, at
<1> QED
  BY <1>20, <1>21

\* didFinishResourceLoad: the style sheet and the script go by the registered URL.
LEMMA Finishes ==
  ASSUME NEW s \in LoadStates, settings \in Settings, NEW id
  PROVE  LET t == DidFinishResourceLoad(s, id) IN
         /\ t \in LoadStates /\ OnTime(s, t)
         /\ t.response.url = s.response.url /\ t.response.httpCode = s.response.httpCode
         /\ t.response.headers = s.response.headers /\ t.response.adURLs = s.response.adURLs
         /\ t.loading => s.loading
         /\ s.response.subResources \subseteq t.response.subResources
         /\ t.response.subResources \subseteq s.response.subResources \cup NameOf(s, id)
         /\ DOMAIN t.resources = DOMAIN s.resources \ {id}
         /\ \A i \in DOMAIN t.resources : t.resources[i] = s.resources[i]
         /\ s.response.log \subseteq t.response.log
         /\ t.response.log \subseteq s.response.log \cup {"event"} \cup
                (IF settings.observer /\ RunsFor(s, id) # {} THEN {"script"} ELSE {})
         /\ settings.observer /\ RunsFor(s, id) # {} => "script" \in t.response.log
<1> DEFINE runs == RunsFor(s, id) # {}
           a == RunScript(s, runs)
           styles == IF settings.css THEN NameOf(s, id) \cap StyleUrls ELSE {}
           sub == a.response.subResources \cup styles
           r == [a.response EXCEPT !.subResources = sub]
           b == [a EXCEPT !.response = r]
           c == Erase(b, {id})
           t == CheckWhenEmpty(c)
<1>1. DidFinishResourceLoad(s, id) = t
  <2>1. a \in LoadStates
    BY RunScriptLogs
  <2> QED
    BY <2>1 DEF DidFinishResourceLoad, LoadStates, Responses
<1>2. NameOf(s, id) \subseteq Urls
  BY Fields, PartialOf DEF NameOf
<1>3. styles \subseteq NameOf(s, id)
  OBVIOUS
<1>4. /\ a \in LoadStates /\ SamePosts(s, a) /\ SameAnswer(s, a) /\ SameDelegate(s, a)
      /\ a.response.log = IF settings.observer /\ runs THEN s.response.log \cup {"script"}
                          ELSE s.response.log
  BY RunScriptLogs
<1> HIDE DEF a, styles, runs
<1>5. sub \subseteq Urls /\ s.response.subResources \subseteq sub
      /\ sub \subseteq s.response.subResources \cup NameOf(s, id)
  BY <1>2, <1>3, <1>4, Fields DEF SameAnswer
<1> HIDE DEF sub
<1>6. r \in Responses /\ r.errorCode = a.response.errorCode /\ r.url = a.response.url
      /\ r.httpCode = a.response.httpCode /\ r.headers = a.response.headers
      /\ r.adURLs = a.response.adURLs /\ r.subResources = sub
      /\ r.log = a.response.log
  BY <1>4, <1>5, Fields DEF Responses
<1> HIDE DEF r
<1>7. b \in LoadStates /\ b.response = r /\ b.posts = a.posts /\ SameDelegate(a, b)
  BY <1>4, <1>6 DEF LoadStates, SameDelegate
<1> HIDE DEF b
<1>8. Quiet(b, c) /\ DOMAIN c.resources = DOMAIN b.resources \ {id} /\ c \in LoadStates
  BY <1>7, Erased DEF Quiet
<1> HIDE DEF c
<1>9. Reports(c, t) /\ t.resources = c.resources
  BY <1>8, EmptyReports
<1> HIDE DEF t
<1>10. Reports(b, t)
  BY <1>8, <1>9, QuietFirst
<1>11. OnTime(s, t)
  BY <1>4, <1>6, <1>7, <1>10 DEF OnTime, Reports, SamePosts, SameDelegate
<1>12. /\ t.response.url = s.response.url /\ t.response.httpCode = s.response.httpCode
       /\ t.response.headers = s.response.headers /\ t.response.adURLs = s.response.adURLs
       /\ t.loading => s.loading
       /\ t.response.subResources = sub
  BY <1>4, <1>6, <1>7, <1>10 DEF Reports, Kept, SameAnswer, SameDelegate
<1>13. /\ DOMAIN t.resources = DOMAIN s.resources \ {id}
       /\ \A i \in DOMAIN t.resources : t.resources[i] = s.resources[i]
  BY <1>4, <1>7, <1>8, <1>9, <1>10 DEF Reports, Kept, SameDelegate
<1>14. /\ a.response.log \subseteq t.response.log
       /\ t.response.log \subseteq a.response.log \cup {"event"}
  BY <1>6, <1>7, <1>10 DEF Reports, Kept
<1>15. t \in LoadStates
  BY <1>10 DEF Reports
<1> QED
  BY <1>1, <1>4, <1>5, <1>11, <1>12, <1>13, <1>14, <1>15 DEF runs

\* The answer speaks of the same responses as before or of none.
Speaks(s, t) ==
  /\ t.response.url = s.response.url /\ t.response.httpCode = s.response.httpCode
  /\ \/ /\ t.response.headers = s.response.headers
        /\ t.response.adURLs = s.response.adURLs
     \/ /\ DOMAIN t.response.headers = {}
        /\ t.response.adURLs = {}

\* OnTime, for any number of answers.
Timely(s, t) ==
  /\ t.posts > s.posts /\ t.response.errorCode = "E_OK" /\ settings.afterWindowLoad
       => s.windowLoaded
  /\ t.windowLoaded => s.windowLoaded

\* PostedAfterOnload, of one step.
AfterOnload ==
  load'.posts > load.posts /\ load'.response.errorCode = "E_OK"
       /\ settings.afterWindowLoad /\ settings.script /\ byRedirect /\ document = page
     => [script |-> "onload", page |-> page] \in ran'

\* What is said of no more responses stays true of them.
LEMMA SpeaksKeeps ==
  ASSUME NEW s, NEW t, Speaks(s, t)
  PROVE  /\ NamesHeader(s) => NamesHeader(t)
         /\ \A p : OfPage(s, p) => OfPage(t, p)
         /\ DOMAIN t.response.headers \subseteq DOMAIN s.response.headers
  BY DEF Speaks, NamesHeader, OfPage

\* One answer in time.
LEMMA OnTimeTimely ==
  ASSUME NEW s \in LoadStates, NEW t, OnTime(s, t)
  PROVE  Timely(s, t) /\ t.posts <= s.posts + 1
  BY Fields DEF OnTime, Timely, SamePosts

\* The same responses are no more.
LEMMA SameSpeaks ==
  ASSUME NEW s, NEW t, SameAnswer(s, t)
  PROVE  Speaks(s, t)
  BY DEF Speaks, SameAnswer

\* IInv of one step, put together.
LEMMA Together ==
  ASSUME IInv, TypeInv', PageInv', FlightInv', LeftInv', settings' = settings,
         received' \cap ExcludedUrls = {}, DOMAIN load'.response.headers \subseteq received',
         load'.response.subResources \subseteq received',
         \A r \in ran' : r.script \in OwnScripts \cup received',
         OnloadInv', NamesHeader(load'), byRedirect' => OfPage(load', page'),
         LogTells(load', ran', refused')
  PROVE  IInv'
<1>1. ReceivedInv'
  BY DEF ReceivedInv, Headers
<1>2. UrlNamesHeader'
  BY DEF UrlNamesHeader, NamesHeader, Headers
<1>3. OnlySinceRedirect'
  BY DEF OnlySinceRedirect, OfPage, Headers
<1>4. LogTellsWholeLoad'
  BY DEF LogTellsWholeLoad, LogTells
<1> QED
  BY <1>1, <1>2, <1>3, <1>4 DEF IInv

\* The same from the predicates on load states.
LEMMA Parts ==
  ASSUME IInv
  PROVE  /\ NamesHeader(load) /\ (byRedirect => OfPage(load, page))
         /\ LogTells(load, ran, refused)
         /\ settings \in Settings /\ load \in LoadStates /\ load.posts \in Nat
         /\ load.posts <= MaxPosts + 1 /\ MaxPosts \in Nat
         /\ page \in Nat /\ page <= MaxPages /\ MaxPages \in Nat
         /\ document \in Nat /\ document <= page
         /\ document # 0 => page \in 1..MaxPages /\ document \in 1..MaxPages
         /\ DOMAIN flight # {} => page \in 1..MaxPages
         /\ load.loading => page \in 1..MaxPages
         /\ flight \in Partial(Ids, Flights) /\ DOMAIN flight \subseteq Ids
         /\ \A i \in DOMAIN flight : flight[i] \in Flights
         /\ Registered(load, flight) /\ FlightsOK(flight, received)
         /\ SentSince(flight, page, document)
<1>1. NamesHeader(load)
  BY DEF IInv, UrlNamesHeader, NamesHeader, Headers
<1>2. byRedirect => OfPage(load, page)
  BY DEF IInv, OnlySinceRedirect, OfPage, Headers
<1>3. LogTells(load, ran, refused)
  BY DEF IInv, LogTellsWholeLoad, LogTells
<1>4. MaxPosts \in Nat /\ MaxPages \in Nat
  BY BoundsAssumption
<1>5. settings \in Settings /\ load \in LoadStates /\ page \in 0..MaxPages
      /\ load.posts <= MaxPosts + 1 /\ flight \in Partial(Ids, Flights)
  BY DEF IInv, TypeInv
<1>6. page # 0 => page \in 1..MaxPages
  BY <1>4, <1>5
<1>7. /\ DOMAIN flight # {} => page # 0
      /\ load.loading => page # 0
  BY DEF IInv, PageInv
<1>8. DOMAIN flight \subseteq Ids /\ \A i \in DOMAIN flight : flight[i] \in Flights
  <2> DEFINE f == flight
  <2>1. f \in Partial(Ids, Flights)
    BY <1>5
  <2> HIDE DEF f
  <2>2. DOMAIN f \subseteq Ids /\ \A i \in DOMAIN f : f[i] \in Flights
    BY <2>1, PartialOf
  <2> QED
    BY <2>2 DEF f
<1>9. /\ Registered(load, flight) /\ FlightsOK(flight, received)
      /\ SentSince(flight, page, document)
  BY DEF IInv, FlightInv, LeftInv
<1>10. /\ document \in Nat /\ document <= page
       /\ document # 0 => page \in 1..MaxPages /\ document \in 1..MaxPages
  <2>1. document \in 0..page
    BY DEF IInv, TypeInv
  <2> QED
    BY <1>4, <1>5, <2>1
<1> QED
  BY <1>1, <1>2, <1>3, <1>4, <1>5, <1>6, <1>7, <1>8, <1>9, <1>10, Fields

\* A callback that sends nothing and fires no onload leaves LeftInv alone.
LEMMA LeftKeeps ==
  ASSUME IInv, UNCHANGED <<page, document, byRedirect>>,
         load'.windowLoaded => load.windowLoaded,
         \A i \in DOMAIN flight' : /\ i \in DOMAIN flight
                                   /\ flight'[i].page = flight[i].page
                                   /\ flight'[i].role = flight[i].role
  PROVE  LeftInv'
<1>1. SentSince(flight', page, document)
  BY DEF IInv, LeftInv, SentSince
<1>2. NoPage(flight) => NoPage(flight')
  BY DEF NoPage
<1> QED
  BY <1>1, <1>2 DEF IInv, LeftInv

\* A step within a page after which the answer says no more of responses.
LEMMA Within ==
  ASSUME IInv, TypeInv', PageInv', FlightInv', LeftInv',
         UNCHANGED <<settings, document, page, byRedirect>>,
         Timely(load, load'), Speaks(load, load'), received' = received,
         load'.response.subResources \subseteq received,
         ran \subseteq ran', \A r \in ran' : r.script \in OwnScripts \cup received,
         LogTells(load', ran', refused')
  PROVE  IInv' /\ AfterOnload
<1>1. NamesHeader(load') /\ (byRedirect' => OfPage(load', page'))
      /\ DOMAIN load'.response.headers \subseteq DOMAIN load.response.headers
  BY Parts, SpeaksKeeps
<1>2. received' \cap ExcludedUrls = {} /\ DOMAIN load.response.headers \subseteq received'
  BY DEF IInv, ReceivedInv, Headers
<1>3. OnloadInv'
  BY DEF IInv, OnloadInv, Timely
<1>4. AfterOnload
  BY DEF AfterOnload, IInv, OnloadInv, Timely
<1> QED
  BY <1>1, <1>2, <1>3, <1>4, Together

\* The new context and the delegate that was reset.
LEMMA InitInv == Init => IInv
<1> SUFFICES ASSUME Init PROVE IInv
  OBVIOUS
<1>1. /\ NewResponse.errorCode = "E_OK" /\ NewResponse.url = RequestUrl
      /\ NewResponse.httpCode = "unset" /\ NewResponse.headers = NoEntries
      /\ NewResponse.adURLs = {} /\ NewResponse.subResources = {} /\ NewResponse.log = {}
      /\ NewResponse = [errorCode |-> "E_OK", url |-> RequestUrl, httpCode |-> "unset",
                        headers |-> NoEntries, adURLs |-> {}, subResources |-> {}, log |-> {}]
  BY DEF NewResponse, EmptyResponse
<1>2. RequestUrl \in Urls
  BY RequestUrlAssumption DEF Urls
<1>3. /\ NoEntries \in Partial(Urls, Entries) /\ NoEntries \in Partial(Ids, Urls)
      /\ NoEntries \in Partial(Ids, Flights) /\ DOMAIN NoEntries = {}
  BY Empty
<1>4. NewResponse \in Responses
  BY <1>1, <1>2, <1>3 DEF Responses
<1>5. /\ load.loading = FALSE /\ load.resources = NoEntries /\ load.windowLoaded = FALSE
      /\ load.posts = 0 /\ load.response = NewResponse
  BY DEF Init
<1>6. settings \in Settings /\ settings.subresources \in BOOLEAN
  BY SettingsBoolean DEF Init
<1>7. load \in LoadStates
  <2>1. load = [loading |-> FALSE, resources |-> NoEntries, didFinishLoad |-> FALSE,
             windowLoaded |-> FALSE, forbidden |-> ~settings.subresources,
             isRedirect |-> FALSE, posts |-> 0, response |-> NewResponse]
    BY DEF Init
  <2> QED
    BY <1>3, <1>4, <1>6, <2>1 DEF LoadStates
<1>8. TypeInv
  <2>1. MaxPosts \in Nat /\ MaxPages \in Nat /\ MaxIdentifiers \in Nat
    BY BoundsAssumption
  <2>2. load.posts <= MaxPosts + 1 /\ page \in 0..MaxPages /\ identifiers \in 0..MaxIdentifiers
    BY <1>5, <2>1 DEF Init
  <2>3. ran \in SUBSET Scripts /\ received \in SUBSET Urls /\ answer = NoAnswer
        /\ byRedirect \in BOOLEAN /\ refused \in BOOLEAN
    BY DEF Init
  <2>5. document \in 0..page
    <3>1. document = 0 /\ page = 0
      BY DEF Init
    <3> QED
      BY <3>1
  <2>4. flight \in Partial(Ids, Flights)
    BY <1>3 DEF Init
  <2> QED
    BY <1>6, <1>7, <2>2, <2>3, <2>4, <2>5 DEF TypeInv
<1>9. PageInv /\ FlightInv /\ OnloadInv /\ LeftInv
  BY <1>1, <1>3, <1>5 DEF Init, PageInv, FlightInv, OnloadInv, LeftInv, SentSince, NoPage,
       FlightsOK, Registered, Headers
<1>10. ReceivedInv
  BY <1>1, <1>3, <1>5 DEF Init, ReceivedInv, Headers
<1>11. UrlNamesHeader /\ OnlySinceRedirect /\ LogTellsWholeLoad
  BY <1>1, <1>3, <1>5 DEF Init, UrlNamesHeader, OnlySinceRedirect, LogTellsWholeLoad, Headers
<1> QED
  BY <1>8, <1>9, <1>10, <1>11 DEF IInv

-----------------------------------------------------------------------------
(* The steps. *)

\* canHandleRequest refuses a URL.
LEMMA CannotHandleStep ==
  ASSUME IInv, Live, NEW isMain \in BOOLEAN, CannotHandle(load, isMain),
         UNCHANGED <<settings, document, ran, received, answer>>
  PROVE  IInv' /\ AfterOnload
<1> DEFINE w == Observe(load, "exclude")
<1>1. /\ settings \in Settings /\ load \in LoadStates /\ load.posts \in Nat
      /\ LogTells(load, ran, refused) /\ Registered(load, flight) /\ MaxPosts \in Nat
      /\ FlightsOK(flight, received) /\ load.posts < MaxPosts
  BY Parts DEF Live
<1>2. /\ w \in LoadStates /\ SameAnswer(load, w) /\ SamePosts(load, w) /\ SameDelegate(load, w)
      /\ w.response.log = IF settings.observer THEN load.response.log \cup {"exclude"}
                          ELSE load.response.log
  BY <1>1, Observed
<1>3. /\ load' = IF isMain THEN PostResponse(w, "E_BAD_URL") ELSE w
      /\ refused' = TRUE
      /\ UNCHANGED <<flight, identifiers, document, page, byRedirect>>
  BY DEF CannotHandle, DoResponseWithoutCheck
<1> HIDE DEF w
<1>4. Reports(w, PostResponse(w, "E_BAD_URL")) /\ Reports(w, w)
  BY <1>2, Posted, ReportsItself
<1>5. Reports(w, load')
  BY <1>3, <1>4
<1>6. load' \in LoadStates /\ OnTime(load, load') /\ SameAnswer(load, load')
  BY <1>2, <1>5 DEF Reports, Kept, OnTime, SamePosts, SameDelegate, SameAnswer
<1>7. /\ load'.windowLoaded = load.windowLoaded /\ (load'.loading => load.loading)
      /\ DOMAIN load'.resources \subseteq DOMAIN load.resources
      /\ \A i \in DOMAIN load'.resources : load'.resources[i] = load.resources[i]
      /\ w.response.log \subseteq load'.response.log
      /\ load'.response.log \subseteq w.response.log \cup {"event"}
  BY <1>2, <1>5 DEF Reports, Kept, SameDelegate
<1>8. Timely(load, load') /\ load'.posts <= load.posts + 1 /\ Speaks(load, load')
  BY <1>1, <1>6, OnTimeTimely, SameSpeaks
<1>9. TypeInv'
  <2>1. load'.posts <= MaxPosts + 1
    BY <1>1, <1>6, <1>8, Fields
  <2> QED
    BY <1>3, <1>6, <2>1 DEF IInv, TypeInv
<1>10. PageInv'
  <2> SUFFICES ASSUME page' = 0
               PROVE  /\ DOMAIN flight' = {} /\ ~load'.loading
                      /\ ~load'.windowLoaded
                      /\ DOMAIN load'.response.headers = {} /\ load'.response.adURLs = {}
    BY DEF PageInv, Headers
  <2>1. /\ DOMAIN flight = {} /\ ~load.loading /\ ~load.windowLoaded
        /\ DOMAIN load.response.headers = {} /\ load.response.adURLs = {}
    BY <1>3 DEF IInv, PageInv, Headers
  <2>2. flight' = flight
    BY <1>3
  <2>3. load'.response.headers = load.response.headers
        /\ load'.response.adURLs = load.response.adURLs
    BY <1>6 DEF SameAnswer
  <2> QED
    BY <1>7, <2>1, <2>2, <2>3
<1>11. FlightInv'
  BY <1>1, <1>3, <1>7 DEF FlightInv, Registered, FlightsOK
<1>12. LogTells(load', ran', refused')
  BY <1>1, <1>2, <1>3, <1>7 DEF LogTells
<1>13. /\ load'.response.subResources \subseteq received
       /\ \A r \in ran' : r.script \in OwnScripts \cup received
  BY <1>6 DEF IInv, ReceivedInv, SameAnswer
<1>14. LeftInv'
  BY <1>3, <1>7, LeftKeeps
<1> QED
  BY <1>3, <1>8, <1>9, <1>10, <1>11, <1>12, <1>13, <1>14, Within

\* A request that is sent, or refused, within a page.
LEMMA SendStep ==
  ASSUME IInv, Live, NEW s \in LoadStates, NEW id \in Ids, NEW url \in Urls,
         NEW role \in {"page", "frame", "resource"},
         role # "page" \/ ~NoPage(flight), role = "page" \/ document # 0,
         page # 0, SamePosts(load, s), Speaks(load, s),
         s.windowLoaded => load.windowLoaded, s.response.log = load.response.log,
         s.response.subResources = load.response.subResources, Registered(s, flight),
         SendFor(s, flight, id, url, role, page), identifiers' \in 0..MaxIdentifiers,
         UNCHANGED <<settings, document, page, byRedirect, ran, received, answer>>
  PROVE  IInv' /\ AfterOnload
<1>1. /\ settings \in Settings /\ load \in LoadStates /\ load.posts \in Nat
      /\ LogTells(load, ran, refused) /\ MaxPosts \in Nat
      /\ FlightsOK(flight, received) /\ flight \in Partial(Ids, Flights)
      /\ SentSince(flight, page, document) /\ page \in 1..MaxPages
      /\ load.posts < MaxPosts
  BY Parts DEF Live
<1>2. LogTells(s, ran, refused) /\ refused \in BOOLEAN
  BY <1>1 DEF LogTells, IInv, TypeInv
<1>3. /\ load' \in LoadStates /\ OnTime(s, load') /\ SameAnswer(s, load')
      /\ flight' \in Partial(Ids, Flights)
      /\ Registered(load', flight') /\ FlightsOK(flight', received)
      /\ SentSince(flight', page, document)
      /\ role # "page" /\ NoPage(flight) => NoPage(flight')
      /\ refused' \in BOOLEAN /\ LogTells(load', ran, refused')
  BY <1>1, <1>2, SendForKeeps
<1>4. OnTime(load, load')
  BY <1>3 DEF OnTime, SamePosts
<1>5. Timely(load, load') /\ load'.posts <= load.posts + 1
  BY <1>1, <1>4, OnTimeTimely
<1>6. Speaks(load, load')
  BY <1>3 DEF Speaks, SameAnswer
<1>7. TypeInv'
  <2>1. load'.posts <= MaxPosts + 1
    BY <1>1, <1>3, <1>5, Fields
  <2> QED
    BY <1>3, <2>1 DEF IInv, TypeInv
<1>8. PageInv' /\ FlightInv' /\ LogTells(load', ran', refused')
  BY <1>3 DEF PageInv, FlightInv
<1>9. /\ load'.response.subResources \subseteq received
      /\ \A r \in ran' : r.script \in OwnScripts \cup received
  BY <1>3 DEF IInv, ReceivedInv, SameAnswer
<1>10. LeftInv'
  BY <1>3, <1>5 DEF IInv, LeftInv, Timely
<1> QED
  BY <1>5, <1>6, <1>7, <1>8, <1>9, <1>10, Within

\* A redirect that was announced and the first page find nothing that was
\* received and no onload.
LEMMA StartPageStep ==
  ASSUME IInv, NEW url \in PageUrls, StartPage(url)
  PROVE  IInv' /\ AfterOnload
<1>1. CASE CannotHandle(load, TRUE)
  BY <1>1, CannotHandleStep DEF StartPage
<1>2. CASE ~CannotHandle(load, TRUE)
  <2> DEFINE a == DidFailResourceLoad(load, DOMAIN flight)
             b == DidStartLoading(a)
  <2>1. /\ Live /\ page < MaxPages /\ identifiers < MaxIdentifiers
        /\ page' = page + 1 /\ byRedirect' = (page = 0 \/ load.isRedirect)
        /\ identifiers' = identifiers + 1
        /\ SendFor(b, NoEntries, identifiers', url, "page", page')
        /\ UNCHANGED <<settings, document, ran, received, answer>>
    BY <1>2 DEF StartPage
  <2>2. /\ settings \in Settings /\ load \in LoadStates /\ load.posts \in Nat
        /\ LogTells(load, ran, refused) /\ MaxPosts \in Nat
        /\ load.posts < MaxPosts /\ Registered(load, flight)
        /\ NamesHeader(load) /\ page \in Nat /\ MaxPages \in Nat
    BY <2>1, Parts DEF Live
  <2>3. Reports(load, a) /\ DOMAIN a.resources = DOMAIN load.resources \ DOMAIN flight
    BY <2>2, FailReports
  <2> HIDE DEF a
  <2>4. a \in LoadStates /\ DOMAIN a.resources = {} /\ Kept(load, a) /\ OnTime(load, a)
    BY <2>2, <2>3 DEF Reports, Registered
  <2>5. /\ b \in LoadStates /\ SamePosts(a, b) /\ (b.windowLoaded => a.windowLoaded)
        /\ b.resources = a.resources \/ b.resources = NoEntries
        /\ b.response.url = a.response.url /\ b.response.httpCode = a.response.httpCode
        /\ b.response.subResources = a.response.subResources
        /\ b.response.log = a.response.log
        /\ \/ b.response.headers = a.response.headers /\ b.response.adURLs = a.response.adURLs
           \/ b.response.headers = NoEntries /\ b.response.adURLs = {}
        /\ a.isRedirect => /\ ~b.windowLoaded
                           /\ b.response.headers = NoEntries /\ b.response.adURLs = {}
    BY <2>4, StartsLoading
  <2> HIDE DEF b
  <2>6. DOMAIN NoEntries = {} /\ NoEntries \in Partial(Ids, Flights)
    BY Empty
  <2>7. /\ Registered(b, NoEntries) /\ FlightsOK(NoEntries, received)
        /\ SentSince(NoEntries, page', document)
    BY <2>4, <2>5, <2>6 DEF Registered, FlightsOK, SentSince
  <2>8. LogTells(b, ran, refused) /\ refused \in BOOLEAN
    BY <2>2, <2>4, <2>5 DEF LogTells, Kept, IInv, TypeInv
  <2>9. identifiers' \in Ids /\ identifiers' \in 0..MaxIdentifiers /\ url \in Urls
        /\ page' \in 1..MaxPages
    BY <2>1, <2>2, BoundsAssumption DEF IInv, TypeInv, Ids, Urls
  <2>10. /\ load' \in LoadStates /\ OnTime(b, load') /\ SameAnswer(b, load')
         /\ flight' \in Partial(Ids, Flights)
         /\ Registered(load', flight') /\ FlightsOK(flight', received)
         /\ SentSince(flight', page', document)
         /\ refused' \in BOOLEAN /\ LogTells(load', ran, refused')
    BY <2>1, <2>2, <2>5, <2>6, <2>7, <2>8, <2>9, SendForKeeps
  <2>11. Speaks(load, load')
    BY <2>4, <2>5, <2>6, <2>10 DEF Speaks, SameAnswer, Kept
  <2>12. Timely(load, load') /\ load'.posts <= load.posts + 2
    BY <2>2, <2>4, <2>5, <2>10, Fields DEF OnTime, SamePosts, Timely
  <2>13. TypeInv'
    <3>1. load'.posts <= MaxPosts + 1
      BY <2>2, <2>10, <2>12, Fields
    <3>2. byRedirect' \in BOOLEAN /\ page' \in 0..MaxPages /\ document' \in 0..page'
      <4>1. document \in Nat /\ document <= page
        BY Parts
      <4> QED
        BY <2>1, <2>2, <2>9, <4>1, Fields
    <3> QED
      BY <2>1, <2>9, <2>10, <3>1, <3>2 DEF IInv, TypeInv
  <2>14. PageInv' /\ FlightInv'
    BY <2>1, <2>9, <2>10 DEF PageInv, FlightInv
  <2>15. byRedirect' => ~load'.windowLoaded /\ OfPage(load', page')
    <3> SUFFICES ASSUME byRedirect' PROVE ~load'.windowLoaded /\ OfPage(load', page')
      OBVIOUS
    <3>1. CASE load.isRedirect
      BY <2>4, <2>5, <2>6, <2>10, <3>1 DEF Kept, OnTime, SameAnswer, OfPage
    <3>2. CASE page = 0
      <4>1. ~load.windowLoaded /\ DOMAIN load.response.headers = {} /\ load.response.adURLs = {}
        BY <3>2 DEF IInv, PageInv, Headers
      <4> QED
        BY <2>11, <2>12, <4>1 DEF Speaks, Timely, OfPage
    <3> QED
      BY <2>1, <3>1, <3>2
  <2>16. OnloadInv' /\ LeftInv'
    BY <2>1, <2>10, <2>15 DEF OnloadInv, LeftInv
  <2>17. /\ NamesHeader(load')
         /\ DOMAIN load'.response.headers \subseteq DOMAIN load.response.headers
    BY <2>2, <2>11, SpeaksKeeps
  <2>18. /\ received' \cap ExcludedUrls = {} /\ DOMAIN load'.response.headers \subseteq received'
         /\ load'.response.subResources \subseteq received'
         /\ \A r \in ran' : r.script \in OwnScripts \cup received'
    BY <2>1, <2>4, <2>5, <2>10, <2>17 DEF IInv, ReceivedInv, Headers, Kept, SameAnswer
  <2>19. AfterOnload
    BY <2>1, <2>12 DEF IInv, OnloadInv, AfterOnload, Timely
  <2>20. LogTells(load', ran', refused') /\ settings' = settings
    BY <2>1, <2>10
  <2> QED
    BY <2>13, <2>14, <2>15, <2>16, <2>17, <2>18, <2>19, <2>20, Together
<1> QED
  BY <1>1, <1>2

\* A subframe's document; when nothing was loading, didStartLoading comes first.
LEMMA StartFrameStep ==
  ASSUME IInv, NEW url \in FrameUrls, StartFrame(url)
  PROVE  IInv' /\ AfterOnload
<1>1. CASE CannotHandle(load, FALSE)
  BY <1>1, CannotHandleStep DEF StartFrame
<1>2. CASE ~CannotHandle(load, FALSE)
  <2> DEFINE s == IF load.loading THEN load ELSE DidStartLoading(load)
  <2>1. /\ Live /\ document # 0 /\ identifiers < MaxIdentifiers
        /\ identifiers' = identifiers + 1
        /\ SendFor(s, flight, identifiers', url, "frame", page)
        /\ UNCHANGED <<settings, document, page, byRedirect, ran, received, answer>>
    BY <1>2 DEF StartFrame
  <2>2. load \in LoadStates /\ page # 0 /\ Registered(load, flight)
    BY <2>1, Parts
  <2>3. DOMAIN NoEntries = {}
    BY Empty
  <2>4. /\ s \in LoadStates /\ SamePosts(load, s) /\ Speaks(load, s)
        /\ s.windowLoaded => load.windowLoaded
        /\ s.response.log = load.response.log
        /\ s.response.subResources = load.response.subResources
        /\ s.resources = load.resources \/ s.resources = NoEntries
    <3>1. CASE load.loading
      BY <2>2, <3>1 DEF SamePosts, Speaks
    <3>2. CASE ~load.loading
      BY <2>2, <2>3, <3>2, StartsLoading DEF Speaks
    <3> QED
      BY <3>1, <3>2
  <2> HIDE DEF s
  <2>5. Registered(s, flight)
    BY <2>2, <2>3, <2>4 DEF Registered
  <2>6. identifiers' \in Ids /\ identifiers' \in 0..MaxIdentifiers /\ url \in Urls
    BY <2>1, BoundsAssumption DEF IInv, TypeInv, Ids, Urls
  <2> QED
    BY <2>1, <2>2, <2>4, <2>5, <2>6, SendStep
<1> QED
  BY <1>1, <1>2

\* A resource of the page.
LEMMA SendForResourceStep ==
  ASSUME IInv, NEW url \in ResourceUrls, SendForResource(url)
  PROVE  IInv' /\ AfterOnload
<1>1. /\ Live /\ document # 0 /\ identifiers < MaxIdentifiers
      /\ identifiers' = identifiers + 1
      /\ SendFor(load, flight, identifiers', url, "resource", page)
      /\ UNCHANGED <<settings, document, page, byRedirect, ran, received, answer>>
  BY DEF SendForResource
<1>2. load \in LoadStates /\ page # 0 /\ Registered(load, flight)
  BY <1>1, Parts
<1>3. identifiers' \in Ids /\ identifiers' \in 0..MaxIdentifiers /\ url \in Urls
  BY <1>1, BoundsAssumption DEF IInv, TypeInv, Ids, Urls
<1>4. SamePosts(load, load) /\ Speaks(load, load)
  BY DEF SamePosts, Speaks
<1> QED
  BY <1>1, <1>2, <1>3, <1>4, SendStep

\* A server's redirect registers the resource under its new URL.
LEMMA ServerRedirectStep ==
  ASSUME IInv, NEW id \in DOMAIN flight, NEW url \in Urls, ServerRedirect(id, url)
  PROVE  IInv' /\ AfterOnload
<1>1. /\ Live /\ SendFor(load, flight, id, url, flight[id].role, flight[id].page)
      /\ UNCHANGED <<settings, identifiers, document, page, byRedirect, ran, received, answer>>
  BY DEF ServerRedirect
<1>2. /\ load \in LoadStates /\ page # 0 /\ Registered(load, flight)
      /\ flight[id] \in Flights /\ id \in Ids /\ SentSince(flight, page, document)
  BY Parts
<1>3. flight[id].role \in {"page", "frame", "resource"}
  BY <1>2 DEF Flights
<1>4. identifiers' \in 0..MaxIdentifiers
  BY <1>1 DEF IInv, TypeInv
<1>5. SamePosts(load, load) /\ Speaks(load, load)
  BY DEF SamePosts, Speaks
<1>6. /\ flight[id].page = page /\ (flight[id].role = "page" \/ document # 0)
      /\ flight[id].role # "page" \/ ~NoPage(flight)
  BY <1>2 DEF SentSince, NoPage
<1> QED
  BY <1>1, <1>2, <1>3, <1>4, <1>5, <1>6, SendStep

\* A response: the header and the advertisement are of this page.
LEMMA ReceiveResponseStep ==
  ASSUME IInv, NEW id \in DOMAIN flight, NEW status \in Statuses, ReceiveResponse(id, status)
  PROVE  IInv' /\ AfterOnload
<1> DEFINE url == flight[id].url
           request == flight[id]
           t == DidReceiveResponse(load, request, status)
<1>1. /\ load' = t /\ flight' = [flight EXCEPT ![id].received = TRUE]
      /\ received' = received \cup {url}
      /\ UNCHANGED <<settings, identifiers, document, page, byRedirect, ran, refused, answer>>
  BY DEF ReceiveResponse
<1>2. /\ load \in LoadStates /\ settings \in Settings /\ page \in 1..MaxPages
      /\ Registered(load, flight) /\ FlightsOK(flight, received)
      /\ DOMAIN flight \subseteq Ids /\ id \in Ids
      /\ \A i \in DOMAIN flight : flight[i] \in Flights
      /\ NamesHeader(load) /\ (byRedirect => OfPage(load, page))
      /\ LogTells(load, ran, refused) /\ SentSince(flight, page, document)
  BY Parts
<1>3. /\ flight[id] \in Flights /\ url \in Urls /\ url \notin ExcludedUrls
      /\ request \in Flights /\ request.url = url /\ request.page = page
  BY <1>2 DEF Flights, FlightsOK, SentSince
<1> HIDE DEF url, request
<1>4. /\ t \in LoadStates /\ SamePosts(load, t) /\ SameDelegate(load, t)
      /\ t.response.log = load.response.log
      /\ t.response.subResources = load.response.subResources
      /\ DOMAIN t.response.headers \subseteq DOMAIN load.response.headers \cup {url}
      /\ OfPage(load, page) => OfPage(t, page)
      /\ NamesHeader(load) => NamesHeader(t)
  BY <1>2, <1>3, Receives
<1> HIDE DEF t
<1>5. /\ DOMAIN flight' = DOMAIN flight
      /\ \A i \in DOMAIN flight : /\ flight'[i] \in Flights
                                  /\ flight'[i].url = flight[i].url
                                  /\ flight'[i].role = flight[i].role
                                  /\ flight'[i].page = flight[i].page
                                  /\ i # id => flight'[i].received = flight[i].received
  <2> DEFINE f == [flight[id] EXCEPT !.received = TRUE]
  <2>1. /\ f \in Flights /\ f.url = flight[id].url
        /\ f.role = flight[id].role /\ f.page = flight[id].page
    BY <1>3 DEF Flights
  <2>2. flight' = [flight EXCEPT ![id] = f]
    BY <1>1
  <2> HIDE DEF f
  <2>3. DOMAIN flight' = DOMAIN flight /\ flight'[id] = f
        /\ \A i \in DOMAIN flight : i # id => flight'[i] = flight[i]
    BY <2>2
  <2>4. \A i \in DOMAIN flight : flight[i] \in Flights
    BY <1>2
  <2> QED
    BY <2>1, <2>3, <2>4
<1>6. flight' \in Partial(Ids, Flights)
  <2>1. DOMAIN flight \in SUBSET Ids
    BY <1>2
  <2>2. flight' = [i \in DOMAIN flight |-> flight'[i]]
    BY <1>1, <1>5
  <2>3. flight' \in [DOMAIN flight -> Flights]
    BY <1>5, <2>2
  <2> QED
    BY <2>1, <2>3 DEF Partial
<1>7. TypeInv'
  <2>1. load'.posts <= MaxPosts + 1 /\ received' \in SUBSET Urls
    BY <1>1, <1>3, <1>4 DEF SamePosts, IInv, TypeInv
  <2> QED
    BY <1>1, <1>4, <1>6, <2>1 DEF IInv, TypeInv
<1>8. PageInv'
  BY <1>1, <1>2 DEF PageInv
<1>9. FlightInv'
  <2>1. FlightsOK(flight', received')
    BY <1>1, <1>2, <1>5 DEF FlightsOK, url
  <2>2. Registered(load', flight')
    BY <1>1, <1>2, <1>4, <1>5 DEF Registered, SameDelegate
  <2> QED
    BY <2>1, <2>2 DEF FlightInv
<1>10. received' \cap ExcludedUrls = {} /\ DOMAIN load'.response.headers \subseteq received'
       /\ load'.response.subResources \subseteq received'
       /\ \A r \in ran' : r.script \in OwnScripts \cup received'
  BY <1>1, <1>3, <1>4 DEF IInv, ReceivedInv, Headers
<1>11. OnloadInv'
  BY <1>1, <1>4 DEF IInv, OnloadInv, SameDelegate
<1>12. LogTells(load', ran', refused')
  BY <1>1, <1>2, <1>4 DEF LogTells
<1>13. NamesHeader(load')
  <2>1. NamesHeader(t)
    BY <1>2, <1>4
  <2> QED
    BY <1>1, <2>1 DEF NamesHeader
<1>14. byRedirect' => OfPage(load', page')
  BY <1>1, <1>2, <1>4 DEF OfPage
<1>15. AfterOnload
  BY <1>1, <1>2, <1>4, Fields DEF AfterOnload, SamePosts
<1>16. LeftInv'
  BY <1>1, <1>4, <1>5, LeftKeeps DEF SameDelegate
<1> QED
  BY <1>1, <1>7, <1>8, <1>9, <1>10, <1>11, <1>12, <1>13, <1>14, <1>15, <1>16, Together

\* A resource that fails.
LEMMA FailResourceStep ==
  ASSUME IInv, NEW id \in DOMAIN flight, FailResource(id)
  PROVE  IInv' /\ AfterOnload
<1> DEFINE t == DidFailResourceLoad(load, {id})
<1>1. /\ Live /\ load' = t
      /\ flight' = [i \in DOMAIN flight \ {id} |-> flight[i]]
      /\ UNCHANGED <<settings, identifiers, document, page, byRedirect, ran, received, refused,
                     answer>>
  BY DEF FailResource, history
<1>2. /\ load \in LoadStates /\ load.posts \in Nat /\ settings \in Settings /\ page # 0
      /\ Registered(load, flight) /\ FlightsOK(flight, received)
      /\ flight \in Partial(Ids, Flights) /\ LogTells(load, ran, refused)
      /\ MaxPosts \in Nat
  BY Parts
<1>3. Reports(load, t) /\ DOMAIN t.resources = DOMAIN load.resources \ {id}
  BY <1>2, FailReports
<1> HIDE DEF t
<1>4. t \in LoadStates /\ OnTime(load, t) /\ SameAnswer(load, t)
  BY <1>3 DEF Reports, Kept
<1>5. Timely(load, load') /\ load'.posts <= load.posts + 1 /\ Speaks(load, load')
  BY <1>1, <1>2, <1>4, OnTimeTimely, SameSpeaks
<1>6. flight' \in Partial(Ids, Flights)
  <2>1. [i \in DOMAIN flight \ {id} |-> flight[i]] \in Partial(Ids, Flights)
    BY <1>2, Removed
  <2> QED
    BY <1>1, <2>1
<1>7. TypeInv'
  <2>1. load'.posts <= MaxPosts + 1
    BY <1>1, <1>2, <1>4, <1>5, Fields DEF Live
  <2> QED
    BY <1>1, <1>4, <1>6, <2>1 DEF IInv, TypeInv
<1>8. PageInv'
  BY <1>1, <1>2 DEF PageInv
<1>9. FlightInv'
  BY <1>1, <1>2, <1>3 DEF FlightInv, FlightsOK, Registered, Reports, Kept
<1>10. LogTells(load', ran', refused')
  BY <1>1, <1>2, <1>3 DEF LogTells, Reports, Kept
<1>11. /\ load'.response.subResources \subseteq received
       /\ \A r \in ran' : r.script \in OwnScripts \cup received
  BY <1>1, <1>4 DEF IInv, ReceivedInv, SameAnswer
<1>12. LeftInv'
  BY <1>1, <1>5, LeftKeeps DEF Timely
<1> QED
  BY <1>1, <1>5, <1>7, <1>8, <1>9, <1>10, <1>11, <1>12, Within

\* The commit: what the left document has sent since fails, and its onload, if it
\* was fired for the page, is none of the page's.
LEMMA CommitPageStep ==
  ASSUME IInv, NEW id \in DOMAIN flight, CommitPage(id)
  PROVE  IInv' /\ AfterOnload
<1> DEFINE ids == DOMAIN flight \ {id}
           t == DidFailResourceLoad(load, ids)
<1>1. /\ Live /\ load' = t /\ flight' = [i \in {id} |-> flight[i]]
      /\ flight[id].role = "page" /\ document # page /\ document' = page
      /\ UNCHANGED <<settings, identifiers, page, byRedirect, ran, received, refused, answer>>
  BY DEF CommitPage, history
<1>2. /\ load \in LoadStates /\ load.posts \in Nat /\ settings \in Settings
      /\ page # 0 /\ page \in Nat
      /\ Registered(load, flight) /\ FlightsOK(flight, received)
      /\ SentSince(flight, page, document) /\ NamesHeader(load)
      /\ byRedirect => OfPage(load, page)
      /\ flight[id] \in Flights /\ id \in Ids /\ LogTells(load, ran, refused)
      /\ MaxPosts \in Nat
  BY Parts
<1>3. Reports(load, t) /\ DOMAIN t.resources = DOMAIN load.resources \ ids
  <2> HIDE DEF ids
  <2> QED
    BY <1>2, FailReports
<1> HIDE DEF t
<1>4. t \in LoadStates /\ OnTime(load, t) /\ SameAnswer(load, t)
  BY <1>3 DEF Reports, Kept
<1>5. Timely(load, load') /\ load'.posts <= load.posts + 1 /\ Speaks(load, load')
  BY <1>1, <1>2, <1>4, OnTimeTimely, SameSpeaks
<1>6. flight' \in Partial(Ids, Flights)
  <2>1. {id} \in SUBSET Ids /\ flight' \in [{id} -> Flights]
    BY <1>1, <1>2
  <2> QED
    BY <2>1 DEF Partial
<1>7. TypeInv'
  <2>1. load'.posts <= MaxPosts + 1
    BY <1>1, <1>2, <1>4, <1>5, Fields DEF Live
  <2>2. document' \in 0..page'
    BY <1>1, <1>2
  <2> QED
    BY <1>1, <1>4, <1>6, <2>1, <2>2 DEF IInv, TypeInv
<1>8. PageInv'
  BY <1>1, <1>2 DEF PageInv
<1>9. FlightInv'
  BY <1>1, <1>2, <1>3 DEF FlightInv, FlightsOK, Registered, Reports, Kept
<1>10. LogTells(load', ran', refused')
  BY <1>1, <1>2, <1>3 DEF LogTells, Reports, Kept
<1>11. /\ received' \cap ExcludedUrls = {} /\ DOMAIN load'.response.headers \subseteq received'
       /\ load'.response.subResources \subseteq received'
       /\ \A r \in ran' : r.script \in OwnScripts \cup received'
  BY <1>1, <1>4 DEF IInv, ReceivedInv, SameAnswer, Headers
<1>12. OnloadInv'
  <2>1. ~NoPage(flight)
    BY <1>1 DEF NoPage
  <2>2. ~(byRedirect /\ load.windowLoaded)
    BY <1>1, <2>1 DEF IInv, LeftInv
  <2> QED
    BY <1>1, <1>5, <2>2 DEF OnloadInv, Timely
<1>13. LeftInv'
  BY <1>1, <1>2 DEF LeftInv, SentSince
<1>14. /\ NamesHeader(load') /\ (byRedirect' => OfPage(load', page'))
  BY <1>1, <1>2, <1>5, SpeaksKeeps
<1>15. AfterOnload
  BY <1>1 DEF AfterOnload
<1> QED
  BY <1>1, <1>7, <1>8, <1>9, <1>10, <1>11, <1>12, <1>13, <1>14, <1>15, Together

\* A resource that ends: its script and its style sheet go by the URL that
\* responded.
LEMMA FinishResourceStep ==
  ASSUME IInv, NEW id \in DOMAIN flight, FinishResource(id)
  PROVE  IInv' /\ AfterOnload
<1> DEFINE t == DidFinishResourceLoad(load, id)
           names == NameOf(load, id)
           runs == RunsFor(load, id)
           new == {[script |-> u, page |-> document] : u \in runs}
<1>1. /\ Live /\ flight[id].received /\ load' = t /\ ran' = ran \cup new
      /\ flight[id].role = "page" => document = page
      /\ flight' = [i \in DOMAIN flight \ {id} |-> flight[i]]
      /\ UNCHANGED <<settings, identifiers, document, page, byRedirect, received, refused,
                     answer>>
  BY DEF FinishResource
<1>2. /\ load \in LoadStates /\ load.posts \in Nat /\ settings \in Settings
      /\ page \in 1..MaxPages /\ page # 0
      /\ Registered(load, flight) /\ FlightsOK(flight, received)
      /\ flight \in Partial(Ids, Flights) /\ LogTells(load, ran, refused)
      /\ MaxPosts \in Nat /\ SentSince(flight, page, document)
      /\ document # 0 => document \in 1..MaxPages
  BY Parts
<1>15. document \in 1..MaxPages
  BY <1>1, <1>2 DEF SentSince
<1>3. names \subseteq {flight[id].url} /\ flight[id].url \in received /\ runs \subseteq names
  BY <1>1, <1>2 DEF NameOf, Registered, FlightsOK, RunsFor
<1>4. /\ t \in LoadStates /\ OnTime(load, t)
      /\ t.response.url = load.response.url /\ t.response.httpCode = load.response.httpCode
      /\ t.response.headers = load.response.headers /\ t.response.adURLs = load.response.adURLs
      /\ t.response.subResources \subseteq load.response.subResources \cup names
      /\ DOMAIN t.resources = DOMAIN load.resources \ {id}
      /\ \A i \in DOMAIN t.resources : t.resources[i] = load.resources[i]
      /\ load.response.log \subseteq t.response.log
      /\ t.response.log \subseteq load.response.log \cup {"event"} \cup
                (IF settings.observer /\ runs # {} THEN {"script"} ELSE {})
      /\ settings.observer /\ runs # {} => "script" \in t.response.log
  BY <1>2, Finishes
<1>5. received \in SUBSET Urls
  BY DEF IInv, TypeInv
<1>6. new \subseteq Scripts /\ (\A r \in new : r.script \in received) /\ (new = {} <=> runs = {})
  <2>1. runs \subseteq received /\ runs \subseteq Urls
    BY <1>3, <1>5
  <2> HIDE DEF runs
  <2>2. \A r \in new : \E u \in runs : r = [script |-> u, page |-> document]
    OBVIOUS
  <2>3. new \subseteq Scripts
    BY <1>15, <2>1, <2>2 DEF Scripts
  <2>4. \A r \in new : r.script \in received
    BY <2>1, <2>2
  <2>5. \A u \in runs : [script |-> u, page |-> document] \in new
    OBVIOUS
  <2>6. new = {} <=> runs = {}
    BY <2>2, <2>5
  <2> QED
    BY <2>3, <2>4, <2>6
<1> HIDE DEF t, names, runs, new
<1>7. Timely(load, load') /\ load'.posts <= load.posts + 1 /\ Speaks(load, load')
  BY <1>1, <1>2, <1>4, OnTimeTimely DEF Speaks
<1>8. flight' \in Partial(Ids, Flights)
  <2>1. [i \in DOMAIN flight \ {id} |-> flight[i]] \in Partial(Ids, Flights)
    BY <1>2, Removed
  <2> QED
    BY <1>1, <2>1
<1>9. TypeInv'
  <2>1. load'.posts <= MaxPosts + 1
    BY <1>1, <1>2, <1>4, <1>7, Fields DEF Live
  <2>2. ran' \in SUBSET Scripts
    BY <1>1, <1>6 DEF IInv, TypeInv
  <2> QED
    BY <1>1, <1>4, <1>8, <2>1, <2>2 DEF IInv, TypeInv
<1>10. PageInv'
  BY <1>1, <1>2 DEF PageInv
<1>11. FlightInv'
  BY <1>1, <1>2, <1>4 DEF FlightInv, FlightsOK, Registered
<1>12. LogTells(load', ran', refused')
  <2>1. ran' = {} <=> ran = {} /\ runs = {}
    BY <1>1, <1>6
  <2> QED
    BY <1>1, <1>2, <1>4, <2>1 DEF LogTells
<1>13. /\ load'.response.subResources \subseteq received
       /\ \A r \in ran' : r.script \in OwnScripts \cup received
  BY <1>1, <1>3, <1>4, <1>6 DEF IInv, ReceivedInv
<1>14. ran \subseteq ran'
  BY <1>1
<1>16. LeftInv'
  BY <1>1, <1>7, LeftKeeps DEF Timely
<1> QED
  BY <1>1, <1>7, <1>9, <1>10, <1>11, <1>12, <1>13, <1>14, <1>16, Within

\* What holds after each callback that changes nothing but the load.
LEMMA Reported ==
  ASSUME IInv, page # 0, NEW next \in LoadStates, NEW scripts \in SUBSET OwnScripts,
         Report(next, scripts), scripts = {} \/ document # 0, next.posts <= MaxPosts + 1, Registered(next, flight)
  PROVE  /\ TypeInv' /\ PageInv' /\ FlightInv'
         /\ load' = next
         /\ UNCHANGED <<settings, flight, document, page, byRedirect, received, refused>>
         /\ ran \subseteq ran' /\ \A r \in ran' : r.script \in OwnScripts \cup received
         /\ ran' = {} <=> ran = {} /\ (scripts = {} \/ ~settings.script)
<1>1. /\ load' = next
      /\ ran' = ran \cup (IF settings.script THEN [script : scripts, page : {document}] ELSE {})
      /\ UNCHANGED <<settings, flight, identifiers, document, page, byRedirect, received, refused,
                     answer>>
  BY DEF Report
<1>2. document # 0 => document \in 1..MaxPages
  BY Parts
<1>3. [script : scripts, page : {document}] \subseteq Scripts
  BY <1>2 DEF Scripts
<1>4. \A r \in [script : scripts, page : {document}] : r.script \in OwnScripts
  OBVIOUS
<1>5. [script : scripts, page : {document}] = {} <=> scripts = {}
  <2>1. ASSUME NEW x \in scripts
        PROVE  [script |-> x, page |-> document] \in [script : scripts, page : {document}]
    OBVIOUS
  <2> QED
    BY <2>1
<1>6. TypeInv'
  BY <1>1, <1>3 DEF IInv, TypeInv
<1>7. PageInv' /\ FlightInv'
  BY <1>1 DEF PageInv, FlightInv, IInv, FlightsOK, Registered
<1>8. \A r \in ran : r.script \in OwnScripts \cup received
  BY DEF IInv, ReceivedInv
<1> HIDE DEF Report
<1> QED
  BY <1>1, <1>4, <1>5, <1>6, <1>7, <1>8

\* Such a callback that says no more of responses and is not onload.
LEMMA ReportStep ==
  ASSUME IInv, Live, page # 0, NEW next, NEW scripts \in SUBSET OwnScripts,
         scripts = {} \/ document # 0, Report(next, scripts), next \in LoadStates, OnTime(load, next),
         SameAnswer(load, next), Registered(next, flight),
         /\ load.response.log \subseteq next.response.log
         /\ next.response.log \subseteq load.response.log \cup {"event", "script"},
         settings.observer =>
           ("script" \in next.response.log
              <=> "script" \in load.response.log \/ (scripts # {} /\ settings.script))
  PROVE  IInv' /\ AfterOnload
<1>1. /\ load \in LoadStates /\ load.posts \in Nat /\ MaxPosts \in Nat
      /\ settings \in Settings /\ LogTells(load, ran, refused)
  BY Parts
<1>2. Timely(load, next) /\ next.posts <= load.posts + 1 /\ Speaks(load, next)
  BY <1>1, OnTimeTimely, SameSpeaks
<1>3. next.posts <= MaxPosts + 1
  BY <1>1, <1>2, Fields DEF Live
<1>4. /\ TypeInv' /\ PageInv' /\ FlightInv' /\ load' = next
      /\ UNCHANGED <<settings, flight, document, page, byRedirect, received, refused>>
      /\ ran \subseteq ran' /\ \A r \in ran' : r.script \in OwnScripts \cup received
      /\ ran' = {} <=> ran = {} /\ (scripts = {} \/ ~settings.script)
  BY <1>3, Reported
<1>5. LogTells(load', ran', refused')
  BY <1>1, <1>4, SettingsBoolean DEF LogTells
<1>6. load'.response.subResources \subseteq received
  BY <1>4 DEF IInv, ReceivedInv, SameAnswer
<1>7. LeftInv'
  BY <1>2, <1>4, LeftKeeps DEF Timely
<1> QED
  BY <1>2, <1>4, <1>5, <1>6, <1>7, Within

\* DidCreateScriptContext and DidFinishDocumentLoad run the request's script.
LEMMA ScriptStep ==
  ASSUME IInv, Live, document # 0, NEW x \in OwnScripts,
         Report(RunScript(load, settings.script), {x})
  PROVE  IInv' /\ AfterOnload
<1> DEFINE t == RunScript(load, settings.script)
<1>1. /\ load \in LoadStates /\ settings \in Settings /\ page # 0 /\ Registered(load, flight)
      /\ settings.script \in BOOLEAN
  BY Parts, SettingsBoolean
<1>2. /\ t \in LoadStates /\ SamePosts(load, t) /\ SameAnswer(load, t)
      /\ SameDelegate(load, t)
      /\ t.response.log = IF settings.observer /\ settings.script
                          THEN load.response.log \cup {"script"} ELSE load.response.log
  BY <1>1, RunScriptLogs
<1>3. Report(t, {x})
  OBVIOUS
<1> HIDE DEF t
<1>4. OnTime(load, t) /\ Registered(t, flight)
  BY <1>1, <1>2 DEF OnTime, SameDelegate, Registered
<1>5. /\ load.response.log \subseteq t.response.log
      /\ t.response.log \subseteq load.response.log \cup {"event", "script"}
      /\ settings.observer =>
           ("script" \in t.response.log
              <=> "script" \in load.response.log \/ ({x} # {} /\ settings.script))
  BY <1>2
<1>6. {x} \in SUBSET OwnScripts
  OBVIOUS
<1> QED
  BY <1>1, <1>2, <1>3, <1>4, <1>5, <1>6, ReportStep

\* A callback that only reports.
LEMMA QuietReportStep ==
  ASSUME IInv, Live, page # 0, NEW next, Report(next, {}), Reports(load, next)
  PROVE  IInv' /\ AfterOnload
<1>1. load \in LoadStates /\ Registered(load, flight)
  BY Parts
<1>2. next \in LoadStates /\ OnTime(load, next) /\ SameAnswer(load, next)
  BY DEF Reports, Kept
<1>3. Registered(next, flight)
  BY <1>1 DEF Reports, Kept, Registered
<1>4. /\ load.response.log \subseteq next.response.log
      /\ next.response.log \subseteq load.response.log \cup {"event", "script"}
      /\ settings.observer =>
           ("script" \in next.response.log
              <=> "script" \in load.response.log \/ ({} # {} /\ settings.script))
  BY DEF Reports, Kept
<1>5. {} \in SUBSET OwnScripts
  OBVIOUS
<1> QED
  BY <1>2, <1>3, <1>4, <1>5, ReportStep

\* onload: the flag is set, the script runs, and E_OK may follow.
LEMMA OnloadStep ==
  ASSUME IInv, DidHandleOnloadEvents
  PROVE  IInv' /\ AfterOnload
<1> DEFINE a == [load EXCEPT !.windowLoaded = TRUE]
           b == RunScript(a, settings.script)
           c == CheckDoResponse(b)
<1>1. /\ load \in LoadStates /\ settings \in Settings /\ page # 0 /\ Registered(load, flight)
      /\ document # 0 /\ NoPage(flight) /\ load.posts \in Nat /\ MaxPosts \in Nat
      /\ NamesHeader(load) /\ (byRedirect => OfPage(load, page))
      /\ LogTells(load, ran, refused) /\ Live /\ settings.script \in BOOLEAN
  BY Parts, SettingsBoolean DEF DidHandleOnloadEvents, NoPage
<1>2. CASE load.windowLoaded
  <2>1. Report(load, {}) /\ Reports(load, load)
    BY <1>1, <1>2, ReportsItself DEF DidHandleOnloadEvents
  <2> QED
    BY <1>1, <2>1, QuietReportStep
<1>3. CASE ~load.windowLoaded
  <2>1. Report(c, {"onload"})
    BY <1>3 DEF DidHandleOnloadEvents
  <2>2. /\ a \in LoadStates /\ a.response = load.response /\ a.posts = load.posts
        /\ a.resources = load.resources
    BY <1>1 DEF LoadStates
  <2> HIDE DEF a
  <2>3. /\ b \in LoadStates /\ SamePosts(a, b) /\ SameAnswer(a, b) /\ SameDelegate(a, b)
        /\ b.response.log = IF settings.observer /\ settings.script
                            THEN a.response.log \cup {"script"} ELSE a.response.log
    BY <1>1, <2>2, RunScriptLogs
  <2> HIDE DEF b
  <2>4. Reports(b, c) /\ c.resources = b.resources
    BY <1>1, <2>3, CheckReports
  <2> HIDE DEF c
  <2>5. c \in LoadStates /\ SameAnswer(load, c) /\ Registered(c, flight)
    BY <1>1, <2>2, <2>3, <2>4 DEF Reports, Kept, SameAnswer, SameDelegate, Registered
  <2>6. c.posts <= MaxPosts + 1
    <3>1. c.posts = load.posts \/ c.posts = load.posts + 1
      BY <2>2, <2>3, <2>4 DEF Reports, OnTime, SamePosts
    <3> QED
      BY <1>1, <3>1 DEF Live
  <2>7. {"onload"} \in SUBSET OwnScripts
    BY DEF OwnScripts
  <2>8. /\ TypeInv' /\ PageInv' /\ FlightInv' /\ load' = c
        /\ UNCHANGED <<settings, flight, document, page, byRedirect, received, refused>>
        /\ ran \subseteq ran' /\ \A r \in ran' : r.script \in OwnScripts \cup received
        /\ ran' = {} <=> ran = {} /\ ({"onload"} = {} \/ ~settings.script)
    BY <1>1, <2>1, <2>5, <2>6, <2>7, Reported
  <2>9. settings.script => [script |-> "onload", page |-> document] \in ran'
    <3>1. [script |-> "onload", page |-> document] \in [script : {"onload"}, page : {document}]
      OBVIOUS
    <3> QED
      BY <2>1, <3>1 DEF Report
  <2>10. OnloadInv' /\ AfterOnload
    BY <2>8, <2>9 DEF OnloadInv, AfterOnload
  <2>15. LeftInv'
    BY <1>1, <2>8, Parts DEF LeftInv
  <2>11. Speaks(load, load')
    BY <2>5, <2>8, SameSpeaks
  <2>12. /\ NamesHeader(load') /\ (byRedirect' => OfPage(load', page'))
         /\ DOMAIN load'.response.headers \subseteq DOMAIN load.response.headers
    BY <1>1, <2>8, <2>11, SpeaksKeeps
  <2>13. LogTells(load', ran', refused')
    BY <1>1, <2>2, <2>3, <2>4, <2>8 DEF LogTells, Reports, Kept
  <2>14. /\ received' \cap ExcludedUrls = {} /\ DOMAIN load'.response.headers \subseteq received'
         /\ load'.response.subResources \subseteq received'
         /\ \A r \in ran' : r.script \in OwnScripts \cup received'
    BY <2>5, <2>8, <2>12 DEF IInv, ReceivedInv, Headers, SameAnswer
  <2> QED
    BY <2>8, <2>10, <2>12, <2>13, <2>14, <2>15, Together
<1> QED
  BY <1>2, <1>3

\* Dialogs and console messages are events of the log.
LEMMA PageSpeaksStep ==
  ASSUME IInv, PageSpeaks
  PROVE  IInv' /\ AfterOnload
<1> DEFINE t == Observe(load, "event")
<1>1. Live /\ page # 0 /\ Report(t, {}) /\ load \in LoadStates /\ settings \in Settings
  BY Parts DEF PageSpeaks
<1>2. Reports(load, t)
  BY <1>1, EventQuiet DEF Quiet, Reports, OnTime, Kept
<1> HIDE DEF t
<1> QED
  BY <1>1, <1>2, QuietReportStep

\* The announcement of a redirect alone changes nothing else.
LEMMA WillPerformClientRedirectStep ==
  ASSUME IInv, WillPerformClientRedirect
  PROVE  IInv' /\ AfterOnload
<1> DEFINE t == [load EXCEPT !.isRedirect = TRUE]
<1>1. Live /\ page # 0 /\ Report(t, {}) /\ load \in LoadStates /\ Registered(load, flight)
  BY Parts DEF WillPerformClientRedirect
<1>2. /\ t \in LoadStates /\ t.response = load.response /\ t.posts = load.posts
      /\ t.resources = load.resources /\ t.windowLoaded = load.windowLoaded
  BY <1>1 DEF LoadStates
<1> HIDE DEF t
<1>3. OnTime(load, t) /\ SameAnswer(load, t) /\ Registered(t, flight)
  BY <1>1, <1>2 DEF OnTime, SamePosts, SameAnswer, Registered
<1>4. /\ load.response.log \subseteq t.response.log
      /\ t.response.log \subseteq load.response.log \cup {"event", "script"}
      /\ settings.observer =>
           ("script" \in t.response.log
              <=> "script" \in load.response.log \/ ({} # {} /\ settings.script))
  BY <1>2
<1>5. {} \in SUBSET OwnScripts
  OBVIOUS
<1> QED
  BY <1>1, <1>2, <1>3, <1>4, <1>5, ReportStep

\* didStopLoading reports no more than a check.
LEMMA StopsLoadingStep ==
  ASSUME IInv, StopsLoading
  PROVE  IInv' /\ AfterOnload
<1> DEFINE t == DidStopLoading(load)
<1>1. Live /\ page # 0 /\ Report(t, {}) /\ load \in LoadStates /\ settings \in Settings
  BY Parts DEF StopsLoading
<1>2. Reports(load, t)
  BY <1>1, StopReports
<1> HIDE DEF t
<1> QED
  BY <1>1, <1>2, QuietReportStep

\* A failure of the main frame is logged and answered with E_NETWORK.
LEMMA MainFrameFailsStep ==
  ASSUME IInv, MainFrameFails
  PROVE  IInv' /\ AfterOnload
<1> DEFINE t == Observe(load, "event")
           u == PostResponse(t, "E_NETWORK")
<1>1. Live /\ page # 0 /\ Report(u, {}) /\ load \in LoadStates /\ settings \in Settings
  BY Parts DEF MainFrameFails, DoResponseWithoutCheck
<1>2. Quiet(load, t) /\ t \in LoadStates
  BY <1>1, EventQuiet DEF Quiet
<1> HIDE DEF t
<1>3. Reports(t, u)
  BY <1>2, Posted
<1> HIDE DEF u
<1>4. Reports(load, u)
  BY <1>2, <1>3, QuietFirst
<1> QED
  BY <1>1, <1>4, QuietReportStep

\* The answer that is given is the response as it is.
LEMMA DoResponseStep ==
  ASSUME IInv, DoResponse
  PROVE  IInv' /\ AfterOnload
<1> DEFINE t == [load EXCEPT !.posts = @ - 1]
<1>1. /\ load.posts > 0 /\ load' = t
      /\ answer' = IF Pending(load) THEN NoAnswer ELSE load.response
      /\ UNCHANGED <<settings, flight, identifiers, document, page, byRedirect, ran, received,
                     refused>>
  BY DEF DoResponse, history
<1>2. /\ load \in LoadStates /\ load.posts \in Nat /\ load.posts <= MaxPosts + 1
      /\ MaxPosts \in Nat /\ Registered(load, flight) /\ LogTells(load, ran, refused)
  BY Parts
<1>3. /\ t \in LoadStates /\ t.response = load.response /\ t.posts = load.posts - 1
      /\ t.resources = load.resources /\ t.windowLoaded = load.windowLoaded
      /\ t.loading = load.loading
  BY <1>1, <1>2 DEF LoadStates
<1> HIDE DEF t
<1>4. Timely(load, load') /\ Speaks(load, load')
  BY <1>1, <1>2, <1>3 DEF Timely, Speaks
<1>5. TypeInv'
  <2>1. load'.posts <= MaxPosts + 1 /\ (answer' = NoAnswer \/ answer' \in Responses)
    BY <1>1, <1>2, <1>3, Fields
  <2> QED
    BY <1>1, <1>3, <2>1 DEF IInv, TypeInv
<1>6. PageInv' /\ FlightInv'
  BY <1>1, <1>2, <1>3 DEF IInv, PageInv, FlightInv, FlightsOK, Registered, Headers
<1>7. LogTells(load', ran', refused')
  BY <1>1, <1>2, <1>3 DEF LogTells
<1>8. /\ load'.response.subResources \subseteq received
      /\ ran \subseteq ran' /\ \A r \in ran' : r.script \in OwnScripts \cup received
  BY <1>1, <1>3 DEF IInv, ReceivedInv
<1>9. LeftInv'
  BY <1>1, <1>3, LeftKeeps
<1> QED
  BY <1>1, <1>4, <1>5, <1>6, <1>7, <1>8, <1>9, Within

\* IInv is inductive, and no step posts E_OK before onload.
LEMMA NextInv ==
  ASSUME IInv, [Next]_vars
  PROVE  IInv' /\ (AfterOnload \/ UNCHANGED vars)
<1>1. CASE UNCHANGED vars
  <2>1. /\ UNCHANGED <<settings, load, flight, identifiers, document, page, byRedirect, ran,
                       received, refused, answer>>
    BY <1>1 DEF vars, history
  <2> QED
    BY <1>1, <2>1 DEF IInv, TypeInv, PageInv, FlightInv, ReceivedInv, OnloadInv, LeftInv,
         SentSince, NoPage, UrlNamesHeader,
         OnlySinceRedirect, LogTellsWholeLoad, Headers, FlightsOK, Registered
<1>2. CASE \E url \in PageUrls : StartPage(url)
  BY <1>2, StartPageStep
<1>3. CASE \E url \in FrameUrls : StartFrame(url)
  BY <1>3, StartFrameStep
<1>4. CASE \E url \in ResourceUrls : SendForResource(url)
  BY <1>4, SendForResourceStep
<1>5. CASE \E id \in DOMAIN flight : \E url \in Urls : ServerRedirect(id, url)
  BY <1>5, ServerRedirectStep
<1>6. CASE \E id \in DOMAIN flight : \E status \in Statuses : ReceiveResponse(id, status)
  BY <1>6, ReceiveResponseStep
<1>7. CASE \E id \in DOMAIN flight : FinishResource(id)
  BY <1>7, FinishResourceStep
<1>8. CASE \E id \in DOMAIN flight : FailResource(id)
  BY <1>8, FailResourceStep
<1>17. CASE \E id \in DOMAIN flight : CommitPage(id)
  BY <1>17, CommitPageStep
<1>9. CASE DidCreateScriptContext
  BY <1>9, ScriptStep DEF DidCreateScriptContext, OwnScripts
<1>10. CASE DidFinishDocumentLoad
  BY <1>10, ScriptStep DEF DidFinishDocumentLoad, OwnScripts
<1>11. CASE DidHandleOnloadEvents
  BY <1>11, OnloadStep
<1>12. CASE PageSpeaks
  BY <1>12, PageSpeaksStep
<1>13. CASE WillPerformClientRedirect
  BY <1>13, WillPerformClientRedirectStep
<1>14. CASE StopsLoading
  BY <1>14, StopsLoadingStep
<1>15. CASE MainFrameFails
  BY <1>15, MainFrameFailsStep
<1>16. CASE DoResponse
  BY <1>16, DoResponseStep
<1> QED
  BY <1>1, <1>2, <1>3, <1>4, <1>5, <1>6, <1>7, <1>8, <1>9, <1>10, <1>11, <1>12, <1>13, <1>14,
     <1>15, <1>16, <1>17 DEF Next

-----------------------------------------------------------------------------
(* Theorems. *)

\* IInv holds in every reachable state.
THEOREM Invariance == Spec => []IInv
<1>1. IInv /\ [Next]_vars => IInv'
  BY NextInv
<1> QED
  BY InitInv, <1>1, PTL DEF Spec

\* A response whose fields have their types is whole.
LEMMA WholeResponse ==
  ASSUME NEW r \in Responses
  PROVE  IsResponse(r)
<1>1. r.headers \in Partial(Urls, Entries)
  BY DEF Responses
<1>2. DOMAIN r.headers \subseteq Urls /\ \A u \in DOMAIN r.headers : r.headers[u] \in Entries
  BY <1>1, PartialOf
<1> QED
  BY <1>2 DEF Responses, IsResponse

\* Every variable keeps its type, and an answer that is given is whole.
LEMMA InvTypes == IInv => ContextTypeOK
<1> SUFFICES ASSUME IInv PROVE ContextTypeOK
  OBVIOUS
<1>1. TypeInv
  BY DEF IInv
<1>2. load \in LoadStates /\ load.posts \in 0..(MaxPosts + 1)
  BY <1>1, Fields, BoundsAssumption DEF TypeInv
<1>3. DOMAIN load = {"loading", "resources", "didFinishLoad", "windowLoaded", "forbidden",
                     "isRedirect", "posts", "response"}
      /\ {load.loading, load.didFinishLoad, load.windowLoaded, load.forbidden, load.isRedirect}
           \subseteq BOOLEAN
  BY <1>2 DEF LoadStates
<1>4. DOMAIN load.resources \subseteq Ids
      /\ \A i \in DOMAIN load.resources : load.resources[i] \in Urls
  BY <1>2, Fields, PartialOf
<1>5. IsResponse(load.response)
  BY <1>2, Fields, WholeResponse
<1>6. DOMAIN flight \subseteq Ids /\ \A i \in DOMAIN flight : flight[i] \in Flights
  BY Parts
<1>7. answer = NoAnswer \/ IsResponse(answer)
  BY <1>1, WholeResponse DEF TypeInv
<1>8. {byRedirect, refused} \subseteq BOOLEAN
  BY <1>1 DEF TypeInv
<1> QED
  BY <1>1, <1>2, <1>3, <1>4, <1>5, <1>6, <1>7, <1>8 DEF TypeInv, ContextTypeOK, Flights, Scripts

\* m_url and m_httpCode are those of the one header that is kept, whatever
\* responses, redirects and clears came in between.
THEOREM UrlNamesHeaderHolds == Spec => []UrlNamesHeader
<1>1. IInv => UrlNamesHeader
  BY DEF IInv
<1> QED
  BY Invariance, <1>1, PTL

\* Once an announced redirect was taken, every header and every advertisement in
\* the response is of a request sent since, whichever document sent it.
THEOREM OnlySinceRedirectHolds == Spec => []OnlySinceRedirect
<1>1. IInv => OnlySinceRedirect
  BY DEF IInv
<1> QED
  BY Invariance, <1>1, PTL

\* Scripts and style sheets go by the URL that responded, and the exclude list
\* is kept through every server redirect.
THEOREM ResourcesAsReceivedHolds == Spec => []ResourcesAsReceived
<1>1. IInv => ResourcesAsReceived
  <2> SUFFICES ASSUME IInv PROVE ResourcesAsReceived
    OBVIOUS
  <2>1. ContextTypeOK
    BY InvTypes
  <2>2. /\ received \cap ExcludedUrls = {}
        /\ DOMAIN Headers \subseteq received /\ load.response.subResources \subseteq received
        /\ \A r \in ran : r.script \in OwnScripts \cup received
    BY DEF IInv, ReceivedInv
  <2>3. ExcludedStaysOut
    BY <2>2, ScriptsAssumption DEF ExcludedStaysOut
  <2>4. NamedAsReceived
    BY <2>2, ScriptsAssumption DEF NamedAsReceived
  <2> QED
    BY <2>1, <2>3, <2>4 DEF ResourcesAsReceived
<1> QED
  BY Invariance, <1>1, PTL

\* The observer's log is of the whole load: a redirect clears the headers, not
\* the log.
THEOREM LogTellsWholeLoadHolds == Spec => []LogTellsWholeLoad
<1>1. IInv => LogTellsWholeLoad
  BY DEF IInv
<1> QED
  BY Invariance, <1>1, PTL

\* E_OK waits for the onload of the page the request or an announced redirect
\* led to, whichever callback posts it.
THEOREM PostedAfterOnloadHolds == Spec => PostedAfterOnload
<1>1. IInv /\ [Next]_vars => [AfterOnload]_vars
  BY NextInv
<1>2. [AfterOnload]_vars <=> [load'.posts > load.posts /\ load'.response.errorCode = "E_OK"
       /\ settings.afterWindowLoad /\ settings.script /\ byRedirect /\ document = page
     => [script |-> "onload", page |-> page] \in ran']_vars
  BY DEF AfterOnload
<1> QED
  BY Invariance, <1>1, <1>2, PTL DEF Spec, PostedAfterOnload
=============================================================================
