------------------------------ MODULE ViewOutput ------------------------------
(***************************************************************************)
(* What a load asks of its view and what the client gets back.  A view is   *)
(* used for one request after another: load() sets the preferences, the     *)
(* window and the frame's request, the page lives in the frame (and may     *)
(* resize its window), doResponseOnMainThread takes the document, the       *)
(* layout and a painting out of it and blanks the frame, and the worker     *)
(* turns them into a BrowserResponse and calls back, while the view may     *)
(* already load the next request.                                           *)
(*                                                                          *)
(* When a response is posted and when it is declined is ViewResponse.tla's; *)
(* the headers, URLs and the log of a response are RequestContext.tla's.    *)
(* WebKit is external: a document is what it was asked for with the         *)
(* preferences it ran under, and its layout is given by a constant.         *)
(***************************************************************************)
EXTENDS Integers, Sequences, FiniteSets, SequencesExt

CONSTANTS Views,
          Requests,     \* the requests a client may send, see IsRequest
          MaxLoads,     \* bound on the loads of all views
          DefaultSize,  \* s_defaultWindowWidth and s_defaultWindowHeight
          PageSizes,    \* sizes a page may give its window
          Layout(_, _)  \* request, size -> block number -> values of its fields

IsRequest(r) ==
  /\ DOMAIN r = {"loadType", "method", "body", "typed", "counted", "script", "screen",
                 "paintRect", "render", "paint", "outputDOM", "outputRender", "callback"}
  /\ r.loadType \in {"default", "data"}
  /\ r.method \in {"GET", "POST", "HEAD", "PUT", "other"}
  /\ {r.body, r.typed, r.counted, r.script, r.render, r.paint, r.outputDOM, r.outputRender,
      r.callback} \subseteq BOOLEAN
ASSUME RequestsAssumption == \A r \in Requests : IsRequest(r)
ASSUME MaxLoadsAssumption == MaxLoads \in Nat

VARIABLES loads,       \* the requests loaded so far; a load is its number
          context,     \* m_context of each view's proxy: its load, or 0
          preferences, \* what was applied to each view: its load, or 0
          window,      \* the rect of each WebViewHost
          resized,     \* the page gave it (history)
          frame,       \* the document in each main frame
          workerTasks, \* worker loop: IndependentResponses
          called       \* callbacks made, in order

viewVars == <<context, preferences, window, resized, frame>>
vars == <<loads, viewVars, workerTasks, called>>

Loads == 1..MaxLoads
Sizes == {DefaultSize} \cup PageSizes \cup {r.screen : r \in Requests}
Fields == Int \X Int \* two of stRenderInfo's; strtoul reads a sign too
ASSUME LayoutAssumption ==
  \A r \in Requests, size \in Sizes :
    LET blocks == Layout(r, size) IN
      /\ IsFiniteSet(DOMAIN blocks) /\ DOMAIN blocks \subseteq Int
      /\ blocks \in [DOMAIN blocks -> Fields]
Blank == [load |-> 0, script |-> FALSE, sent |-> {}]

\* Type invariant.
OutputTypeOK ==
  /\ loads \in Seq(Requests) /\ Len(loads) <= MaxLoads
  /\ context \in [Views -> 0..Len(loads)]
  /\ preferences \in [Views -> 0..Len(loads)]
  /\ window \in [Views -> Sizes] /\ resized \in [Views -> BOOLEAN]
  /\ \A v \in Views : frame[v] = Blank \/ frame[v].load = context[v]
  /\ \A i \in DOMAIN workerTasks : workerTasks[i].load \in DOMAIN loads
  /\ \A i \in DOMAIN called : called[i].load \in DOMAIN loads

Init == /\ loads = <<>>
        /\ context = [v \in Views |-> 0] /\ preferences = [v \in Views |-> 0]
        /\ window = [v \in Views |-> DefaultSize] /\ resized = [v \in Views |-> FALSE]
        /\ frame = [v \in Views |-> Blank]
        /\ workerTasks = <<>> /\ called = <<>>

-----------------------------------------------------------------------------
(* BrowserView::load. *)

\* contructWebURLRequest: the client's header text may hold a Content-Type
\* ("typed") and a Content-Length ("counted").
SentWithBody(r) == \* mutant: any method takes the body along
  [method |-> IF r.method = "other" THEN "GET" ELSE r.method,
   body |-> r.body, typed |-> r.typed, counted |-> r.counted]

ContructWebURLRequest(r) ==
  LET posts == r.method = "POST" /\ r.body
      gets == r.method \in {"GET", "other"}
  IN  [method |-> IF gets THEN "GET" ELSE r.method, body |-> posts,
       typed |-> r.typed \/ posts, counted |-> r.counted /\ ~gets]

\* resetWebSettings: one static WebPreferences serves all views.
FirstSettings(load) == 1 \* mutant: they are filled in only while it is NULL
ResetWebSettings(load) == load

KeepsWindow(v, r) == window[v] \* mutant: a view keeps its size
SetWindowRect(v, r) == r.screen

Load(v, r) ==
  /\ context[v] = 0 /\ Len(loads) < MaxLoads
  /\ loads' = Append(loads, r)
  /\ context' = [context EXCEPT ![v] = Len(loads')]
  /\ preferences' = [preferences EXCEPT ![v] = ResetWebSettings(Len(loads'))]
  /\ window' = [window EXCEPT ![v] = SetWindowRect(v, r)]
  /\ resized' = [resized EXCEPT ![v] = FALSE]
  /\ UNCHANGED <<frame, workerTasks, called>>

\* WebKit commits the document the frame was asked for.
Commit(v) ==
  /\ context[v] # 0 /\ frame[v] = Blank
  /\ frame' = [frame EXCEPT ![v] =
       [load |-> context[v], script |-> loads[preferences[v]].script,
        sent |-> IF loads[context[v]].loadType = "default"
                   THEN {ContructWebURLRequest(loads[context[v]])} ELSE {}]]
  /\ UNCHANGED <<loads, context, preferences, window, resized, workerTasks, called>>

\* BrowserViewDelegate::setWindowRect: the page's own script.
PageResizes(v, size) ==
  /\ frame[v].script
  /\ window' = [window EXCEPT ![v] = size] /\ resized' = [resized EXCEPT ![v] = TRUE]
  /\ UNCHANGED <<loads, context, preferences, frame, workerTasks, called>>

-----------------------------------------------------------------------------
(* doResponseOnMainThread. *)

BlocksOf(document, size) ==
  IF document = Blank THEN <<>> ELSE Layout(loads[document.load], size)

Separator(char) == [char |-> char, number |-> 0]
Number(n) == [char |-> "digits", number |-> n]

\* webkit_glue::DumpRenderInfo, of which the parser tells: `|id{a,b,..}` for
\* each block, after a first character that is skipped; a value may be absent,
\* which stands for 0.
Written(n) == IF n = 0 THEN <<>> ELSE <<Number(n)>>
Line(id, values) ==
  <<Separator("|"), Number(id), Separator("{")>> \o Written(values[1])
    \o <<Separator(",")>> \o Written(values[2]) \o <<Separator("}")>>
DumpRenderInfo(blocks) ==
  LET ids == SetToSeq(DOMAIN blocks)
      lines[n \in 0..Len(ids)] ==
        IF n = 0 THEN <<Separator("first")>> ELSE lines[n - 1] \o Line(ids[n], blocks[ids[n]])
  IN  lines[Len(ids)]

\* The callback's arguments, the document, the layout and the painting, taken
\* while the context and the page are there.
Collect(v) ==
  LET r == loads[context[v]] IN
    [load |-> context[v],
     content |-> IF r.outputDOM THEN {frame[v]} ELSE {},
     renderInfo |-> IF r.render /\ r.outputRender
                      THEN DumpRenderInfo(BlocksOf(frame[v], window[v])) ELSE <<>>,
     canvas |-> IF r.render /\ r.paint
                  THEN {[page |-> frame[v], layout |-> window[v], size |-> r.paintRect]}
                  ELSE {}]

NotBlanked(v) == frame[v] \* mutant: the page stays until the next load
Blanked(v) == Blank

\* With prepareDoNextRequest: the context goes, the frame shows about:blank.
DoResponseOnMainThread(v) ==
  /\ context[v] # 0
  /\ workerTasks' = Append(workerTasks, Collect(v))
  /\ context' = [context EXCEPT ![v] = 0]
  /\ frame' = [frame EXCEPT ![v] = Blanked(v)]
  /\ UNCHANGED <<loads, preferences, window, resized, called>>

-----------------------------------------------------------------------------
(* doResponseOnWorkerThread. *)

NoFields == <<0, 0>>
KeepsFields(values) == values \* mutant: stRenderInfo is not zeroed
NextLine(values) == NoFields

\* parseToken, at the offset of the current field.
ParseToken(p) ==
  IF p.token = Separator("empty") THEN p
  ELSE [p EXCEPT !.values[p.offset] = p.token.number]

\* parseRenderInfo, one character or number at a time.
ParseChar(p, c) ==
  CASE c.char = "|" -> [p EXCEPT !.inParse = TRUE]
    [] c.char = "{" -> [p EXCEPT !.blockId = p.token.number, !.token = Separator("empty")]
    [] c.char = "," -> [ParseToken(p) EXCEPT !.offset = @ + 1, !.token = Separator("empty")]
    [] c.char = "}" ->
         LET q == ParseToken(p) IN
           [inParse |-> FALSE, blockId |-> q.blockId, offset |-> 1,
            token |-> Separator("empty"), values |-> NextLine(q.values),
            infos |-> [id \in {q.blockId} \cup DOMAIN q.infos |->
                         IF id = q.blockId THEN q.values ELSE q.infos[id]]]
    [] OTHER -> IF p.inParse THEN [p EXCEPT !.token = c] ELSE p

\* What is parsed when the first n are read, of which the first is skipped.
ParseRenderInfo(text) ==
  LET parsed[n \in 1..Len(text)] ==
        IF n = 1 THEN [inParse |-> FALSE, blockId |-> 0, offset |-> 1,
                       token |-> Separator("empty"), values |-> NoFields, infos |-> <<>>]
        ELSE ParseChar(parsed[n - 1], text[n])
  IN  parsed[Len(text)].infos

ReadsContext(task) == \* mutant: the worker asks the proxy whom to call
  LET v == CHOOSE v \in Views : TRUE
  IN  IF context[v] = 0 THEN task.load ELSE context[v]
CallbackData(task) == task.load

DoResponseOnWorkerThread ==
  /\ workerTasks # <<>>
  /\ workerTasks' = Tail(workerTasks)
  /\ LET task == Head(workerTasks) IN
       called' = IF ~loads[task.load].callback THEN called
                 ELSE Append(called,
                   [load |-> CallbackData(task), content |-> task.content,
                    image |-> task.canvas,
                    renderInfo |-> IF task.renderInfo = <<>> THEN <<>>
                                   ELSE ParseRenderInfo(task.renderInfo)])
  /\ UNCHANGED <<loads, viewVars>>

-----------------------------------------------------------------------------
Next ==
  \/ \E v \in Views :
       \/ \E r \in Requests : Load(v, r)
       \/ Commit(v) \/ DoResponseOnMainThread(v)
       \/ \E size \in PageSizes : PageResizes(v, size)
  \/ DoResponseOnWorkerThread

Spec == Init /\ [][Next]_vars

-----------------------------------------------------------------------------
(* Properties. *)

\* All that a callback is given, its own data included, is of one load and of
\* one state of its page (or of about:blank, when the load ended before a page
\* was there), although the view was blanked, and may load the next request,
\* before the worker puts the response together.
AnswerOfOneLoad ==
  \A i \in DOMAIN called :
    LET answer == called[i]
        pages == answer.content \cup {canvas.page : canvas \in answer.image}
    IN  /\ \A j \in DOMAIN called : called[j].load = answer.load => i = j
        /\ loads[answer.load].callback
        /\ pages = {Blank} \/ \A page \in pages : page.load = answer.load
        /\ \A canvas \in answer.image : canvas.size = loads[answer.load].paintRect

\* What parseRenderInfo makes of the dump is the layout of the page the image
\* shows, block by block, absent values included.
RenderInfoIsLayout ==
  \A i \in DOMAIN called : \A canvas \in called[i].image :
    called[i].renderInfo # <<>> =>
      called[i].renderInfo = BlocksOf(canvas.page, canvas.layout)

\* A page runs under the preferences of its own request, not of the view's
\* last one nor of another view's, though all share one WebPreferences.
OwnPreferences ==
  \A v \in Views : frame[v] # Blank => frame[v].script = loads[frame[v].load].script

\* A page is laid out for the screen its request asks for until it resizes its
\* window itself; what an earlier page did to the window is gone.
LaidOutAsAsked ==
  \A v \in Views : context[v] # 0 => resized[v] \/ window[v] = loads[context[v]].screen

\* A body is sent with POST alone and never without a Content-Type, and a GET,
\* which an unknown method becomes, keeps no Content-Length of the header text.
BodyAsDescribed ==
  \A v \in Views : \A sent \in frame[v].sent :
    /\ sent.body => sent.method = "POST" /\ sent.typed
    /\ sent.method = "GET" => ~sent.counted

\* Each load gets what its own request asks for, on a view that served others.
LoadedAsAsked == OutputTypeOK /\ OwnPreferences /\ LaidOutAsAsked /\ BodyAsDescribed
=============================================================================
