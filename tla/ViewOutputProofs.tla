-------------------------- MODULE ViewOutputProofs --------------------------
(***************************************************************************)
(* ViewOutput.tla for any number of views and loads, any requests and any  *)
(* layouts.                                                                *)
(*                                                                         *)
(* A load is in one place at a time (OnePlace): with its view, in a task   *)
(* of the worker, or in a callback's answer.  While it is with the view,   *)
(* the page, the preferences and the window are of it (ViewsInv); what     *)
(* leaves the view is of one state of that page (OfOneLoad), and nothing   *)
(* that happens to the view later reaches it.  IInv puts these together    *)
(* and is inductive, with one lemma per action.                            *)
(*                                                                         *)
(* The second part is about the two functions between which the render     *)
(* information is a text: whatever the layout, the parser makes of the     *)
(* dump the layout it was written from (ReadsBack).  A text is read along  *)
(* a run of the parser's states (Reads), a run for each line, and a line   *)
(* adds its block to what is known (LineParsed).                           *)
(*                                                                         *)
(* The third part is the invariant of that text (TextInv): the dump the    *)
(* worker parses was taken of the page and the window that the image       *)
(* shows.                                                                  *)
(***************************************************************************)
EXTENDS ViewOutput, TLAPS, SequenceTheorems, FiniteSetTheorems

USE RequestsAssumption, MaxLoadsAssumption

\* The documents a frame may show.
Sent == [method : {"GET", "POST", "HEAD", "PUT"}, body : BOOLEAN, typed : BOOLEAN,
         counted : BOOLEAN]
Pages == [load : 0..MaxLoads, script : BOOLEAN, sent : SUBSET Sent]

\* A sequence, whatever its entries are.
IsSequence(s) == s \in Seq(ToSet(s))

\* OutputTypeOK, with these sets.
TypeInv ==
  /\ loads \in Seq(Requests) /\ Len(loads) <= MaxLoads
  /\ context \in [Views -> 0..Len(loads)]
  /\ preferences \in [Views -> 0..Len(loads)]
  /\ window \in [Views -> Sizes] /\ resized \in [Views -> BOOLEAN]
  /\ frame \in [Views -> Pages]
  /\ IsSequence(workerTasks) /\ IsSequence(called)

\* A page is of the load its view has, which runs under its own preferences.
ViewsInv ==
  \A v \in Views :
    /\ frame[v] # Blank => /\ context[v] # 0 /\ frame[v].load = context[v]
                           /\ frame[v].script = loads[context[v]].script
    /\ context[v] # 0 => /\ preferences[v] = context[v]
                         /\ resized[v] \/ window[v] = loads[context[v]].screen

\* What is collected for a load is of one state of its page.
OfOneLoad(load, content, image) ==
  /\ load \in 1..Len(loads)
  /\ LET pages == content \cup {canvas.page : canvas \in image}
     IN  pages = {Blank} \/ \A page \in pages : page.load = load
  /\ \A canvas \in image : canvas.size = loads[load].paintRect

\* So it is with the worker's tasks,
TasksInv ==
  \A i \in DOMAIN workerTasks :
    OfOneLoad(workerTasks[i].load, workerTasks[i].content, workerTasks[i].canvas)
\* and with what the callbacks were given.
CalledInv ==
  \A i \in DOMAIN called : /\ OfOneLoad(called[i].load, called[i].content, called[i].image)
                           /\ loads[called[i].load].callback

\* A load is in one place: with a view, with the worker, or answered.
OnePlace ==
  /\ \A v, w \in Views : context[v] # 0 /\ context[v] = context[w] => v = w
  /\ \A v \in Views : \A i \in DOMAIN workerTasks : workerTasks[i].load # context[v]
  /\ \A v \in Views : \A i \in DOMAIN called : called[i].load # context[v]
  /\ \A i, j \in DOMAIN workerTasks : workerTasks[i].load = workerTasks[j].load => i = j
  /\ \A i, j \in DOMAIN called : called[i].load = called[j].load => i = j
  /\ \A i \in DOMAIN workerTasks : \A j \in DOMAIN called :
       workerTasks[i].load # called[j].load

\* The inductive invariant.
IInv ==
  TypeInv /\ ViewsInv /\ TasksInv /\ CalledInv /\ OnePlace /\ BodyAsDescribed

-----------------------------------------------------------------------------
(* The queues and the requests. *)

\* Every sequence is one over the set of its own entries.
LEMMA OwnSet ==
  ASSUME NEW S, NEW s \in Seq(S)
  PROVE  IsSequence(s)
<1>1. s \in [1..Len(s) -> S] /\ Len(s) \in Nat /\ DOMAIN s = 1..Len(s)
  BY LenProperties
<1>2. \A i \in 1..Len(s) : s[i] \in ToSet(s)
  BY <1>1 DEF ToSet
<1>3. s \in [1..Len(s) -> ToSet(s)]
  BY <1>1, <1>2
<1>4. ToSet(s) \subseteq S
  BY <1>1 DEF ToSet
<1> HIDE DEF ToSet
<1>5. s \in Seq(ToSet(s))
  BY <1>1, <1>3
<1> QED
  BY <1>5 DEF IsSequence

\* The indices of a queue.
LEMMA Shape ==
  ASSUME NEW s, IsSequence(s)
  PROVE  Len(s) \in Nat /\ DOMAIN s = 1..Len(s)
  BY LenProperties DEF IsSequence

\* What Append does to a queue: the last entry is new.
LEMMA Pushed ==
  ASSUME NEW s, IsSequence(s), NEW e
  PROVE  /\ IsSequence(Append(s, e))
         /\ Len(Append(s, e)) = Len(s) + 1
         /\ DOMAIN Append(s, e) = 1..(Len(s) + 1)
         /\ \A i \in 1..Len(s) : Append(s, e)[i] = s[i]
         /\ Append(s, e)[Len(s) + 1] = e
<1> DEFINE S == ToSet(s) \cup {e}
<1>1. s \in Seq(S) /\ e \in S
  <2>1. ToSet(s) \subseteq S
    OBVIOUS
  <2> QED
    BY <2>1, SeqMonotonic DEF IsSequence
<1> HIDE DEF S
<1>2. /\ Append(s, e) \in Seq(S) /\ Len(Append(s, e)) = Len(s) + 1
      /\ \A i \in 1..Len(s) : Append(s, e)[i] = s[i]
      /\ Append(s, e)[Len(s) + 1] = e
  BY <1>1, AppendProperties
<1>3. DOMAIN Append(s, e) = 1..(Len(s) + 1)
  BY <1>2, LenProperties
<1> QED
  BY <1>2, <1>3, OwnSet

\* What taking the head does to a queue: the others move up.
LEMMA Popped ==
  ASSUME NEW s, IsSequence(s), s # <<>>
  PROVE  /\ IsSequence(Tail(s)) /\ Head(s) = s[1] /\ 1 \in DOMAIN s
         /\ DOMAIN Tail(s) = 1..(Len(s) - 1)
         /\ \A i \in 1..(Len(s) - 1) : Tail(s)[i] = s[i + 1]
<1> DEFINE S == ToSet(s)
<1>1. s \in Seq(S)
  BY DEF IsSequence
<1> HIDE DEF S
<1>2. /\ Tail(s) \in Seq(S) /\ Len(Tail(s)) = Len(s) - 1 /\ Head(s) = s[1]
      /\ \A i \in 1..Len(Tail(s)) : Tail(s)[i] = s[i + 1]
  BY <1>1, HeadTailProperties
<1>3. DOMAIN Tail(s) = 1..Len(Tail(s)) /\ DOMAIN s = 1..Len(s) /\ Len(s) \in Nat \ {0}
  BY <1>1, <1>2, LenProperties, EmptySeq
<1>4. IsSequence(Tail(s))
  BY <1>2, OwnSet
<1> QED
  BY <1>2, <1>3, <1>4

\* What IsRequest says of the fields the proofs need.
LEMMA RequestFields ==
  ASSUME NEW r \in Requests
  PROVE  /\ r.method \in {"GET", "POST", "HEAD", "PUT", "other"}
         /\ r.body \in BOOLEAN /\ r.typed \in BOOLEAN /\ r.counted \in BOOLEAN
         /\ r.script \in BOOLEAN /\ r.screen \in Sizes
  BY DEF IsRequest, Sizes

\* ContructWebURLRequest sends a body with POST alone and typed, a GET uncounted.
LEMMA Constructed ==
  ASSUME NEW r \in Requests
  PROVE  LET sent == ContructWebURLRequest(r) IN
         /\ sent \in Sent
         /\ sent.body => sent.method = "POST" /\ sent.typed
         /\ sent.method = "GET" => ~sent.counted
<1>1. ContructWebURLRequest(r) \in Sent
  BY RequestFields DEF ContructWebURLRequest, Sent
<1> QED
  BY <1>1, RequestFields DEF ContructWebURLRequest

\* What OfOneLoad says stays true while loads only grows.
LEMMA OfOneLoadKept ==
  ASSUME NEW load, NEW content, NEW image, OfOneLoad(load, content, image),
         \A k \in 1..Len(loads) : k \in 1..Len(loads') /\ loads'[k] = loads[k]
  PROVE  OfOneLoad(load, content, image)'
  BY DEF OfOneLoad

\* What only one view shows changes leaves the loads, and where they are, alone.
LEMMA ElsewhereKept ==
  ASSUME IInv, UNCHANGED <<loads, context, workerTasks, called>>
  PROVE  TasksInv' /\ CalledInv' /\ OnePlace'
<1>1. TasksInv'
  BY DEF IInv, TasksInv, OfOneLoad
<1>2. CalledInv'
  BY DEF IInv, CalledInv, OfOneLoad
<1>3. OnePlace'
  BY DEF IInv, OnePlace
<1> QED
  BY <1>1, <1>2, <1>3

\* The base of the induction.
LEMMA InitInv == Init => IInv
<1> SUFFICES ASSUME Init PROVE IInv
  OBVIOUS
<1>1. <<>> \in Seq(Requests) /\ Len(<<>>) = 0 /\ IsSequence(<<>>) /\ DOMAIN <<>> = {}
  <2>1. <<>> \in Seq(Requests) /\ Len(<<>>) = 0
    BY EmptySeq
  <2>2. IsSequence(<<>>)
    BY <2>1, OwnSet
  <2>3. DOMAIN <<>> = 1..Len(<<>>)
    BY <2>2, Shape
  <2> QED
    BY <2>1, <2>2, <2>3
<1>2. Blank \in Pages /\ Blank.sent = {}
  BY DEF Blank, Pages
<1>3. DefaultSize \in Sizes
  BY DEF Sizes
<1>4. TypeInv
  BY <1>1, <1>2, <1>3 DEF Init, TypeInv
<1>5. ViewsInv /\ TasksInv /\ CalledInv
  BY <1>1 DEF Init, ViewsInv, TasksInv, CalledInv
<1>6. OnePlace /\ BodyAsDescribed
  BY <1>1, <1>2 DEF Init, OnePlace, BodyAsDescribed
<1> QED
  BY <1>4, <1>5, <1>6 DEF IInv

\* A load takes the next number, which is in no other place, and a blank view.
LEMMA LoadStep ==
  ASSUME IInv, NEW v \in Views, NEW r \in Requests, Load(v, r)
  PROVE  IInv'
<1> DEFINE n == Len(loads)
<1>1. /\ context[v] = 0 /\ n < MaxLoads /\ loads' = Append(loads, r)
      /\ context' = [context EXCEPT ![v] = Len(loads')]
      /\ preferences' = [preferences EXCEPT ![v] = Len(loads')]
      /\ window' = [window EXCEPT ![v] = r.screen]
      /\ resized' = [resized EXCEPT ![v] = FALSE]
      /\ UNCHANGED <<frame, workerTasks, called>>
  BY DEF Load, ResetWebSettings, SetWindowRect
<1>2. /\ loads \in Seq(Requests) /\ n <= MaxLoads
      /\ context \in [Views -> 0..n] /\ preferences \in [Views -> 0..n]
      /\ window \in [Views -> Sizes] /\ resized \in [Views -> BOOLEAN]
      /\ frame \in [Views -> Pages] /\ IsSequence(workerTasks) /\ IsSequence(called)
  BY DEF IInv, TypeInv
<1>3. /\ loads' \in Seq(Requests) /\ Len(loads') = n + 1 /\ n \in Nat
      /\ \A k \in 1..n : loads'[k] = loads[k]
      /\ loads'[n + 1] = r
  BY <1>1, <1>2, AppendProperties, LenProperties
<1> HIDE DEF n
<1>4. r.screen \in Sizes
  BY RequestFields
<1>5. /\ context'[v] = n + 1 /\ preferences'[v] = n + 1 /\ window'[v] = r.screen
      /\ \A w \in Views : w # v => /\ context'[w] = context[w]
                                   /\ preferences'[w] = preferences[w]
                                   /\ window'[w] = window[w] /\ resized'[w] = resized[w]
  BY <1>1, <1>2, <1>3
<1>6. TypeInv'
  <2>1. context' \in [Views -> 0..(n + 1)] /\ preferences' \in [Views -> 0..(n + 1)]
    BY <1>1, <1>2, <1>3
  <2>2. window' \in [Views -> Sizes] /\ resized' \in [Views -> BOOLEAN]
    BY <1>1, <1>2, <1>4
  <2>3. Len(loads') <= MaxLoads
    BY <1>1, <1>3
  <2> QED
    BY <1>1, <1>2, <1>3, <2>1, <2>2, <2>3 DEF TypeInv
<1>7. \A k \in 1..Len(loads) : k \in 1..Len(loads') /\ loads'[k] = loads[k]
  BY <1>3 DEF n
<1>8. \A w \in Views : context[w] # 0 => loads'[context[w]] = loads[context[w]]
  BY <1>2, <1>3
<1>9. ViewsInv'
  <2> SUFFICES ASSUME NEW w \in Views
               PROVE  /\ frame[w] # Blank => /\ context'[w] # 0 /\ frame[w].load = context'[w]
                                             /\ frame[w].script = loads'[context'[w]].script
                      /\ context'[w] # 0 =>
                           /\ preferences'[w] = context'[w]
                           /\ resized'[w] \/ window'[w] = loads'[context'[w]].screen
    BY <1>1 DEF ViewsInv
  <2>1. /\ frame[w] # Blank => /\ context[w] # 0 /\ frame[w].load = context[w]
                               /\ frame[w].script = loads[context[w]].script
        /\ context[w] # 0 => /\ preferences[w] = context[w]
                             /\ resized[w] \/ window[w] = loads[context[w]].screen
    BY DEF IInv, ViewsInv
  <2>2. CASE w = v
    BY <1>1, <1>3, <1>5, <2>1, <2>2
  <2>3. CASE w # v
    BY <1>5, <1>8, <2>1, <2>3
  <2> QED
    BY <2>2, <2>3
<1>10. TasksInv'
  BY <1>1, <1>7, OfOneLoadKept DEF IInv, TasksInv
<1>11. CalledInv'
  <2> SUFFICES ASSUME NEW i \in DOMAIN called
               PROVE  /\ OfOneLoad(called[i].load, called[i].content, called[i].image)'
                      /\ loads'[called[i].load].callback
    BY <1>1 DEF CalledInv
  <2>1. /\ OfOneLoad(called[i].load, called[i].content, called[i].image)
        /\ loads[called[i].load].callback
    BY DEF IInv, CalledInv
  <2>2. called[i].load \in 1..Len(loads)
    BY <2>1 DEF OfOneLoad
  <2>3. loads'[called[i].load].callback
    BY <1>7, <2>1, <2>2
  <2> QED
    BY <1>1, <1>7, <2>1, <2>3, OfOneLoadKept
<1>12. OnePlace'
  <2>1. /\ \A i \in DOMAIN workerTasks : workerTasks[i].load \in 1..n
        /\ \A i \in DOMAIN called : called[i].load \in 1..n
    BY DEF IInv, TasksInv, CalledInv, OfOneLoad, n
  <2>2. \A w \in Views : context[w] \in 0..n
    BY <1>2
  <2> QED
    BY <1>1, <1>3, <1>5, <2>1, <2>2 DEF IInv, OnePlace
<1>13. BodyAsDescribed'
  BY <1>1 DEF IInv, BodyAsDescribed
<1> QED
  BY <1>6, <1>9, <1>10, <1>11, <1>12, <1>13 DEF IInv

\* The page is of the view's own load, and its preferences are the view's.
LEMMA CommitStep ==
  ASSUME IInv, NEW v \in Views, Commit(v)
  PROVE  IInv'
<1> DEFINE r == loads[context[v]]
           p == [load |-> context[v], script |-> loads[preferences[v]].script,
                 sent |-> IF r.loadType = "default" THEN {ContructWebURLRequest(r)} ELSE {}]
<1>1. /\ context[v] # 0 /\ frame[v] = Blank
      /\ frame' = [frame EXCEPT ![v] = p]
      /\ UNCHANGED <<loads, context, preferences, window, resized, workerTasks, called>>
  BY DEF Commit
<1>2. /\ loads \in Seq(Requests) /\ Len(loads) \in Nat /\ Len(loads) <= MaxLoads
      /\ context \in [Views -> 0..Len(loads)] /\ frame \in [Views -> Pages]
  BY LenProperties DEF IInv, TypeInv
<1>3. context[v] \in 1..Len(loads) /\ preferences[v] = context[v]
  BY <1>1, <1>2 DEF IInv, ViewsInv
<1>4. r \in Requests
  BY <1>2, <1>3, ElementOfSeq
<1>5. /\ p.load = context[v] /\ p.script = r.script
      /\ \A sent \in p.sent : sent = ContructWebURLRequest(r)
      /\ p = [load |-> p.load, script |-> p.script, sent |-> p.sent]
  BY <1>3
<1> HIDE DEF r, p
<1>6. \A sent \in p.sent : /\ sent \in Sent
                           /\ sent.body => sent.method = "POST" /\ sent.typed
                           /\ sent.method = "GET" => ~sent.counted
  BY <1>4, <1>5, Constructed
<1>7. p \in Pages
  <2>1. p.load \in 0..MaxLoads
    BY <1>2, <1>3, <1>5
  <2>2. p.script \in BOOLEAN
    BY <1>4, <1>5, RequestFields
  <2>3. p.sent \in SUBSET Sent
    BY <1>6
  <2> QED
    BY <1>5, <2>1, <2>2, <2>3 DEF Pages
<1>8. frame' \in [Views -> Pages] /\ frame'[v] = p /\ \A w \in Views : w # v => frame'[w] = frame[w]
  BY <1>1, <1>2, <1>7
<1>9. TypeInv'
  BY <1>1, <1>8 DEF IInv, TypeInv
<1>10. ViewsInv'
  BY <1>1, <1>5, <1>8 DEF IInv, ViewsInv, r
<1>11. TasksInv' /\ CalledInv' /\ OnePlace'
  BY <1>1, ElsewhereKept
<1>12. BodyAsDescribed'
  BY <1>6, <1>8 DEF IInv, BodyAsDescribed
<1> QED
  BY <1>9, <1>10, <1>11, <1>12 DEF IInv

\* A window changes under a page, which resized records.
LEMMA PageResizesStep ==
  ASSUME IInv, NEW v \in Views, NEW size \in PageSizes, PageResizes(v, size)
  PROVE  IInv'
<1>1. /\ window' = [window EXCEPT ![v] = size] /\ resized' = [resized EXCEPT ![v] = TRUE]
      /\ UNCHANGED <<loads, context, preferences, frame, workerTasks, called>>
  BY DEF PageResizes
<1>2. window \in [Views -> Sizes] /\ resized \in [Views -> BOOLEAN] /\ size \in Sizes
  BY DEF IInv, TypeInv, Sizes
<1>3. window' \in [Views -> Sizes] /\ resized' \in [Views -> BOOLEAN]
  BY <1>1, <1>2
<1>4. resized'[v] /\ \A w \in Views : w # v => window'[w] = window[w] /\ resized'[w] = resized[w]
  BY <1>1, <1>2
<1>5. TypeInv'
  BY <1>1, <1>3 DEF IInv, TypeInv
<1>6. ViewsInv'
  BY <1>1, <1>4 DEF IInv, ViewsInv
<1>7. TasksInv' /\ CalledInv' /\ OnePlace'
  BY <1>1, ElsewhereKept
<1>8. BodyAsDescribed'
  BY <1>1 DEF IInv, BodyAsDescribed
<1> QED
  BY <1>5, <1>6, <1>7, <1>8 DEF IInv

\* What is collected of a view: its document, as it is, or nothing.
LEMMA CollectsOneLoad ==
  ASSUME IInv, NEW v \in Views, context[v] # 0
  PROVE  /\ Collect(v).load = context[v]
         /\ OfOneLoad(context[v], Collect(v).content, Collect(v).canvas)
<1> DEFINE r == loads[context[v]]
           content == IF r.outputDOM THEN {frame[v]} ELSE {}
           canvas == IF r.render /\ r.paint
                     THEN {[page |-> frame[v], layout |-> window[v], size |-> r.paintRect]}
                     ELSE {}
           pages == content \cup {c.page : c \in canvas}
<1>1. /\ Collect(v).load = context[v] /\ Collect(v).content = content
      /\ Collect(v).canvas = canvas
  BY DEF Collect
<1>2. \A c \in canvas : c.page = frame[v] /\ c.size = r.paintRect
  OBVIOUS
<1>3. \A page \in pages : page = frame[v]
  BY <1>2
<1>4. pages = {Blank} \/ \A page \in pages : page.load = context[v]
  <2> HIDE DEF pages
  <2>1. frame[v] # Blank => frame[v].load = context[v]
    BY DEF IInv, ViewsInv
  <2> QED
    BY <1>3, <2>1
<1>5. context[v] \in 1..Len(loads)
  BY LenProperties DEF IInv, TypeInv
<1>6. OfOneLoad(context[v], content, canvas)
  <2>1. \A c \in canvas : c.size = loads[context[v]].paintRect
    BY <1>2
  <2> HIDE DEF content, canvas
  <2> QED
    BY <1>4, <1>5, <2>1 DEF OfOneLoad, pages
<1> HIDE DEF content, canvas
<1> QED
  BY <1>1, <1>6

\* The load moves from its view to the worker, with one state of its page.
LEMMA DoResponseOnMainThreadStep ==
  ASSUME IInv, NEW v \in Views, DoResponseOnMainThread(v)
  PROVE  IInv'
<1> DEFINE task == Collect(v)
           n == Len(workerTasks)
<1>1. /\ context[v] # 0 /\ workerTasks' = Append(workerTasks, task)
      /\ context' = [context EXCEPT ![v] = 0] /\ frame' = [frame EXCEPT ![v] = Blank]
      /\ UNCHANGED <<loads, preferences, window, resized, called>>
  BY DEF DoResponseOnMainThread, Blanked
<1>2. task.load = context[v] /\ OfOneLoad(context[v], task.content, task.canvas)
  BY <1>1, CollectsOneLoad
<1> HIDE DEF task
<1>3. /\ loads \in Seq(Requests) /\ Len(loads) \in Nat
      /\ context \in [Views -> 0..Len(loads)] /\ frame \in [Views -> Pages]
      /\ IsSequence(workerTasks)
  BY LenProperties DEF IInv, TypeInv
<1>4. /\ IsSequence(workerTasks') /\ DOMAIN workerTasks' = 1..(n + 1)
      /\ DOMAIN workerTasks = 1..n /\ n \in Nat
      /\ \A i \in 1..n : workerTasks'[i] = workerTasks[i]
      /\ workerTasks'[n + 1] = task
  BY <1>1, <1>3, Pushed, Shape
<1> HIDE DEF n
<1>5. Blank \in Pages /\ Blank.sent = {}
  BY DEF Blank, Pages
<1>6. /\ context' \in [Views -> 0..Len(loads)] /\ frame' \in [Views -> Pages]
      /\ context'[v] = 0 /\ frame'[v] = Blank
      /\ \A w \in Views : w # v => context'[w] = context[w] /\ frame'[w] = frame[w]
  BY <1>1, <1>3, <1>5
<1>7. TypeInv'
  BY <1>1, <1>4, <1>6 DEF IInv, TypeInv
<1>8. ViewsInv'
  BY <1>1, <1>6 DEF IInv, ViewsInv
<1>9. TasksInv'
  <2> SUFFICES ASSUME NEW i \in 1..(n + 1)
               PROVE  OfOneLoad(workerTasks'[i].load, workerTasks'[i].content,
                                workerTasks'[i].canvas)
    BY <1>1, <1>4 DEF TasksInv, OfOneLoad
  <2>1. CASE i \in 1..n
    BY <1>4, <2>1 DEF IInv, TasksInv
  <2>2. CASE i = n + 1
    BY <1>2, <1>4, <2>2
  <2> QED
    BY <1>4, <2>1, <2>2
<1>10. CalledInv'
  BY <1>1 DEF IInv, CalledInv, OfOneLoad
<1>11. OnePlace'
  <2>1. \A i \in 1..n : workerTasks[i].load # 0 /\ workerTasks[i].load # context[v]
    BY <1>3, <1>4 DEF IInv, TasksInv, OfOneLoad, OnePlace
  <2>2. \A i \in DOMAIN called : called[i].load # 0 /\ called[i].load # context[v]
    BY <1>3 DEF IInv, CalledInv, OfOneLoad, OnePlace
  <2>3. \A w \in Views : context'[w] # context[v]
    BY <1>1, <1>6 DEF IInv, OnePlace
  <2>4. \A i \in 1..(n + 1) : \/ i \in 1..n /\ workerTasks'[i].load = workerTasks[i].load
                              \/ i = n + 1 /\ workerTasks'[i].load = context[v]
    BY <1>2, <1>4
  <2>5. /\ \A u, w \in Views : context'[u] # 0 /\ context'[u] = context'[w] => u = w
        /\ \A w \in Views : \A i \in DOMAIN called : called[i].load # context'[w]
    BY <1>6, <2>2 DEF IInv, OnePlace
  <2>6. \A w \in Views : \A i \in 1..n : workerTasks[i].load # context'[w]
    BY <1>4, <1>6, <2>1 DEF IInv, OnePlace
  <2>7. /\ \A w \in Views : \A i \in 1..(n + 1) : workerTasks'[i].load # context'[w]
        /\ \A i \in 1..(n + 1) : \A j \in DOMAIN called : workerTasks'[i].load # called[j].load
    BY <1>4, <2>2, <2>3, <2>4, <2>6 DEF IInv, OnePlace
  <2>8. \A i, j \in 1..(n + 1) : workerTasks'[i].load = workerTasks'[j].load => i = j
    BY <1>4, <2>1, <2>4 DEF IInv, OnePlace
  <2> QED
    BY <1>1, <1>4, <2>5, <2>7, <2>8 DEF IInv, OnePlace
<1>12. BodyAsDescribed'
  BY <1>5, <1>6 DEF IInv, BodyAsDescribed
<1> QED
  BY <1>7, <1>8, <1>9, <1>10, <1>11, <1>12 DEF IInv

\* The load moves from the worker to the callbacks, if it has one.
LEMMA DoResponseOnWorkerThreadStep ==
  ASSUME IInv, DoResponseOnWorkerThread
  PROVE  IInv'
<1> DEFINE task == Head(workerTasks)
           info == IF task.renderInfo = <<>> THEN <<>> ELSE ParseRenderInfo(task.renderInfo)
           answer == [load |-> task.load, content |-> task.content, image |-> task.canvas,
                      renderInfo |-> info]
           n == Len(workerTasks)
           m == Len(called)
<1>1. /\ workerTasks # <<>> /\ workerTasks' = Tail(workerTasks)
      /\ called' = IF ~loads[task.load].callback THEN called ELSE Append(called, answer)
      /\ UNCHANGED <<loads, context, preferences, window, resized, frame>>
  BY DEF DoResponseOnWorkerThread, viewVars, CallbackData
<1> HIDE DEF info
<1>2. answer.load = task.load /\ answer.content = task.content /\ answer.image = task.canvas
  OBVIOUS
<1> HIDE DEF answer
<1>3. /\ loads \in Seq(Requests) /\ Len(loads) \in Nat
      /\ context \in [Views -> 0..Len(loads)]
      /\ IsSequence(workerTasks) /\ IsSequence(called)
  BY LenProperties DEF IInv, TypeInv
<1>4. /\ IsSequence(workerTasks') /\ DOMAIN workerTasks' = 1..(n - 1)
      /\ task = workerTasks[1] /\ 1 \in DOMAIN workerTasks
      /\ DOMAIN workerTasks = 1..n /\ n \in Nat
      /\ \A i \in 1..(n - 1) : workerTasks'[i] = workerTasks[i + 1]
  BY <1>1, <1>3, Popped, Shape
<1> HIDE DEF n, task
<1>5. \A i \in 1..(n - 1) : /\ i + 1 \in 2..n /\ i + 1 \in DOMAIN workerTasks
                            /\ workerTasks'[i] = workerTasks[i + 1]
  BY <1>4
<1>6. OfOneLoad(task.load, task.content, task.canvas) /\ task.load \in 1..Len(loads)
  BY <1>4 DEF IInv, TasksInv, OfOneLoad
<1>7. /\ \A i \in 1..(n - 1) : workerTasks'[i].load # task.load
      /\ \A v \in Views : context[v] # task.load
      /\ \A j \in DOMAIN called : called[j].load # task.load
  <2>1. \A i \in 1..(n - 1) : i + 1 # 1
    BY <1>4
  <2> QED
    BY <1>4, <1>5, <2>1 DEF IInv, OnePlace
<1>8. TasksInv'
  BY <1>1, <1>4, <1>5 DEF IInv, TasksInv, OfOneLoad
<1>9. ViewsInv' /\ BodyAsDescribed'
  BY <1>1 DEF IInv, ViewsInv, BodyAsDescribed
<1>10. /\ \A i, j \in 1..(n - 1) : workerTasks'[i].load = workerTasks'[j].load => i = j
       /\ \A i \in 1..(n - 1) : \A j \in DOMAIN called : workerTasks'[i].load # called[j].load
       /\ \A v \in Views : \A i \in 1..(n - 1) : workerTasks'[i].load # context[v]
  <2>1. \A i, j \in 1..(n - 1) : i + 1 = j + 1 => i = j
    BY <1>4
  <2>2. \A i, j \in 1..(n - 1) : workerTasks'[i].load = workerTasks'[j].load => i + 1 = j + 1
    BY <1>5 DEF IInv, OnePlace
  <2>3. \A i \in 1..(n - 1) : \A j \in DOMAIN called : workerTasks'[i].load # called[j].load
    BY <1>5 DEF IInv, OnePlace
  <2>4. \A v \in Views : \A i \in 1..(n - 1) : workerTasks'[i].load # context[v]
    BY <1>5 DEF IInv, OnePlace
  <2> QED
    BY <2>1, <2>2, <2>3, <2>4
<1>11. CASE ~loads[task.load].callback
  <2>1. called' = called
    BY <1>1, <1>11
  <2>2. TypeInv'
    BY <1>1, <1>4, <2>1 DEF IInv, TypeInv
  <2>3. CalledInv'
    BY <1>1, <2>1 DEF IInv, CalledInv, OfOneLoad
  <2>4. OnePlace'
    BY <1>1, <1>4, <1>10, <2>1 DEF IInv, OnePlace
  <2> QED
    BY <1>8, <1>9, <2>2, <2>3, <2>4 DEF IInv
<1>12. CASE loads[task.load].callback
  <2>1. called' = Append(called, answer)
    BY <1>1, <1>12
  <2>2. /\ IsSequence(called') /\ DOMAIN called' = 1..(m + 1) /\ m \in Nat
        /\ DOMAIN called = 1..m
        /\ \A j \in 1..m : called'[j] = called[j]
        /\ called'[m + 1] = answer
    BY <1>3, <2>1, Pushed, Shape
  <2> HIDE DEF m
  <2>3. TypeInv'
    BY <1>1, <1>4, <2>2 DEF IInv, TypeInv
  <2>4. CalledInv'
    <3> SUFFICES ASSUME NEW j \in 1..(m + 1)
                 PROVE  /\ OfOneLoad(called'[j].load, called'[j].content, called'[j].image)
                        /\ loads[called'[j].load].callback
      BY <1>1, <2>2 DEF CalledInv, OfOneLoad
    <3>1. CASE j \in 1..m
      BY <2>2, <3>1 DEF IInv, CalledInv
    <3>2. CASE j = m + 1
      BY <1>2, <1>6, <1>12, <2>2, <3>2
    <3> QED
      BY <2>2, <3>1, <3>2
  <2>5. OnePlace'
    <3>1. \A j \in 1..(m + 1) : \/ j \in 1..m /\ called'[j].load = called[j].load
                                \/ j = m + 1 /\ called'[j].load = task.load
      BY <1>2, <2>2
    <3>2. \A i, j \in 1..(m + 1) : called'[i].load = called'[j].load => i = j
      BY <1>7, <2>2, <3>1 DEF IInv, OnePlace
    <3>3. \A v \in Views : \A j \in 1..(m + 1) : called'[j].load # context[v]
      BY <1>7, <2>2, <3>1 DEF IInv, OnePlace
    <3>4. \A i \in 1..(n - 1) : \A j \in 1..(m + 1) : workerTasks'[i].load # called'[j].load
      BY <1>7, <1>10, <2>2, <3>1
    <3> QED
      BY <1>1, <1>4, <1>10, <2>2, <3>2, <3>3, <3>4 DEF IInv, OnePlace
  <2> QED
    BY <1>8, <1>9, <2>3, <2>4, <2>5 DEF IInv
<1> QED
  BY <1>11, <1>12

\* IInv is inductive.
LEMMA NextInv == IInv /\ [Next]_vars => IInv'
<1> SUFFICES ASSUME IInv, [Next]_vars PROVE IInv'
  OBVIOUS
<1>1. CASE UNCHANGED vars
  <2>1. UNCHANGED <<loads, context, preferences, window, resized, frame, workerTasks, called>>
    BY <1>1 DEF vars, viewVars
  <2>2. TasksInv' /\ CalledInv' /\ OnePlace'
    BY <2>1, ElsewhereKept
  <2>3. TypeInv' /\ ViewsInv' /\ BodyAsDescribed'
    BY <2>1 DEF IInv, TypeInv, ViewsInv, BodyAsDescribed
  <2> QED
    BY <2>2, <2>3 DEF IInv
<1>2. CASE \E v \in Views : \E r \in Requests : Load(v, r)
  BY <1>2, LoadStep
<1>3. CASE \E v \in Views : Commit(v)
  BY <1>3, CommitStep
<1>4. CASE \E v \in Views : DoResponseOnMainThread(v)
  BY <1>4, DoResponseOnMainThreadStep
<1>5. CASE \E v \in Views : \E size \in PageSizes : PageResizes(v, size)
  BY <1>5, PageResizesStep
<1>6. CASE DoResponseOnWorkerThread
  BY <1>6, DoResponseOnWorkerThreadStep
<1> QED
  BY <1>1, <1>2, <1>3, <1>4, <1>5, <1>6 DEF Next

-----------------------------------------------------------------------------
(* Induction over a text. *)

\* Every set of numbers that is not empty has a least one.
LEMMA Least ==
  ASSUME NEW S \in SUBSET Nat, S # {}
  PROVE  \E n \in S : \A m \in S : n <= m
<1> DEFINE R == OpToRel(<, Nat)
<1>1. IsWellFoundedOn(R, Nat)
  BY NatLessThanWellFounded, Zenon
<1>2. \A m, n \in Nat : m < n => <<m, n>> \in R
  BY Zenon DEF OpToRel
<1> HIDE DEF R
<1>3. PICK n \in S : \A m \in S : ~ (<<m, n>> \in R)
  BY <1>1, WFMin
<1>4. \A m \in S : ~(m < n)
  BY <1>2, <1>3
<1> QED
  BY <1>4

\* A set of numbers with 0, and with n + 1 if it has n, has all of them.
LEMMA AllNumbers ==
  ASSUME NEW N \in Nat, NEW T, 0 \in T, \A n \in 0..(N - 1) : n \in T => n + 1 \in T
  PROVE  \A n \in 0..N : n \in T
<1> DEFINE S == {n \in Nat : n <= N /\ n \notin T}
<1>1. ASSUME S # {} PROVE FALSE
  <2>1. PICK n \in S : \A m \in S : n <= m
    BY <1>1, Least
  <2>2. n # 0 /\ n - 1 \in 0..(N - 1) /\ n - 1 \notin S /\ (n - 1) + 1 = n
    BY <2>1
  <2>3. n - 1 \in T
    BY <2>2
  <2> QED
    BY <2>1, <2>2, <2>3
<1> QED
  BY <1>1

\* What the dump is written with.
Chars == [char : {"first", "|", "{", "digits", ",", "}"}, number : Int]

\* The parser reads t, which takes it from state p to state q.
Reads(p, t, q) ==
  \E g : /\ g[0] = p /\ g[Len(t)] = q
         /\ \A k \in 1..Len(t) : g[k] = ParseChar(g[k - 1], t[k])

LEMMA ReadsNothing ==
  ASSUME NEW p
  PROVE  Reads(p, <<>>, p)
<1> DEFINE g == [k \in {0} |-> p]
<1>1. Len(<<>>) = 0
  BY EmptySeq
<1>2. g[0] = p /\ \A k \in 1..0 : g[k] = ParseChar(g[k - 1], <<>>[k])
  OBVIOUS
<1> HIDE DEF g
<1> QED
  BY <1>1, <1>2 DEF Reads

LEMMA ReadsOne ==
  ASSUME NEW p, NEW c
  PROVE  Reads(p, <<c>>, ParseChar(p, c))
<1> DEFINE g == [k \in {0, 1} |-> IF k = 0 THEN p ELSE ParseChar(p, c)]
<1>1. Len(<<c>>) = 1 /\ <<c>>[1] = c
  OBVIOUS
<1>2. g[0] = p /\ g[1] = ParseChar(p, c)
  OBVIOUS
<1> HIDE DEF g
<1>3. \A k \in 1..1 : g[k] = ParseChar(g[k - 1], <<c>>[k])
  <2>1. \A k \in 1..1 : k = 1 /\ k - 1 = 0
    OBVIOUS
  <2> QED
    BY <1>1, <1>2, <2>1
<1> QED
  BY <1>1, <1>2, <1>3 DEF Reads

LEMMA ReadsBoth ==
  ASSUME NEW s \in Seq(Chars), NEW t \in Seq(Chars), NEW p, NEW q, NEW r,
         Reads(p, s, q), Reads(q, t, r)
  PROVE  Reads(p, s \o t, r)
<1>1. PICK f : /\ f[0] = p /\ f[Len(s)] = q
               /\ \A k \in 1..Len(s) : f[k] = ParseChar(f[k - 1], s[k])
  BY DEF Reads
<1>2. PICK g : /\ g[0] = q /\ g[Len(t)] = r
               /\ \A k \in 1..Len(t) : g[k] = ParseChar(g[k - 1], t[k])
  BY DEF Reads
<1> DEFINE m == Len(s)
           n == Len(t)
           h == [k \in 0..(m + n) |-> IF k <= m THEN f[k] ELSE g[k - m]]
<1>3. /\ m \in Nat /\ n \in Nat /\ s \o t \in Seq(Chars) /\ Len(s \o t) = m + n
      /\ \A k \in 1..(m + n) : (s \o t)[k] = IF k <= m THEN s[k] ELSE t[k - m]
  BY ConcatProperties, LenProperties
<1> HIDE DEF m, n
<1>4. h[0] = p /\ h[m + n] = r
  <2>1. h[0] = f[0]
    BY <1>3
  <2>2. CASE n = 0
    <3>1. h[m + n] = f[m] /\ q = r
      BY <1>2, <1>3, <2>2 DEF n
    <3> QED
      BY <1>1, <2>1, <3>1 DEF m
  <2>3. CASE n # 0
    <3>1. ~(m + n <= m) /\ (m + n) - m = n /\ m + n \in 0..(m + n)
      BY <1>3, <2>3
    <3> QED
      BY <1>1, <1>2, <2>1, <3>1 DEF n
  <2> QED
    BY <2>2, <2>3
<1>5. ASSUME NEW k \in 1..(m + n)
      PROVE  h[k] = ParseChar(h[k - 1], (s \o t)[k])
  <2>1. k \in 0..(m + n) /\ k - 1 \in 0..(m + n)
    BY <1>3
  <2>2. CASE k <= m
    <3>1. h[k] = f[k] /\ h[k - 1] = f[k - 1] /\ (s \o t)[k] = s[k] /\ k \in 1..m
      BY <1>3, <2>1, <2>2
    <3> QED
      BY <1>1, <3>1 DEF m
  <2>3. CASE ~(k <= m)
    <3>1. h[k] = g[k - m] /\ (s \o t)[k] = t[k - m] /\ k - m \in 1..n
      BY <1>3, <2>1, <2>3
    <3>2. h[k - 1] = g[(k - m) - 1]
      <4>1. CASE k - 1 <= m
        <5>1. k - 1 = m /\ (k - m) - 1 = 0
          BY <1>3, <2>3, <4>1
        <5>2. h[k - 1] = f[m]
          BY <2>1, <4>1, <5>1
        <5> QED
          BY <1>1, <1>2, <5>1, <5>2 DEF m
      <4>2. CASE ~(k - 1 <= m)
        <5>1. (k - 1) - m = (k - m) - 1
          BY <1>3
        <5> QED
          BY <2>1, <4>2, <5>1
      <4> QED
        BY <4>1, <4>2
    <3> QED
      BY <1>2, <3>1, <3>2 DEF n
  <2> QED
    BY <2>2, <2>3
<1> HIDE DEF h
<1> QED
  BY <1>3, <1>4, <1>5 DEF Reads, m

-----------------------------------------------------------------------------
(* The parser, one character at a time. *)

Empty == Separator("empty")
Bar == Separator("|")
Open == Separator("{")
Comma == Separator(",")
Close == Separator("}")

\* A state of the parser within a line.
State(id, offset, token, values, infos) ==
  [inParse |-> TRUE, blockId |-> id, offset |-> offset, token |-> token,
   values |-> values, infos |-> infos]

\* The layout of the blocks in ids only.
Part(blocks, ids) == [id \in ids |-> blocks[id]]

\* Between two lines, when it has the blocks in ids.
Between(id, blocks, ids) ==
  [inParse |-> FALSE, blockId |-> id, offset |-> 1, token |-> Empty, values |-> NoFields,
   infos |-> Part(blocks, ids)]

LEMMA CharsWritten ==
  /\ {Separator("first"), Bar, Open, Comma, Close} \subseteq Chars
  /\ \A n \in Int : Number(n) \in Chars /\ Number(n) # Empty
  BY DEF Chars, Separator, Number, Empty, Bar, Open, Comma, Close

\* A line begins,
LEMMA ParseBegin ==
  ASSUME NEW id, NEW blocks, NEW ids
  PROVE  ParseChar(Between(id, blocks, ids), Bar)
           = State(id, 1, Empty, NoFields, Part(blocks, ids))
  BY DEF ParseChar, State, Between, Separator, Bar

\* a number is kept as the token,
LEMMA ParseNumber ==
  ASSUME NEW id, NEW offset, NEW token, NEW values, NEW infos, NEW n
  PROVE  ParseChar(State(id, offset, token, values, infos), Number(n))
           = State(id, offset, Number(n), values, infos)
  BY DEF ParseChar, State, Number

\* as the block's before "{",
LEMMA ParseOpen ==
  ASSUME NEW id, NEW offset, NEW n, NEW values, NEW infos
  PROVE  ParseChar(State(id, offset, Number(n), values, infos), Open)
           = State(n, offset, Empty, values, infos)
  BY DEF ParseChar, State, Number, Separator, Empty, Open

\* and as a field's before "," and "}"; without one the field stays 0.
FieldToken(n) == IF n = 0 THEN Empty ELSE Number(n)

LEMMA TokenParsed ==
  ASSUME NEW id, NEW offset \in {1, 2}, NEW n \in Int, NEW infos,
         NEW values \in Fields, values[offset] = 0
  PROVE  ParseToken(State(id, offset, FieldToken(n), values, infos))
           = State(id, offset, FieldToken(n), [values EXCEPT ![offset] = n], infos)
<1>1. CASE n = 0
  <2>1. [values EXCEPT ![offset] = n] = values
    BY <1>1 DEF Fields
  <2> QED
    BY <1>1, <2>1 DEF ParseToken, FieldToken, State, Empty
<1>2. CASE n # 0
  <2>1. FieldToken(n) = Number(n) /\ Number(n) # Empty /\ Number(n).number = n
    BY <1>2 DEF FieldToken, Number, Empty, Separator
  <2> QED
    BY <2>1 DEF ParseToken, State, Empty
<1> QED
  BY <1>1, <1>2

\* The parser moves on to the next field.
LEMMA FieldDone ==
  ASSUME NEW id, NEW token, NEW values, NEW infos
  PROVE  /\ [State(id, 1, token, values, infos) EXCEPT !.offset = 2]
              = State(id, 2, token, values, infos)
         /\ [State(id, 2, token, values, infos) EXCEPT !.token = Empty]
              = State(id, 2, Empty, values, infos)
<1>1. ASSUME NEW inParse
      PROVE  /\ [[inParse |-> inParse, blockId |-> id, offset |-> 1, token |-> token,
                   values |-> values, infos |-> infos] EXCEPT !.offset = 2]
                  = [inParse |-> inParse, blockId |-> id, offset |-> 2, token |-> token,
                     values |-> values, infos |-> infos]
             /\ [[inParse |-> inParse, blockId |-> id, offset |-> 2, token |-> token,
                   values |-> values, infos |-> infos] EXCEPT !.token = Empty]
                  = [inParse |-> inParse, blockId |-> id, offset |-> 2, token |-> Empty,
                     values |-> values, infos |-> infos]
  OBVIOUS
<1> QED
  BY <1>1, Zenon DEF State

LEMMA ParseComma ==
  ASSUME NEW id, NEW a \in Int, NEW infos
  PROVE  ParseChar(State(id, 1, FieldToken(a), NoFields, infos), Comma)
           = State(id, 2, Empty, <<a, 0>>, infos)
<1> DEFINE p == State(id, 1, FieldToken(a), NoFields, infos)
           q == State(id, 1, FieldToken(a), <<a, 0>>, infos)
<1>1. NoFields \in Fields /\ NoFields[1] = 0 /\ [NoFields EXCEPT ![1] = a] = <<a, 0>>
  BY DEF NoFields, Fields
<1>2. ParseToken(p) = q
  BY <1>1, TokenParsed
<1>3. q.offset = 1 /\ 1 + 1 = 2
  BY DEF State
<1> HIDE DEF p
<1>4. ParseChar(p, Comma) = [ParseToken(p) EXCEPT !.offset = @ + 1, !.token = Empty]
  BY DEF ParseChar, Separator, Empty, Comma
<1>5. [q EXCEPT !.offset = 2] = State(id, 2, FieldToken(a), <<a, 0>>, infos)
  BY FieldDone
<1> DEFINE u == State(id, 2, FieldToken(a), <<a, 0>>, infos)
<1>6. [u EXCEPT !.token = Empty] = State(id, 2, Empty, <<a, 0>>, infos)
  BY FieldDone
<1> HIDE DEF q, u
<1>7. ParseChar(p, Comma) = [[q EXCEPT !.offset = 2] EXCEPT !.token = Empty]
  BY <1>2, <1>3, <1>4, Zenon
<1>8. ParseChar(p, Comma) = [u EXCEPT !.token = Empty]
  BY <1>5, <1>7, Zenon DEF u
<1> QED
  BY <1>6, <1>8, Zenon DEF p

LEMMA ParseClose ==
  ASSUME NEW id, NEW a \in Int, NEW b \in Int, NEW blocks, NEW ids,
         blocks[id] = <<a, b>>
  PROVE  ParseChar(State(id, 2, FieldToken(b), <<a, 0>>, Part(blocks, ids)),
                   Close)
           = Between(id, blocks, ids \cup {id})
<1> DEFINE infos == Part(blocks, ids)
           p == State(id, 2, FieldToken(b), <<a, 0>>, infos)
           q == State(id, 2, FieldToken(b), <<a, b>>, infos)
<1>1. <<a, 0>> \in Fields /\ <<a, 0>>[2] = 0 /\ [<<a, 0>> EXCEPT ![2] = b] = <<a, b>>
  BY DEF Fields
<1>2. ParseToken(p) = q
  BY <1>1, TokenParsed
<1>3. q.blockId = id /\ q.values = <<a, b>> /\ q.infos = infos
  BY DEF State
<1>4. [other \in {id} \cup DOMAIN infos |-> IF other = id THEN <<a, b>> ELSE infos[other]]
        = Part(blocks, ids \cup {id})
  BY DEF Part
<1> HIDE DEF p, q, infos
<1>5. ParseChar(p, Close) =
        [inParse |-> FALSE, blockId |-> q.blockId, offset |-> 1, token |-> Empty,
         values |-> NextLine(q.values),
         infos |-> [other \in {q.blockId} \cup DOMAIN q.infos |->
                      IF other = q.blockId THEN q.values ELSE q.infos[other]]]
  BY <1>2 DEF ParseChar, Separator, Empty, Close
<1>6. ParseChar(p, Close) =
        [inParse |-> FALSE, blockId |-> id, offset |-> 1, token |-> Empty,
         values |-> NoFields, infos |-> Part(blocks, ids \cup {id})]
  BY <1>3, <1>4, <1>5, Zenon DEF NextLine
<1>7. p = State(id, 2, FieldToken(b), <<a, 0>>, Part(blocks, ids))
  BY DEF p, infos
<1> QED
  BY <1>6, <1>7, Zenon DEF Between

-----------------------------------------------------------------------------
(* The parser, one line at a time. *)

LEMMA ReadsNext ==
  ASSUME NEW s \in Seq(Chars), NEW c \in Chars, NEW p, NEW q, Reads(p, s, q)
  PROVE  s \o <<c>> \in Seq(Chars) /\ Reads(p, s \o <<c>>, ParseChar(q, c))
<1>1. <<c>> \in Seq(Chars) /\ s \o <<c>> \in Seq(Chars)
  OBVIOUS
<1>2. Reads(q, <<c>>, ParseChar(q, c))
  BY ReadsOne
<1> QED
  BY <1>1, <1>2, ReadsBoth

LEMMA ReadsThree ==
  ASSUME NEW c \in Chars, NEW d \in Chars, NEW e \in Chars, NEW p
  PROVE  /\ <<c, d, e>> \in Seq(Chars)
         /\ Reads(p, <<c, d, e>>, ParseChar(ParseChar(ParseChar(p, c), d), e))
<1> DEFINE t == <<c, d, e>>
           p1 == ParseChar(p, c)
           p2 == ParseChar(p1, d)
           p3 == ParseChar(p2, e)
           g == [k \in 0..3 |-> IF k = 0 THEN p ELSE IF k = 1 THEN p1
                                ELSE IF k = 2 THEN p2 ELSE p3]
<1>1. t \in Seq(Chars) /\ Len(t) = 3 /\ t[1] = c /\ t[2] = d /\ t[3] = e
  OBVIOUS
<1>2. g[0] = p /\ g[1] = p1 /\ g[2] = p2 /\ g[3] = p3
  OBVIOUS
<1> HIDE DEF g, t
<1>3. \A k \in 1..3 : g[k] = ParseChar(g[k - 1], t[k])
  <2>1. \A k \in 1..3 : \/ k = 1 /\ k - 1 = 0
                        \/ k = 2 /\ k - 1 = 1
                        \/ k = 3 /\ k - 1 = 2
    OBVIOUS
  <2> QED
    BY <1>1, <1>2, <2>1
<1>4. Reads(p, t, p3)
  BY <1>1, <1>2, <1>3 DEF Reads
<1> QED
  BY <1>1, <1>4 DEF t

LEMMA ReadsWritten ==
  ASSUME NEW n \in Int, NEW id, NEW offset, NEW values, NEW infos
  PROVE  /\ Written(n) \in Seq(Chars)
         /\ Reads(State(id, offset, Empty, values, infos), Written(n),
                  State(id, offset, FieldToken(n), values, infos))
<1> DEFINE p == State(id, offset, Empty, values, infos)
           q == State(id, offset, FieldToken(n), values, infos)
<1>1. Written(n) \in Seq(Chars)
  <2>1. Number(n) \in Chars
    BY CharsWritten
  <2> QED
    BY <2>1 DEF Written
<1>2. CASE n = 0
  <2>1. p = q
    BY <1>2 DEF FieldToken
  <2>2. Written(n) = <<>>
    BY <1>2 DEF Written
  <2> HIDE DEF p, q
  <2>3. Reads(p, Written(n), q)
    BY <2>1, <2>2, ReadsNothing
  <2> QED
    BY <1>1, <2>3, Zenon DEF p, q
<1>3. CASE n # 0
  <2>1. FieldToken(n) = Number(n)
    BY <1>3 DEF FieldToken
  <2>2. ParseChar(p, Number(n)) = q
    BY <2>1, ParseNumber
  <2>3. Written(n) = <<Number(n)>>
    BY <1>3 DEF Written
  <2> HIDE DEF p, q
  <2>4. Reads(p, Written(n), q)
    BY <2>2, <2>3, ReadsOne
  <2> QED
    BY <1>1, <2>4, Zenon DEF p, q
<1> QED
  BY <1>2, <1>3

\* A line adds its block.
LEMMA LineParsed ==
  ASSUME NEW last, NEW blocks, NEW ids, NEW id \in Int, blocks[id] \in Fields
  PROVE  /\ Line(id, blocks[id]) \in Seq(Chars)
         /\ Reads(Between(last, blocks, ids), Line(id, blocks[id]),
                  Between(id, blocks, ids \cup {id}))
<1> DEFINE infos == Part(blocks, ids)
           s1 == <<Bar, Number(id), Open>>
           s2 == s1 \o Written(blocks[id][1])
           s3 == s2 \o <<Comma>>
           s4 == s3 \o Written(blocks[id][2])
           p0 == Between(last, blocks, ids)
           p1 == State(id, 1, Empty, NoFields, infos)
<1>1. PICK a \in Int, b \in Int : blocks[id] = <<a, b>>
  BY DEF Fields
<1>2. blocks[id][1] = a /\ blocks[id][2] = b
  BY <1>1
<1> DEFINE p2 == State(id, 1, FieldToken(a), NoFields, infos)
           p3 == State(id, 2, Empty, <<a, 0>>, infos)
           p4 == State(id, 2, FieldToken(b), <<a, 0>>, infos)
           p5 == Between(id, blocks, ids \cup {id})
<1>3. Bar \in Chars /\ Open \in Chars /\ Comma \in Chars /\ Close \in Chars
      /\ Number(id) \in Chars
  BY CharsWritten
<1>4. ParseChar(ParseChar(ParseChar(p0, Bar), Number(id)), Open) = p1
  BY ParseBegin, ParseNumber, ParseOpen
<1>5. Written(a) \in Seq(Chars) /\ Reads(p1, Written(a), p2)
  BY ReadsWritten
<1>6. ParseChar(p2, Comma) = p3
  BY ParseComma
<1>7. Written(b) \in Seq(Chars) /\ Reads(p3, Written(b), p4)
  BY ReadsWritten
<1>8. ParseChar(p4, Close) = p5
  BY <1>1, ParseClose
<1>9. Line(id, blocks[id]) = s4 \o <<Close>>
  BY Zenon DEF Line, Bar, Open, Comma, Close
<1> HIDE DEF p0, p1, p2, p3, p4, p5
<1>10. s1 \in Seq(Chars) /\ Reads(p0, s1, p1)
  BY <1>3, <1>4, ReadsThree
<1> HIDE DEF s1
<1>11. s2 \in Seq(Chars) /\ Reads(p0, s2, p2)
  <2>1. s1 \o Written(a) \in Seq(Chars)
    BY <1>5, <1>10
  <2>2. Reads(p0, s1 \o Written(a), p2)
    BY <1>5, <1>10, ReadsBoth
  <2> QED
    BY <1>2, <2>1, <2>2
<1> HIDE DEF s2
<1>12. s3 \in Seq(Chars) /\ Reads(p0, s3, p3)
  BY <1>3, <1>6, <1>11, ReadsNext
<1> HIDE DEF s3
<1>13. s4 \in Seq(Chars) /\ Reads(p0, s4, p4)
  <2>1. s3 \o Written(b) \in Seq(Chars)
    BY <1>7, <1>12
  <2>2. Reads(p0, s3 \o Written(b), p4)
    BY <1>7, <1>12, ReadsBoth
  <2> QED
    BY <1>2, <2>1, <2>2
<1> HIDE DEF s4
<1>14. s4 \o <<Close>> \in Seq(Chars) /\ Reads(p0, s4 \o <<Close>>, p5)
  BY <1>3, <1>8, <1>13, ReadsNext
<1> QED
  BY <1>9, <1>14, Zenon DEF p0, p5

-----------------------------------------------------------------------------
(* The parser and the dump, on whole texts. *)

Start == Between(0, <<>>, {})

\* What the parser makes of a text, of which it skips the first character.
LEMMA TextParsed ==
  ASSUME NEW c \in Chars, NEW t \in Seq(Chars), NEW q, Reads(Start, t, q)
  PROVE  ParseRenderInfo(<<c>> \o t) = q.infos
<1> DEFINE text == <<c>> \o t
           start == [inParse |-> FALSE, blockId |-> 0, offset |-> 1,
                     token |-> Separator("empty"), values |-> NoFields, infos |-> <<>>]
           Equation(f) == f = [n \in 1..Len(text) |->
                                 IF n = 1 THEN start ELSE ParseChar(f[n - 1], text[n])]
           parsed == CHOOSE f : Equation(f)
           N == Len(t)
<1>1. ParseRenderInfo(text) = parsed[Len(text)].infos
  BY Zenon DEF ParseRenderInfo
<1>2. start = Start
  <2>1. Part(<<>>, {}) = <<>>
    BY DEF Part
  <2> QED
    BY <2>1, Zenon DEF Start, Between, Empty
<1>3. PICK g : /\ g[0] = Start /\ g[N] = q
               /\ \A k \in 1..N : g[k] = ParseChar(g[k - 1], t[k])
  BY DEF Reads
<1> HIDE DEF start
<1>4. /\ N \in Nat /\ Len(text) = N + 1
      /\ \A k \in 1..N : text[k + 1] = t[k]
  <2>1. <<c>> \in Seq(Chars) /\ Len(<<c>>) = 1
    OBVIOUS
  <2>2. /\ N \in Nat /\ Len(text) = 1 + N
        /\ \A i \in 1..(1 + N) : text[i] = IF i <= 1 THEN <<c>>[i] ELSE t[i - 1]
    BY <2>1, ConcatProperties, LenProperties
  <2>3. ASSUME NEW k \in 1..N PROVE text[k + 1] = t[k]
    <3>1. k + 1 \in 1..(1 + N) /\ ~(k + 1 <= 1) /\ (k + 1) - 1 = k
      BY <2>2
    <3> QED
      BY <2>2, <3>1
  <2> QED
    BY <2>2, <2>3
<1> HIDE DEF text, N
<1>5. Equation(parsed)
  <2> DEFINE h == [n \in 1..Len(text) |-> g[n - 1]]
  <2>1. ASSUME NEW n \in 1..Len(text)
        PROVE  g[n - 1] = IF n = 1 THEN start ELSE ParseChar(h[n - 1], text[n])
    <3>1. CASE n = 1
      <4>1. n - 1 = 0
        BY <3>1
      <4> QED
        BY <1>2, <1>3, <3>1, <4>1
    <3>2. CASE n # 1
      <4>1. n - 1 \in 1..N /\ n - 1 \in 1..Len(text) /\ (n - 1) + 1 = n
        BY <1>4, <3>2
      <4>2. h[n - 1] = g[(n - 1) - 1] /\ text[n] = t[n - 1]
        BY <1>4, <4>1
      <4>3. g[n - 1] = ParseChar(g[(n - 1) - 1], t[n - 1])
        BY <1>3, <4>1
      <4> QED
        BY <3>2, <4>2, <4>3
    <3> QED
      BY <3>1, <3>2
  <2>2. Equation(h)
    BY <2>1
  <2> HIDE DEF h, Equation
  <2> QED
    BY <2>2, Zenon
<1> HIDE DEF parsed
<1>6. \A n \in 1..(N + 1) :
        parsed[n] = IF n = 1 THEN Start ELSE ParseChar(parsed[n - 1], text[n])
  BY <1>2, <1>4, <1>5
<1> DEFINE T == {n \in 0..N : parsed[n + 1] = g[n]}
<1>7. 0 \in T
  BY <1>3, <1>4, <1>6
<1>8. ASSUME NEW n \in 0..(N - 1), n \in T
      PROVE  n + 1 \in T
  <2>1. n + 1 \in 1..N /\ (n + 1) + 1 \in 1..(N + 1) /\ (n + 1) + 1 # 1
        /\ ((n + 1) + 1) - 1 = n + 1 /\ (n + 1) - 1 = n /\ n + 1 \in 0..N
    BY <1>4
  <2>2. parsed[(n + 1) + 1] = ParseChar(parsed[n + 1], text[(n + 1) + 1])
    BY <1>6, <2>1
  <2>3. text[(n + 1) + 1] = t[n + 1] /\ g[n + 1] = ParseChar(g[n], t[n + 1])
    BY <1>3, <1>4, <2>1
  <2>4. parsed[n + 1] = g[n]
    BY <1>8
  <2> QED
    BY <2>1, <2>2, <2>3, <2>4
<1> HIDE DEF T
<1>9. \A n \in 0..N : n \in T
  BY <1>4, <1>7, <1>8, AllNumbers
<1>10. parsed[N + 1] = g[N]
  BY <1>4, <1>9 DEF T
<1> QED
  BY <1>1, <1>3, <1>4, <1>10 DEF text

\* SetToSeq gives each element of a finite set once.
LEMMA Ordered ==
  ASSUME NEW S, IsFiniteSet(S)
  PROVE  LET f == SetToSeq(S)
         IN  /\ f \in Seq(S) /\ Len(f) = Cardinality(S)
             /\ \A x \in S : \E i \in 1..Len(f) : f[i] = x
<1> DEFINE f == SetToSeq(S)
           n == Cardinality(S)
<1>1. n \in Nat /\ ExistsBijection(1..n, S)
  BY FS_NatBijection, FS_CountingElements, FS_CardinalityType
<1>2. PICK g : g \in [1..n -> S] /\ IsInjective(g)
  BY <1>1 DEF ExistsBijection, Bijection, Injection
<1>3. f \in [1..n -> S] /\ IsInjective(f)
  BY <1>2, Zenon DEF SetToSeq
<1> HIDE DEF f
<1>4. f \in Seq(S) /\ Len(f) = n
  BY <1>1, <1>3, SeqDef
<1>5. IsFiniteSet(1..n) /\ Cardinality(1..n) = n
  BY <1>1, FS_Interval
<1>6. f \in Injection(1..n, S)
  BY <1>3 DEF Injection
<1> HIDE DEF n
<1>7. f \in Surjection(1..n, S)
  BY <1>5, <1>6, FS_Injection DEF n
<1>8. \A x \in S : \E i \in 1..n : f[i] = x
  BY <1>7 DEF Surjection
<1> QED
  BY <1>4, <1>8 DEF f, n

\* The dump is the character to skip and a text of which the parser makes the
\* layout again.
LEMMA DumpParsed ==
  ASSUME NEW blocks, IsFiniteSet(DOMAIN blocks), DOMAIN blocks \subseteq Int,
         blocks \in [DOMAIN blocks -> Fields]
  PROVE  ParseRenderInfo(DumpRenderInfo(blocks)) = blocks
<1> DEFINE ids == SetToSeq(DOMAIN blocks)
           N == Len(ids)
           First == Separator("first")
           LineOf(n) == Line(ids[n], blocks[ids[n]])
           Equation(f) == f = [n \in 0..Len(ids) |->
                                 IF n = 0 THEN <<First>> ELSE f[n - 1] \o LineOf(n)]
           lines == CHOOSE f : Equation(f)
           Among(n) == {ids[k] : k \in 1..n}
<1>1. /\ ids \in Seq(DOMAIN blocks) /\ N \in Nat
      /\ \A id \in DOMAIN blocks : \E i \in 1..N : ids[i] = id
  BY Ordered, LenProperties
<1>2. DumpRenderInfo(blocks) = lines[Len(ids)]
  BY Zenon DEF DumpRenderInfo
<1> HIDE DEF ids, N
<1>3. \A n \in 1..N : ids[n] \in DOMAIN blocks /\ ids[n] \in Int /\ blocks[ids[n]] \in Fields
  BY <1>1, ElementOfSeq DEF N
<1>4. Among(0) = {} /\ Among(N) = DOMAIN blocks
  <2>1. \A k \in 1..0 : FALSE
    OBVIOUS
  <2>2. Among(N) = DOMAIN blocks
    BY <1>1, <1>3
  <2> QED
    BY <2>1, <2>2
<1>5. \A n \in 0..(N - 1) : Among(n + 1) = Among(n) \cup {ids[n + 1]}
  <2>1. \A n \in 0..(N - 1) : 1..(n + 1) = (1..n) \cup {n + 1}
    BY <1>1
  <2> SUFFICES ASSUME NEW n \in 0..(N - 1) PROVE Among(n + 1) = Among(n) \cup {ids[n + 1]}
    OBVIOUS
  <2>2. 1..(n + 1) = (1..n) \cup {n + 1}
    BY <2>1
  <2> QED
    BY <2>2, Zenon
<1> HIDE DEF LineOf, Among
<1>6. Equation(lines)
  <2> DEFINE Up(n, f) == f[0] = <<First>> /\ \A k \in 1..n : f[k] = f[k - 1] \o LineOf(k)
             T == {n \in 0..N : \E f : Up(n, f)}
  <2>1. 0 \in T
    <3> DEFINE f == [k \in {0} |-> <<First>>]
    <3>1. Up(0, f)
      OBVIOUS
    <3> HIDE DEF f, Up
    <3> QED
      BY <1>1, <3>1
  <2>2. ASSUME NEW n \in 0..(N - 1), n \in T
        PROVE  n + 1 \in T
    <3>1. PICK f : Up(n, f)
      BY <2>2
    <3> DEFINE h == [k \in 0..(n + 1) |-> IF k = n + 1 THEN f[n] \o LineOf(n + 1) ELSE f[k]]
    <3>2. n \in Nat /\ n + 1 \in 0..N /\ 0 # n + 1
      BY <1>1
    <3>3. h[0] = <<First>>
      BY <3>1, <3>2
    <3>4. ASSUME NEW k \in 1..(n + 1)
          PROVE  h[k] = h[k - 1] \o LineOf(k)
      <4>1. k - 1 \in 0..(n + 1) /\ k - 1 # n + 1 /\ h[k - 1] = f[k - 1]
        BY <3>2
      <4>2. CASE k = n + 1
        <5>1. k - 1 = n /\ n + 1 \in 0..(n + 1)
          BY <3>2, <4>2
        <5>2. h[n + 1] = f[n] \o LineOf(n + 1)
          BY <5>1, Zenon
        <5> HIDE DEF h
        <5> QED
          BY <4>1, <4>2, <5>1, <5>2
      <4>3. CASE k # n + 1
        <5>1. k \in 1..n /\ h[k] = f[k]
          BY <3>2, <4>3
        <5>2. f[k] = f[k - 1] \o LineOf(k)
          BY <3>1, <5>1
        <5> QED
          BY <4>1, <5>1, <5>2
      <4> QED
        BY <4>2, <4>3
    <3> HIDE DEF h
    <3>5. Up(n + 1, h)
      BY <3>3, <3>4
    <3> HIDE DEF Up
    <3> QED
      BY <3>2, <3>5
  <2> HIDE DEF T
  <2>3. N \in T
    BY <1>1, <2>1, <2>2, AllNumbers
  <2>4. PICK f : Up(N, f)
    BY <2>3 DEF T
  <2> DEFINE h == [n \in 0..Len(ids) |-> f[n]]
  <2>5. ASSUME NEW n \in 0..Len(ids)
        PROVE  f[n] = IF n = 0 THEN <<First>> ELSE h[n - 1] \o LineOf(n)
    <3>1. CASE n = 0
      BY <2>4, <3>1
    <3>2. CASE n # 0
      <4>1. n \in 1..N /\ h[n - 1] = f[n - 1]
        BY <1>1, <3>2 DEF N
      <4> QED
        BY <2>4, <3>2, <4>1
    <3> QED
      BY <3>1, <3>2
  <2>6. Equation(h)
    BY <2>5
  <2> HIDE DEF h, Equation
  <2> QED
    BY <2>6, Zenon
<1> HIDE DEF lines
<1>7. /\ lines[0] = <<First>>
      /\ \A n \in 1..N : lines[n] = lines[n - 1] \o LineOf(n)
  <2>1. \A n \in 0..N : lines[n] = IF n = 0 THEN <<First>> ELSE lines[n - 1] \o LineOf(n)
    BY <1>6 DEF N
  <2>2. 0 \in 0..N /\ \A n \in 1..N : n \in 0..N /\ n # 0
    BY <1>1
  <2> HIDE DEF First, LineOf
  <2> QED
    BY <2>1, <2>2
<1> DEFINE Known(n, q) == /\ q.infos = Part(blocks, Among(n))
                          /\ \E last : q = Between(last, blocks, Among(n))
           T == {n \in 0..N : \E t, q :
                   /\ t \in Seq(Chars) /\ lines[n] = <<First>> \o t
                   /\ Reads(Start, t, q)
                   /\ Known(n, q)}
<1> HIDE DEF First
<1>8. 0 \in T
  <2>1. <<>> \in Seq(Chars) /\ lines[0] = <<First>> \o <<>>
    BY <1>7
  <2>2. Start = Between(0, blocks, {})
    <3>1. Part(<<>>, {}) = Part(blocks, {})
      BY DEF Part
    <3> QED
      BY <3>1, Zenon DEF Start, Between
  <2>3. Between(0, blocks, {}).infos = Part(blocks, {})
    BY DEF Between
  <2>4. Known(0, Start)
    BY <1>4, <2>2, <2>3
  <2>5. Reads(Start, <<>>, Start)
    BY ReadsNothing
  <2> HIDE DEF Known
  <2>6. \E t, q : /\ t \in Seq(Chars) /\ lines[0] = <<First>> \o t
                      /\ Reads(Start, t, q)
                      /\ Known(0, q)
    BY <2>1, <2>4, <2>5, Zenon
  <2>7. 0 \in 0..N
    BY <1>1
  <2> QED
    BY <2>6, <2>7, Zenon
<1>9. ASSUME NEW n \in 0..(N - 1), n \in T
      PROVE  n + 1 \in T
  <2>1. PICK t, q, last :
          /\ t \in Seq(Chars) /\ lines[n] = <<First>> \o t
          /\ Reads(Start, t, q)
          /\ q = Between(last, blocks, Among(n))
    BY <1>9
  <2> DEFINE id == ids[n + 1]
             r == Between(id, blocks, Among(n + 1))
             u == t \o LineOf(n + 1)
  <2>2. n + 1 \in 1..N /\ n + 1 \in 0..N /\ (n + 1) - 1 = n
    BY <1>1
  <2>3. id \in Int /\ blocks[id] \in Fields /\ Among(n + 1) = Among(n) \cup {id}
    BY <1>3, <1>5, <2>2
  <2> HIDE DEF id
  <2>4. /\ LineOf(n + 1) \in Seq(Chars)
        /\ Reads(q, LineOf(n + 1), r)
    <3>1. /\ Line(id, blocks[id]) \in Seq(Chars)
          /\ Reads(Between(last, blocks, Among(n)), Line(id, blocks[id]),
                   Between(id, blocks, Among(n) \cup {id}))
      BY <2>3, LineParsed
    <3> QED
      BY <2>1, <2>3, <3>1 DEF LineOf, id
  <2>5. r.infos = Part(blocks, Among(n + 1))
    BY DEF Between
  <2>6. Known(n + 1, r)
    BY <2>5
  <2> HIDE DEF Known, r
  <2>7. u \in Seq(Chars) /\ Reads(Start, u, r)
    BY <2>1, <2>4, ReadsBoth, ConcatProperties
  <2>8. lines[n + 1] = <<First>> \o u
    <3>1. lines[n + 1] = (<<First>> \o t) \o LineOf(n + 1)
      BY <1>7, <2>1, <2>2
    <3>2. <<First>> \in Seq(Chars)
      BY CharsWritten DEF First
    <3> QED
      BY <2>1, <2>4, <3>1, <3>2, ConcatAssociative
  <2> HIDE DEF u
  <2> QED
    BY <2>2, <2>6, <2>7, <2>8
<1> HIDE DEF T
<1>10. N \in T
  BY <1>1, <1>8, <1>9, AllNumbers
<1>11. PICK t, q : /\ t \in Seq(Chars) /\ lines[N] = <<First>> \o t
                   /\ Reads(Start, t, q)
                   /\ Known(N, q)
  BY <1>10 DEF T
<1>12. ParseRenderInfo(<<First>> \o t) = q.infos
  BY <1>11, CharsWritten, TextParsed DEF First
<1>13. q.infos = blocks
  BY <1>4, <1>11 DEF Part
<1> QED
  BY <1>2, <1>11, <1>12, <1>13 DEF N

\* So parseRenderInfo makes of the dump of a page, or of none, the layout that
\* DumpRenderInfo wrote, every block and field of it and nothing else.
THEOREM ReadsBack ==
  \A blocks \in {<<>>} \cup {Layout(r, size) : r \in Requests, size \in Sizes} :
    ParseRenderInfo(DumpRenderInfo(blocks)) = blocks
<1>1. ASSUME NEW r \in Requests, NEW size \in Sizes
      PROVE  ParseRenderInfo(DumpRenderInfo(Layout(r, size))) = Layout(r, size)
  <2> DEFINE blocks == Layout(r, size)
  <2>1. /\ IsFiniteSet(DOMAIN blocks) /\ DOMAIN blocks \subseteq Int
        /\ blocks \in [DOMAIN blocks -> Fields]
    BY LayoutAssumption
  <2> HIDE DEF blocks
  <2>2. ParseRenderInfo(DumpRenderInfo(blocks)) = blocks
    BY <2>1, DumpParsed
  <2> QED
    BY <2>2 DEF blocks
<1>2. ParseRenderInfo(DumpRenderInfo(<<>>)) = <<>>
  <2> DEFINE blocks == <<>>
  <2>1. DOMAIN blocks = {} /\ blocks \in [DOMAIN blocks -> Fields]
    OBVIOUS
  <2>2. IsFiniteSet(DOMAIN blocks)
    BY <2>1, FS_EmptySet
  <2> HIDE DEF blocks
  <2>3. ParseRenderInfo(DumpRenderInfo(blocks)) = blocks
    BY <2>1, <2>2, DumpParsed
  <2> QED
    BY <2>3 DEF blocks
<1> QED
  BY <1>1, <1>2

-----------------------------------------------------------------------------
(* The dump the worker parses is of the page and the layout of the image. *)

\* What a page's blocks would be, were they dumped and parsed back.
Reread(canvas) == ParseRenderInfo(DumpRenderInfo(BlocksOf(canvas.page, canvas.layout)))

\* A dump and an image that were taken together are of the same page in the
\* same window, before and after the worker parsed the dump.
TextInv ==
  /\ \A i \in DOMAIN workerTasks : \A canvas \in workerTasks[i].canvas :
       workerTasks[i].renderInfo # <<>> =>
         workerTasks[i].renderInfo = DumpRenderInfo(BlocksOf(canvas.page, canvas.layout))
  /\ \A i \in DOMAIN called : \A canvas \in called[i].image :
       called[i].renderInfo # <<>> => called[i].renderInfo = Reread(canvas)
  /\ \A i \in DOMAIN workerTasks : \A canvas \in workerTasks[i].canvas : canvas.layout \in Sizes
  /\ \A i \in DOMAIN called : \A canvas \in called[i].image : canvas.layout \in Sizes

\* Nothing is dumped at first.
LEMMA TextStarts == Init => TextInv
<1>1. \A i \in DOMAIN <<>> : FALSE
  OBVIOUS
<1> QED
  BY <1>1 DEF Init, TextInv

\* The blocks of a document do not depend on the loads that come later.
LEMMA BlocksKept ==
  ASSUME NEW document, NEW size, document = Blank \/ document.load \in 1..Len(loads),
         \A k \in 1..Len(loads) : loads'[k] = loads[k]
  PROVE  BlocksOf(document, size)' = BlocksOf(document, size)
  BY DEF BlocksOf

\* A collected canvas shows about:blank or a page of a load.
LEMMA CanvasOfLoad ==
  ASSUME NEW load, NEW content, NEW image, OfOneLoad(load, content, image),
         NEW canvas \in image
  PROVE  canvas.page = Blank \/ canvas.page.load \in 1..Len(loads)
<1>1. canvas.page \in content \cup {c.page : c \in image}
  OBVIOUS
<1> QED
  BY <1>1 DEF OfOneLoad

\* A new load changes the blocks of none that was dumped before.
LEMMA LoadKeepsText ==
  ASSUME IInv, TextInv, NEW v \in Views, NEW r \in Requests, Load(v, r)
  PROVE  TextInv'
<1>1. loads \in Seq(Requests) /\ loads' = Append(loads, r) /\ UNCHANGED <<workerTasks, called>>
  BY DEF Load, IInv, TypeInv
<1>2. \A k \in 1..Len(loads) : loads'[k] = loads[k]
  BY <1>1, AppendProperties
<1>3. ASSUME NEW i \in DOMAIN workerTasks, NEW canvas \in workerTasks[i].canvas
      PROVE  BlocksOf(canvas.page, canvas.layout)' = BlocksOf(canvas.page, canvas.layout)
  <2>1. canvas.page = Blank \/ canvas.page.load \in 1..Len(loads)
    BY CanvasOfLoad DEF IInv, TasksInv
  <2> QED
    BY <1>2, <2>1, BlocksKept
<1>4. ASSUME NEW i \in DOMAIN called, NEW canvas \in called[i].image
      PROVE  Reread(canvas)' = Reread(canvas)
  <2>1. canvas.page = Blank \/ canvas.page.load \in 1..Len(loads)
    BY CanvasOfLoad DEF IInv, CalledInv
  <2>2. BlocksOf(canvas.page, canvas.layout)' = BlocksOf(canvas.page, canvas.layout)
    BY <1>2, <2>1, BlocksKept
  <2> QED
    BY <2>2 DEF Reread
<1> QED
  BY <1>1, <1>3, <1>4 DEF TextInv

\* A step that leaves the loads and the queues alone changes no dump.
LEMMA TextKept ==
  ASSUME TextInv, UNCHANGED <<loads, workerTasks, called>>
  PROVE  TextInv'
<1>1. \A page, size : BlocksOf(page, size)' = BlocksOf(page, size)
  BY DEF BlocksOf
<1>2. \A canvas : Reread(canvas)' = Reread(canvas)
  BY <1>1 DEF Reread
<1> QED
  BY <1>1, <1>2 DEF TextInv

\* The dump and the image are taken of the same document in the same window.
LEMMA CollectKeepsText ==
  ASSUME IInv, TextInv, NEW v \in Views, DoResponseOnMainThread(v)
  PROVE  TextInv'
<1> DEFINE task == Collect(v)
           n == Len(workerTasks)
<1>1. /\ workerTasks' = Append(workerTasks, task) /\ UNCHANGED <<loads, called>>
  BY DEF DoResponseOnMainThread
<1>2. \A canvas \in task.canvas : canvas.page = frame[v] /\ canvas.layout = window[v]
  BY DEF Collect
<1>3. task.renderInfo # <<>> => task.renderInfo = DumpRenderInfo(BlocksOf(frame[v], window[v]))
  BY DEF Collect
<1> HIDE DEF task
<1>4. window[v] \in Sizes /\ IsSequence(workerTasks)
  BY DEF IInv, TypeInv
<1>5. /\ DOMAIN workerTasks' = 1..(n + 1) /\ DOMAIN workerTasks = 1..n /\ n \in Nat
      /\ \A i \in 1..n : workerTasks'[i] = workerTasks[i]
      /\ workerTasks'[n + 1] = task
  BY <1>1, <1>4, Pushed, Shape
<1> HIDE DEF n
<1>6. /\ \A page, size : BlocksOf(page, size)' = BlocksOf(page, size)
      /\ \A canvas : Reread(canvas)' = Reread(canvas)
  <2>1. \A page, size : BlocksOf(page, size)' = BlocksOf(page, size)
    BY <1>1 DEF BlocksOf
  <2> QED
    BY <2>1 DEF Reread
<1>7. ASSUME NEW i \in 1..(n + 1), NEW canvas \in workerTasks'[i].canvas
      PROVE  /\ workerTasks'[i].renderInfo # <<>> =>
                  workerTasks'[i].renderInfo = DumpRenderInfo(BlocksOf(canvas.page, canvas.layout))
             /\ canvas.layout \in Sizes
  <2>1. CASE i \in 1..n
    BY <1>5, <2>1 DEF TextInv
  <2>2. CASE i = n + 1
    BY <1>2, <1>3, <1>4, <1>5, <2>2
  <2> QED
    BY <1>5, <2>1, <2>2
<1> QED
  BY <1>1, <1>5, <1>6, <1>7 DEF TextInv

\* The worker parses the dump that came with the image.
LEMMA AnswerKeepsText ==
  ASSUME IInv, TextInv, DoResponseOnWorkerThread
  PROVE  TextInv'
<1> DEFINE task == Head(workerTasks)
           info == IF task.renderInfo = <<>> THEN <<>> ELSE ParseRenderInfo(task.renderInfo)
           answer == [load |-> task.load, content |-> task.content, image |-> task.canvas,
                      renderInfo |-> info]
           n == Len(workerTasks)
           m == Len(called)
<1>1. /\ workerTasks # <<>> /\ workerTasks' = Tail(workerTasks) /\ loads' = loads
      /\ called' = called \/ called' = Append(called, answer)
  BY DEF DoResponseOnWorkerThread, CallbackData
<1>2. IsSequence(workerTasks) /\ IsSequence(called)
  BY DEF IInv, TypeInv
<1>3. /\ task = workerTasks[1] /\ 1 \in DOMAIN workerTasks
      /\ DOMAIN workerTasks' = 1..(n - 1) /\ DOMAIN workerTasks = 1..n /\ n \in Nat
      /\ \A i \in 1..(n - 1) : workerTasks'[i] = workerTasks[i + 1]
  BY <1>1, <1>2, Popped, Shape
<1>4. \A i \in 1..(n - 1) : i + 1 \in DOMAIN workerTasks /\ workerTasks'[i] = workerTasks[i + 1]
  BY <1>3
<1>5. \A canvas \in answer.image :
        /\ canvas \in workerTasks[1].canvas
        /\ answer.renderInfo # <<>> =>
             /\ answer.renderInfo = ParseRenderInfo(workerTasks[1].renderInfo)
             /\ workerTasks[1].renderInfo # <<>>
  BY <1>3
<1> HIDE DEF answer, task, n
<1>6. \A canvas \in answer.image :
        /\ answer.renderInfo # <<>> => answer.renderInfo = Reread(canvas)
        /\ canvas.layout \in Sizes
  BY <1>3, <1>5 DEF TextInv, Reread
<1>7. /\ \A page, size : BlocksOf(page, size)' = BlocksOf(page, size)
      /\ \A canvas : Reread(canvas)' = Reread(canvas)
  <2>1. \A page, size : BlocksOf(page, size)' = BlocksOf(page, size)
    BY <1>1 DEF BlocksOf
  <2> QED
    BY <2>1 DEF Reread
<1>8. \A j \in DOMAIN called' :
        called'[j] = answer \/ (j \in DOMAIN called /\ called'[j] = called[j])
  <2>1. CASE called' = called
    BY <2>1
  <2>2. CASE called' = Append(called, answer)
    <3>1. /\ DOMAIN called' = 1..(m + 1) /\ DOMAIN called = 1..m /\ m \in Nat
          /\ \A j \in 1..m : called'[j] = called[j]
          /\ called'[m + 1] = answer
      BY <1>2, <2>2, Pushed, Shape
    <3> HIDE DEF m
    <3> QED
      BY <3>1
  <2> QED
    BY <1>1, <2>1, <2>2
<1>9. /\ \A j \in DOMAIN called' : \A canvas \in called'[j].image :
           called'[j].renderInfo # <<>> => called'[j].renderInfo = Reread(canvas)
      /\ \A j \in DOMAIN called' : \A canvas \in called'[j].image : canvas.layout \in Sizes
  BY <1>6, <1>8 DEF TextInv
<1>10. ASSUME NEW i \in 1..(n - 1), NEW canvas \in workerTasks'[i].canvas
       PROVE  /\ workerTasks'[i].renderInfo # <<>> =>
                   workerTasks'[i].renderInfo = DumpRenderInfo(BlocksOf(canvas.page, canvas.layout))
              /\ canvas.layout \in Sizes
  BY <1>4 DEF TextInv
<1> QED
  BY <1>3, <1>7, <1>9, <1>10 DEF TextInv

\* TextInv is inductive relative to IInv.
LEMMA NextText == IInv /\ TextInv /\ [Next]_vars => TextInv'
<1> SUFFICES ASSUME IInv, TextInv, [Next]_vars PROVE TextInv'
  OBVIOUS
<1>1. CASE UNCHANGED vars
  BY <1>1, TextKept DEF vars
<1>2. CASE \E v \in Views : \E r \in Requests : Load(v, r)
  BY <1>2, LoadKeepsText
<1>3. CASE \E v \in Views : Commit(v) \/ \E size \in PageSizes : PageResizes(v, size)
  <2>1. UNCHANGED <<loads, workerTasks, called>>
    BY <1>3 DEF Commit, PageResizes
  <2> QED
    BY <2>1, TextKept
<1>4. CASE \E v \in Views : DoResponseOnMainThread(v)
  BY <1>4, CollectKeepsText
<1>5. CASE DoResponseOnWorkerThread
  BY <1>5, AnswerKeepsText
<1> QED
  BY <1>1, <1>2, <1>3, <1>4, <1>5 DEF Next

-----------------------------------------------------------------------------
(* Theorems. *)

\* IInv holds in every reachable state.
THEOREM Invariance == Spec => []IInv
  BY InitInv, NextInv, PTL DEF Spec

\* All that a callback is given is of one load and of one state of its page,
\* and no load is answered twice, for any number of views and requests.
THEOREM AnswerOfOneLoadHolds == Spec => []AnswerOfOneLoad
<1>1. IInv => AnswerOfOneLoad
  BY DEF IInv, CalledInv, OnePlace, OfOneLoad, AnswerOfOneLoad
<1> QED
  BY Invariance, <1>1, PTL

\* Each load runs under its own preferences, in the window and with the body
\* that its own request asks for.
THEOREM LoadedAsAskedHolds == Spec => []LoadedAsAsked
<1>1. IInv => LoadedAsAsked
  <2> SUFFICES ASSUME IInv PROVE LoadedAsAsked
    OBVIOUS
  <2>1. OutputTypeOK
    <3>1. /\ DOMAIN loads = 1..Len(loads)
      BY LenProperties DEF IInv, TypeInv
    <3>2. /\ \A v \in Views : frame[v] = Blank \/ frame[v].load = context[v]
          /\ \A i \in DOMAIN workerTasks : workerTasks[i].load \in DOMAIN loads
          /\ \A i \in DOMAIN called : called[i].load \in DOMAIN loads
      BY <3>1 DEF IInv, ViewsInv, TasksInv, CalledInv, OfOneLoad
    <3> QED
      BY <3>2 DEF IInv, TypeInv, OutputTypeOK
  <2>2. OwnPreferences /\ LaidOutAsAsked
    BY DEF IInv, ViewsInv, OwnPreferences, LaidOutAsAsked
  <2> QED
    BY <2>1, <2>2 DEF IInv, LoadedAsAsked
<1> QED
  BY Invariance, <1>1, PTL

\* The render information a callback is given is the layout of the page and the
\* size its image shows, whatever the view has done since.
THEOREM RenderInfoHolds == Spec => []RenderInfoIsLayout
<1>1. IInv /\ TextInv => RenderInfoIsLayout
  <2> SUFFICES ASSUME IInv, TextInv, NEW i \in DOMAIN called, NEW canvas \in called[i].image,
                      called[i].renderInfo # <<>>
               PROVE  called[i].renderInfo = BlocksOf(canvas.page, canvas.layout)
    BY DEF RenderInfoIsLayout
  <2>1. called[i].renderInfo = Reread(canvas) /\ canvas.layout \in Sizes
    BY DEF TextInv
  <2>2. canvas.page = Blank \/ canvas.page.load \in 1..Len(loads)
    BY CanvasOfLoad DEF IInv, CalledInv
  <2>3. loads \in Seq(Requests)
    BY DEF IInv, TypeInv
  <2>4. canvas.page # Blank => loads[canvas.page.load] \in Requests
    BY <2>2, <2>3, ElementOfSeq
  <2>5. BlocksOf(canvas.page, canvas.layout)
          \in {<<>>} \cup {Layout(r, size) : r \in Requests, size \in Sizes}
    BY <2>1, <2>4 DEF BlocksOf
  <2> QED
    BY <2>1, <2>5, ReadsBack DEF Reread
<1>2. Spec => []TextInv
  BY TextStarts, NextText, Invariance, PTL DEF Spec
<1> QED
  BY <1>1, <1>2, Invariance, PTL
=============================================================================
