------------------------ MODULE ShellLifecycleProofs ------------------------
(***************************************************************************)
(* CreateBrowser and ReleaseBrowser for any number of shells, views,        *)
(* closures and increases: LifecycleInv is inductive, one lemma for each of *)
(* its parts.  The closures in the main loop and the threads that still     *)
(* share one are what keeps the shell; where create() and destroy() are     *)
(* (pc) tells which threads run and whether the owner's reference is held.  *)
(***************************************************************************)
EXTENDS ShellLifecycle, TLAPS, SequenceTheorems

\* What a post does to the main loop.
LEMMA Posted ==
  ASSUME NEW kind \in Kinds, NEW thread \in Posters, loop \in Seq(Closures), Post(kind, thread)
  PROVE  /\ loop' \in Seq(Closures) /\ loop' # <<>>
         /\ \A i \in DOMAIN loop' : loop'[i].kind \in {kind} \cup {loop[j].kind : j \in DOMAIN loop}
<1> DEFINE task == [kind |-> kind, shared |-> thread]
<1>1. task \in Closures /\ loop' = Append(loop, task) /\ task.kind = kind
  BY DEF Closures, Post
<1> HIDE DEF task
<1>2. /\ loop' \in Seq(Closures) /\ loop' # <<>> /\ Len(loop') = Len(loop) + 1
      /\ \A i \in 1..Len(loop) : loop'[i] = loop[i]
      /\ loop'[Len(loop) + 1] = task
  BY <1>1, AppendProperties
<1>3. DOMAIN loop' = 1..Len(loop') /\ DOMAIN loop = 1..Len(loop) /\ Len(loop) \in Nat
  BY <1>2, LenProperties
<1> QED
  BY <1>1, <1>2, <1>3

\* What the end of a closure does to the main loop.
LEMMA Run ==
  ASSUME loop \in Seq(Closures), loop # <<>>, loop' = Tail(loop)
  PROVE  /\ loop' \in Seq(Closures) /\ Head(loop) \in Closures
         /\ Head(loop).kind \in {loop[j].kind : j \in DOMAIN loop}
         /\ \A i \in DOMAIN loop' : loop'[i].kind \in {loop[j].kind : j \in DOMAIN loop}
<1>1. /\ Head(loop) \in Closures /\ Head(loop) = loop[1]
      /\ loop' \in Seq(Closures) /\ Len(loop') = Len(loop) - 1
      /\ \A i \in 1..Len(loop') : loop'[i] = loop[i + 1]
  BY HeadTailProperties
<1>2. DOMAIN loop' = 1..Len(loop') /\ DOMAIN loop = 1..Len(loop) /\ Len(loop) \in Nat
  BY <1>1, LenProperties
<1>3. Len(loop) >= 1
  BY EmptySeq, LenProperties
<1>4. 1 \in DOMAIN loop /\ \A i \in DOMAIN loop' : i + 1 \in DOMAIN loop /\ loop'[i] = loop[i + 1]
  BY <1>1, <1>2, <1>3
<1> QED
  BY <1>1, <1>4

\* What the end of a PostTask does to the main loop: the closure stays.
LEMMA Unshared ==
  ASSUME NEW thread \in Posters, loop \in Seq(Closures), PostReturns(thread)
  PROVE  /\ loop' \in Seq(Closures)
         /\ loop' = <<>> <=> loop = <<>>
         /\ \A i \in DOMAIN loop' : loop'[i].kind \in {loop[j].kind : j \in DOMAIN loop}
<1>1. loop' = [i \in DOMAIN loop |-> IF loop[i].shared = thread
                                     THEN [loop[i] EXCEPT !.shared = "none"] ELSE loop[i]]
  BY DEF PostReturns
<1>2. DOMAIN loop = 1..Len(loop) /\ Len(loop) \in Nat /\ \A i \in 1..Len(loop) : loop[i] \in Closures
  BY LenProperties, ElementOfSeq
<1>3. \A i \in DOMAIN loop' : loop'[i] \in Closures /\ loop'[i].kind = loop[i].kind
  BY <1>1, <1>2 DEF Closures
<1>4. loop' \in [1..Len(loop) -> Closures]
  BY <1>1, <1>2, <1>3
<1>5. loop' \in Seq(Closures)
  BY <1>2, <1>4, SeqDef
<1>6. Len(loop') = Len(loop)
  BY <1>1, <1>2, <1>5, LenProperties
<1>7. loop' = <<>> <=> loop = <<>>
  BY <1>5, <1>6, EmptySeq
<1>8. DOMAIN loop' = DOMAIN loop
  BY <1>1
<1> QED
  BY <1>3, <1>5, <1>7, <1>8

\* Before the first shell.
LEMMA InitInv == Init => LifecycleInv
<1> SUFFICES ASSUME Init PROVE LifecycleInv
  OBVIOUS
<1>1. LifecycleTypeOK
  <2>1. <<>> \in Seq(Closures)
    OBVIOUS
  <2>2. MaxShells \in Nat /\ MaxPeeks \in Nat /\ MaxViews \in Nat
    BY LifecycleBounds
  <2>3. pc \in PC /\ 0 \in {DefaultNetwork} \cup 0..0
    BY DEF Init, PC
  <2>4. shells \in 0..MaxShells /\ views \in 0..MaxViews /\ peeks \in 0..MaxPeeks /\ increases \in 0..5
    BY <2>2 DEF Init
  <2>5. owned \in BOOLEAN /\ observing \in BOOLEAN
    BY DEF Init
  <2>6. {platform, params} \subseteq 0..shells /\ network \in {DefaultNetwork} \cup 0..shells
    BY DEF Init
  <2>7. /\ shell \in {0, shells} /\ caller \in {"client", "worker"} /\ loop \in Seq(Closures)
        /\ alone \subseteq Posters /\ threads \subseteq Threads
        /\ event \in {"none", "unset", "set"}
    BY <2>1 DEF Init
  <2> QED
    BY <2>3, <2>4, <2>5, <2>6, <2>7 DEF LifecycleTypeOK
<1> QED
  BY <1>1 DEF Init, LifecycleInv, ShellOutlivesClosures, CallsInOrder, ThreadsInOrder

-----------------------------------------------------------------------------
(* The main loop over a step. *)

LoopGrows(kind) ==
  /\ loop' \in Seq(Closures) /\ loop' # <<>>
  /\ \A i \in DOMAIN loop' : loop'[i].kind \in {kind} \cup {loop[j].kind : j \in DOMAIN loop}
LoopShrinks ==
  /\ loop # <<>> /\ loop' \in Seq(Closures) /\ Head(loop) \in Closures
  /\ Head(loop).kind \in {loop[j].kind : j \in DOMAIN loop}
  /\ \A i \in DOMAIN loop' : loop'[i].kind \in {loop[j].kind : j \in DOMAIN loop}
LoopStays ==
  /\ loop' \in Seq(Closures) /\ (loop' = <<>> <=> loop = <<>>)
  /\ \A i \in DOMAIN loop' : loop'[i].kind \in {loop[j].kind : j \in DOMAIN loop}

\* The shell goes, or it stays because somebody still holds it.
Freed ==
  /\ owned' = FALSE /\ loop' = <<>> /\ alone' = {}
  /\ shell' = 0 /\ views' = 0 /\ observing' = FALSE
  /\ event' = IF event = "none" THEN "none" ELSE "set"
Kept == /\ owned' = TRUE \/ loop' # <<>> \/ alone' # {}
        /\ shell' = shell /\ event' = event

\* A closure's run: it may drop the owner's reference, and the last one.
LEMMA RunEffect ==
  ASSUME LifecycleInv, RunClosure
  PROVE  /\ LoopShrinks
         /\ alone' \subseteq Posters /\ owned' \in BOOLEAN
         /\ Head(loop).kind # "destroy" => owned' = owned
         /\ UNCHANGED <<shells, callVars, platformVars>>
         /\ \/ Freed
            \/ /\ Kept /\ observing' \in BOOLEAN /\ views' \in 0..MaxViews
               /\ Head(loop).kind # "increase" => views' = views
<1>0. LifecycleTypeOK /\ loop \in Seq(Closures) /\ MaxViews \in Nat
  BY LifecycleBounds DEF LifecycleInv, LifecycleTypeOK
<1>1. LoopShrinks
  BY <1>0, Run DEF RunClosure, LoopShrinks
<1>2. alone' \subseteq Posters
  BY <1>0, <1>1 DEF LoopShrinks, LifecycleTypeOK, RunClosure, Closures
<1>3. owned' \in BOOLEAN /\ (Head(loop).kind # "destroy" => owned' = owned)
  BY <1>0 DEF RunClosure, LifecycleTypeOK
<1>4. UNCHANGED <<shells, callVars, platformVars>>
  BY DEF RunClosure
<1>5. CASE LastReference(owned', loop', alone')
  <2>1. Destruct /\ owned' = FALSE
    BY <1>3, <1>5 DEF RunClosure, LastReference
  <2>2. Freed
    BY <1>5, <2>1 DEF LastReference, Destruct, Freed
  <2> QED
    BY <1>1, <1>2, <1>3, <1>4, <2>2
<1>6. CASE ~LastReference(owned', loop', alone')
  <2>1. /\ observing' = (observing \/ Head(loop).kind = "observe")
        /\ views' \in IF Head(loop).kind = "increase" /\ views < MaxViews
                      THEN {views, views + 1} ELSE {views}
        /\ UNCHANGED <<shell, event>>
    BY <1>6 DEF RunClosure, DropsOwner
  <2>2. observing' \in BOOLEAN
    BY <2>1
  <2>3. views' \in 0..MaxViews /\ (Head(loop).kind # "increase" => views' = views)
    BY <1>0, <2>1 DEF LifecycleTypeOK
  <2>4. Kept
    BY <1>3, <1>6, <2>1 DEF LastReference, Kept
  <2> QED
    BY <1>1, <1>2, <1>3, <1>4, <2>2, <2>3, <2>4
<1> QED
  BY <1>5, <1>6

\* The end of a PostTask: the poster may hold the last reference.
LEMMA ReturnEffect ==
  ASSUME LifecycleInv, NEW thread \in Posters, PostReturns(thread)
  PROVE  /\ LoopStays /\ alone' \subseteq alone /\ owned' = owned
         /\ UNCHANGED <<shells, callVars, platformVars>>
         /\ Freed \/ (Kept /\ UNCHANGED <<observing, views>>)
<1>0. LifecycleTypeOK /\ loop \in Seq(Closures)
  BY DEF LifecycleInv, LifecycleTypeOK
<1>1. LoopStays
  BY <1>0, Unshared DEF LoopStays
<1>2. alone' \subseteq alone /\ owned' = owned /\ UNCHANGED <<shells, callVars, platformVars>>
  BY DEF PostReturns
<1>3. CASE thread \in alone /\ LastReference(owned, loop, alone')
  <2>1. Destruct
    BY <1>3 DEF PostReturns
  <2>2. owned = FALSE /\ loop = <<>> /\ alone' = {}
    BY <1>0, <1>3 DEF LastReference, LifecycleTypeOK
  <2>3. Freed
    BY <1>1, <1>2, <2>1, <2>2 DEF LoopStays, Destruct, Freed
  <2> QED
    BY <1>1, <1>2, <2>3
<1>4. CASE ~(thread \in alone /\ LastReference(owned, loop, alone'))
  <2>1. UNCHANGED <<shell, views, observing, event>>
    BY <1>4 DEF PostReturns
  <2>2. thread \in alone \/ loop # <<>>
    BY DEF PostReturns, Sharing
  <2>3. owned' = TRUE \/ loop' # <<>> \/ alone' # {}
    BY <1>0, <1>1, <1>2, <1>4, <2>2 DEF LoopStays, LastReference, LifecycleTypeOK
  <2> QED
    BY <1>1, <1>2, <2>1, <2>3 DEF Kept
<1> QED
  BY <1>3, <1>4

-----------------------------------------------------------------------------
(* The parts of the invariant over a step. *)

\* No step takes a variable out of its type.
LEMMA StepTypes ==
  ASSUME LifecycleInv, [Next]_vars
  PROVE  LifecycleTypeOK'
<1>0. /\ LifecycleTypeOK /\ ShellOutlivesClosures /\ CallsInOrder /\ ThreadsInOrder
      /\ loop \in Seq(Closures) /\ MaxShells \in Nat /\ MaxPosts \in Nat /\ MaxPeeks \in Nat
      /\ MaxViews \in Nat
  BY LifecycleBounds DEF LifecycleInv, LifecycleTypeOK, Closures
<1>1. CASE CreateBrowser
  <2>1. pc' \in PC
    BY <1>1 DEF CreateBrowser, PC
  <2> QED
    BY <1>0, <1>1, <2>1
       DEF LifecycleTypeOK, CreateBrowser, shellVars, loopVars, platformVars
<1>2. CASE StartMain
  <2>1. pc' \in PC
    BY <1>2 DEF StartMain, PC
  <2>2. threads' \subseteq Threads
    BY <1>0, <1>2 DEF StartMain, Threads, LifecycleTypeOK, DestroyBridge
  <2>3. /\ shells' \in 0..MaxShells /\ shell' \in {0, shells'}
        /\ {platform', params'} \subseteq 0..shells'
    BY <1>0, <1>2 DEF StartMain, LifecycleTypeOK, CallsInOrder
  <2>4. network' \in {DefaultNetwork} \cup 0..shells'
    BY <1>0, <1>2, <2>3 DEF StartMain, LifecycleTypeOK, DestroyBridge, CleanUp
  <2> QED
    BY <1>0, <1>2, <2>1, <2>2, <2>3, <2>4
       DEF LifecycleTypeOK, StartMain, loopVars
<1>3. CASE StartWorker
  <2>1. pc' \in PC
    BY <1>3 DEF StartWorker, PC
  <2>2. threads' \subseteq Threads
    BY <1>0, <1>3 DEF StartWorker, Threads, LifecycleTypeOK
  <2> QED
    BY <1>0, <1>3, <2>1, <2>2
       DEF LifecycleTypeOK, StartWorker, shellVars, loopVars
<1>4. CASE StartReceiver
  <2>1. pc' \in PC
    BY <1>4 DEF StartReceiver, PC
  <2>2. threads' \subseteq Threads
    BY <1>0, <1>4 DEF StartReceiver, Threads, LifecycleTypeOK
  <2> QED
    BY <1>0, <1>4, <2>1, <2>2
       DEF LifecycleTypeOK, StartReceiver, shellVars, loopVars, FirstIncreases
<1>5. CASE EnsureBackendIOThread
  <2>2. threads' \subseteq Threads
    BY <1>0, <1>5 DEF EnsureBackendIOThread, Threads, LifecycleTypeOK
  <2> QED
    BY <1>0, <1>5, <2>2
       DEF LifecycleTypeOK, EnsureBackendIOThread, shellVars, callVars, loopVars, IOInit
<1>6. CASE ViewFinishes
  BY <1>0, <1>6 DEF LifecycleTypeOK, ViewFinishes, callVars, loopVars, platformVars
<1>7. CASE ReleaseBrowser
  <2>1. pc' \in PC
    BY <1>7 DEF ReleaseBrowser, PC
  <2> QED
    BY <1>0, <1>7, <2>1
       DEF LifecycleTypeOK, ReleaseBrowser, shellVars, loopVars, platformVars
<1>8. CASE DestroyPosted
  <2>1. pc' \in PC
    BY <1>8 DEF DestroyPosted, PC
  <2> QED
    BY <1>0, <1>8, <2>1
       DEF LifecycleTypeOK, DestroyPosted, shellVars, loopVars, platformVars
<1>9. CASE WaitReturns
  <2>1. pc' \in PC
    BY <1>9 DEF WaitReturns, PC
  <2> QED
    BY <1>0, <1>9, <2>1
       DEF LifecycleTypeOK, WaitReturns, shellVars, loopVars, platformVars
<1>10. CASE StopWorker
  <2>1. pc' \in PC
    BY <1>10 DEF StopWorker, PC
  <2>2. threads' \subseteq Threads
    BY <1>0, <1>10 DEF StopWorker, Threads, LifecycleTypeOK
  <2> QED
    BY <1>0, <1>10, <2>1, <2>2
       DEF LifecycleTypeOK, StopWorker, shellVars, loopVars
<1>11. CASE StopMain
  <2>1. pc' \in PC
    BY <1>11 DEF StopMain, PC
  <2>2. threads' \subseteq Threads
    BY <1>0, <1>11 DEF StopMain, Threads, LifecycleTypeOK, DestroyBridge
  <2>3. {platform', params'} \subseteq 0..shells'
    <3>1. platform' = 0 /\ params' \in {0, params} /\ shells' = shells
      BY <1>11 DEF StopMain, DestroyBridge, shellVars
    <3> QED
      BY <1>0, <3>1 DEF LifecycleTypeOK
  <2>4. network' \in {DefaultNetwork} \cup 0..shells'
    BY <1>0, <1>11 DEF StopMain, LifecycleTypeOK, CallsInOrder, ThreadsInOrder, DestroyBridge,
       CleanUp, shellVars
  <2> QED
    BY <1>0, <1>11, <2>1, <2>2, <2>3, <2>4
       DEF LifecycleTypeOK, StopMain, shellVars, loopVars
<1>12. CASE StopReceiver
  <2>1. pc' \in PC
    BY <1>12 DEF StopReceiver, PC
  <2>2. threads' \subseteq Threads
    BY <1>0, <1>12 DEF StopReceiver, Threads, LifecycleTypeOK
  <2> QED
    BY <1>0, <1>12, <2>1, <2>2
       DEF LifecycleTypeOK, StopReceiver, shellVars, loopVars
<1>13. CASE PostObserve
  <2>1. Post("observe", "client")
    BY <1>13 DEF PostObserve
  <2>2. LoopGrows("observe")
    BY <1>0, <2>1, Posted DEF Kinds, Posters, LoopGrows
  <2>3. pc' \in PC
    BY <1>0, <1>13 DEF PostObserve, LifecycleTypeOK, PC
  <2> QED
    BY <1>0, <1>13, <2>2, <2>3 DEF LoopGrows, PostObserve, LifecycleTypeOK, shellVars,
       platformVars
<1>14. CASE ReceiverIncrease
  <2>1. Post("increase", "receiver")
    BY <1>14 DEF ReceiverIncrease
  <2>2. LoopGrows("increase")
    BY <1>0, <2>1, Posted DEF Kinds, Posters, LoopGrows
  <2>3. pc' \in PC
    BY <1>0, <1>14 DEF ReceiverIncrease, LifecycleTypeOK, PC
  <2> QED
    BY <1>0, <1>14, <2>2, <2>3 DEF LoopGrows, ReceiverIncrease, LifecycleTypeOK, shellVars,
       platformVars
<1>15. CASE PostDestroy
  <2>1. Post("destroy", "client")
    BY <1>15 DEF PostDestroy
  <2>2. LoopGrows("destroy")
    BY <1>0, <2>1, Posted DEF Kinds, Posters, LoopGrows
  <2>3. pc' \in PC
    BY <1>0, <1>15 DEF PostDestroy, LifecycleTypeOK, PC
  <2> QED
    BY <1>0, <1>15, <2>2, <2>3 DEF LoopGrows, PostDestroy, LifecycleTypeOK, shellVars,
       platformVars
<1>16. CASE CreateIncrease
  <2>0. pc' \in PC
    BY <1>0, <1>16 DEF CreateIncrease, LifecycleTypeOK, PC
  <2>1. CASE loop' = loop
    BY <1>0, <1>16, <2>1, <2>0 DEF CreateIncrease, LifecycleTypeOK, shellVars, platformVars
  <2>2. CASE Post("increase", "client")
    <3>1. LoopGrows("increase")
      BY <1>0, <2>2, Posted DEF Kinds, Posters, LoopGrows
    <3> QED
      BY <1>0, <1>16, <3>1, <2>0 DEF LoopGrows, CreateIncrease, LifecycleTypeOK, shellVars,
         platformVars
  <2> QED
    BY <1>16, <2>1, <2>2 DEF CreateIncrease
<1>17. CASE RunClosure
  <2>1. /\ owned' \in BOOLEAN /\ loop' \in Seq(Closures) /\ alone' \subseteq Posters
        /\ UNCHANGED <<shells, callVars, platformVars>>
    BY <1>0, <1>17, RunEffect DEF LoopShrinks, LifecycleTypeOK
  <2>2. /\ shell' \in {0, shells} /\ observing' \in BOOLEAN /\ views' \in 0..MaxViews
        /\ event' \in {"none", "unset", "set"}
    <3>1. CASE Freed
      <4>1. shell' \in {0, shells} /\ observing' \in BOOLEAN
        BY <3>1 DEF Freed
      <4>2. views' \in 0..MaxViews
        BY <1>0, <3>1 DEF Freed
      <4>3. event' \in {"none", "unset", "set"}
        BY <3>1 DEF Freed
      <4> QED
        BY <4>1, <4>2, <4>3
    <3>2. CASE Kept /\ observing' \in BOOLEAN /\ views' \in 0..MaxViews
      BY <1>0, <3>2 DEF Kept, LifecycleTypeOK
    <3> QED
      BY <1>17, <3>1, <3>2, RunEffect
  <2> QED
    BY <1>0, <2>1, <2>2 DEF LifecycleTypeOK, callVars, platformVars
<1>18. ASSUME NEW thread \in Posters, PostReturns(thread) PROVE LifecycleTypeOK'
  <2>1. /\ owned' \in BOOLEAN /\ loop' \in Seq(Closures) /\ alone' \subseteq Posters
        /\ UNCHANGED <<shells, callVars, platformVars>>
    BY <1>0, <1>18, ReturnEffect DEF LoopStays, LifecycleTypeOK
  <2>2. /\ shell' \in {0, shells} /\ observing' \in BOOLEAN /\ views' \in 0..MaxViews
        /\ event' \in {"none", "unset", "set"}
    <3>1. CASE Freed
      <4>1. shell' \in {0, shells} /\ observing' \in BOOLEAN
        BY <3>1 DEF Freed
      <4>2. views' \in 0..MaxViews
        BY <1>0, <3>1 DEF Freed
      <4>3. event' \in {"none", "unset", "set"}
        BY <3>1 DEF Freed
      <4> QED
        BY <4>1, <4>2, <4>3
    <3>2. CASE Kept /\ UNCHANGED <<observing, views>>
      BY <1>0, <3>2 DEF Kept, LifecycleTypeOK
    <3> QED
      BY <1>18, <3>1, <3>2, ReturnEffect
  <2> QED
    BY <1>0, <2>1, <2>2 DEF LifecycleTypeOK, callVars, platformVars
<1>19. CASE UNCHANGED vars
  BY <1>0, <1>19 DEF vars, LifecycleTypeOK, shellVars, callVars, loopVars, platformVars
<1> QED
  BY <1>1, <1>2, <1>3, <1>4, <1>5, <1>6, <1>7, <1>8, <1>9, <1>10, <1>11, <1>12, <1>13, <1>14,
     <1>15, <1>16, <1>17, <1>18, <1>19
     DEF Next, CreateStep, DestroyStep

\* Every step leaves the shell to those that still use it, and to nobody else.
LEMMA StepShell ==
  ASSUME LifecycleInv, [Next]_vars
  PROVE  ShellOutlivesClosures'
<1>0. /\ LifecycleTypeOK /\ ShellOutlivesClosures /\ CallsInOrder /\ ThreadsInOrder
      /\ loop \in Seq(Closures) /\ MaxShells \in Nat /\ MaxPosts \in Nat /\ MaxPeeks \in Nat
      /\ MaxViews \in Nat
  BY LifecycleBounds DEF LifecycleInv, LifecycleTypeOK, Closures
<1>1. CASE CreateBrowser
  BY <1>0, <1>1 DEF CreateBrowser, LifecycleTypeOK, ShellOutlivesClosures, CallsInOrder,
     shellVars, loopVars, platformVars
<1>2. CASE StartMain
  BY <1>0, <1>2 DEF StartMain, LifecycleTypeOK, ShellOutlivesClosures, CallsInOrder, loopVars,
     DestroyBridge, CleanUp
<1>3. CASE StartWorker
  BY <1>0, <1>3 DEF StartWorker, LifecycleTypeOK, ShellOutlivesClosures, CallsInOrder,
     shellVars, loopVars
<1>4. CASE StartReceiver
  BY <1>0, <1>4 DEF StartReceiver, LifecycleTypeOK, ShellOutlivesClosures, CallsInOrder,
     shellVars, loopVars
<1>5. CASE EnsureBackendIOThread
  BY <1>0, <1>5 DEF EnsureBackendIOThread, LifecycleTypeOK, ShellOutlivesClosures,
     CallsInOrder, shellVars, callVars, loopVars, IOInit
<1>6. CASE ViewFinishes
  BY <1>0, <1>6 DEF ViewFinishes, LifecycleTypeOK, ShellOutlivesClosures, CallsInOrder,
     callVars, loopVars, platformVars
<1>7. CASE ReleaseBrowser
  BY <1>0, <1>7 DEF ReleaseBrowser, LifecycleTypeOK, ShellOutlivesClosures, CallsInOrder,
     shellVars, loopVars, platformVars
<1>8. CASE DestroyPosted
  BY <1>0, <1>8 DEF DestroyPosted, LifecycleTypeOK, ShellOutlivesClosures, CallsInOrder,
     shellVars, loopVars, platformVars
<1>9. CASE WaitReturns
  BY <1>0, <1>9 DEF WaitReturns, LifecycleTypeOK, ShellOutlivesClosures, CallsInOrder,
     shellVars, loopVars, platformVars
<1>10. CASE StopWorker
  BY <1>0, <1>10 DEF StopWorker, LifecycleTypeOK, ShellOutlivesClosures, CallsInOrder,
     shellVars, loopVars
<1>11. CASE StopMain
  BY <1>0, <1>11 DEF StopMain, LifecycleTypeOK, ShellOutlivesClosures, CallsInOrder,
     shellVars, loopVars, DestroyBridge, CleanUp
<1>12. CASE StopReceiver
  BY <1>0, <1>12 DEF StopReceiver, LifecycleTypeOK, ShellOutlivesClosures, CallsInOrder,
     shellVars, loopVars
<1>13. CASE PostObserve
  <2>1. Post("observe", "client")
    BY <1>13 DEF PostObserve
  <2>2. LoopGrows("observe")
    BY <1>0, <2>1, Posted DEF Kinds, Posters, LoopGrows
  <2> QED
    BY <1>0, <1>13, <2>2 DEF LoopGrows, PostObserve, LifecycleTypeOK, ShellOutlivesClosures,
       CallsInOrder, shellVars, platformVars
<1>14. CASE ReceiverIncrease
  <2>1. Post("increase", "receiver")
    BY <1>14 DEF ReceiverIncrease
  <2>2. LoopGrows("increase")
    BY <1>0, <2>1, Posted DEF Kinds, Posters, LoopGrows
  <2> QED
    BY <1>0, <1>14, <2>2 DEF LoopGrows, ReceiverIncrease, LifecycleTypeOK,
       ShellOutlivesClosures, CallsInOrder, shellVars, platformVars
<1>15. CASE PostDestroy
  <2>1. Post("destroy", "client")
    BY <1>15 DEF PostDestroy
  <2>2. LoopGrows("destroy")
    BY <1>0, <2>1, Posted DEF Kinds, Posters, LoopGrows
  <2> QED
    BY <1>0, <1>15, <2>2 DEF LoopGrows, PostDestroy, LifecycleTypeOK, ShellOutlivesClosures,
       CallsInOrder, shellVars, platformVars
<1>16. CASE CreateIncrease
  <2>1. CASE loop' = loop
    BY <1>0, <1>16, <2>1 DEF CreateIncrease, LifecycleTypeOK, ShellOutlivesClosures,
       CallsInOrder, shellVars, platformVars
  <2>2. CASE Post("increase", "client")
    <3>1. LoopGrows("increase")
      BY <1>0, <2>2, Posted DEF Kinds, Posters, LoopGrows
    <3> QED
      BY <1>0, <1>16, <3>1 DEF LoopGrows, CreateIncrease, LifecycleTypeOK,
         ShellOutlivesClosures, CallsInOrder, shellVars, platformVars
  <2> QED
    BY <1>16, <2>1, <2>2 DEF CreateIncrease
<1>17. CASE RunClosure
  <2>1. CASE Freed
    BY <2>1 DEF Freed, ShellOutlivesClosures
  <2>2. CASE Kept
    <3>1. shell # 0
      BY <1>0, <1>17, RunEffect DEF LoopShrinks, ShellOutlivesClosures
    <3> QED
      BY <2>2, <3>1 DEF Kept, ShellOutlivesClosures
  <2> QED
    BY <1>17, <2>1, <2>2, RunEffect
<1>18. ASSUME NEW thread \in Posters, PostReturns(thread) PROVE ShellOutlivesClosures'
  <2>1. CASE Freed
    BY <2>1 DEF Freed, ShellOutlivesClosures
  <2>2. CASE Kept /\ UNCHANGED <<observing, views>>
    <3>1. shell # 0
      BY <1>0, <1>18 DEF PostReturns, Sharing, ShellOutlivesClosures
    <3> QED
      BY <2>2, <3>1 DEF Kept, ShellOutlivesClosures
  <2> QED
    BY <1>18, <2>1, <2>2, ReturnEffect
<1>19. CASE UNCHANGED vars
  BY <1>0, <1>19 DEF vars, LifecycleTypeOK, ShellOutlivesClosures, CallsInOrder, shellVars,
     callVars, loopVars, platformVars
<1> QED
  BY <1>1, <1>2, <1>3, <1>4, <1>5, <1>6, <1>7, <1>8, <1>9, <1>10, <1>11, <1>12, <1>13, <1>14,
     <1>15, <1>16, <1>17, <1>18, <1>19
     DEF Next, CreateStep, DestroyStep

\* create() and destroy() keep the reference, the closures and the event in order.
LEMMA StepCalls ==
  ASSUME LifecycleInv, [Next]_vars
  PROVE  CallsInOrder'
<1>0. /\ LifecycleTypeOK /\ ShellOutlivesClosures /\ CallsInOrder /\ ThreadsInOrder
      /\ loop \in Seq(Closures) /\ MaxShells \in Nat /\ MaxPosts \in Nat /\ MaxPeeks \in Nat
      /\ MaxViews \in Nat
  BY LifecycleBounds DEF LifecycleInv, LifecycleTypeOK, Closures
<1>1. CASE CreateBrowser
  BY <1>0, <1>1 DEF CreateBrowser, LifecycleTypeOK, ShellOutlivesClosures, CallsInOrder,
     ThreadsInOrder, shellVars, loopVars, platformVars
<1>2. CASE StartMain
  BY <1>0, <1>2 DEF StartMain, LifecycleTypeOK, ShellOutlivesClosures, CallsInOrder,
     ThreadsInOrder, loopVars, DestroyBridge, CleanUp
<1>3. CASE StartWorker
  BY <1>0, <1>3 DEF StartWorker, LifecycleTypeOK, ShellOutlivesClosures, CallsInOrder,
     ThreadsInOrder, shellVars, loopVars
<1>4. CASE StartReceiver
  BY <1>0, <1>4 DEF StartReceiver, LifecycleTypeOK, ShellOutlivesClosures, CallsInOrder,
     ThreadsInOrder, shellVars, loopVars
<1>5. CASE EnsureBackendIOThread
  BY <1>0, <1>5 DEF EnsureBackendIOThread, LifecycleTypeOK, ShellOutlivesClosures,
     CallsInOrder, ThreadsInOrder, shellVars, callVars, loopVars, IOInit
<1>6. CASE ViewFinishes
  <2>1. UNCHANGED <<shells, shell, owned, loop, pc, event>>
    BY <1>6 DEF ViewFinishes, callVars, loopVars
  <2>2. pc \notin {"observe", "worker", "receiver"}
    <3>1. views # 0
      BY <1>6 DEF ViewFinishes
    <3>2. pc \in {"observe", "worker", "receiver"} => views = 0
      BY <1>0 DEF CallsInOrder
    <3> QED
      BY <3>1, <3>2
  <2> QED
    BY <1>0, <2>1, <2>2 DEF CallsInOrder
<1>7. CASE ReleaseBrowser
  BY <1>0, <1>7 DEF ReleaseBrowser, LifecycleTypeOK, ShellOutlivesClosures, CallsInOrder,
     ThreadsInOrder, shellVars, loopVars, platformVars
<1>8. CASE DestroyPosted
  BY <1>0, <1>8 DEF DestroyPosted, LifecycleTypeOK, ShellOutlivesClosures, CallsInOrder,
     ThreadsInOrder, shellVars, loopVars, platformVars
<1>9. CASE WaitReturns
  BY <1>0, <1>9 DEF WaitReturns, LifecycleTypeOK, ShellOutlivesClosures, CallsInOrder,
     ThreadsInOrder, shellVars, loopVars, platformVars
<1>10. CASE StopWorker
  BY <1>0, <1>10 DEF StopWorker, LifecycleTypeOK, ShellOutlivesClosures, CallsInOrder,
     ThreadsInOrder, shellVars, loopVars
<1>11. CASE StopMain
  BY <1>0, <1>11 DEF StopMain, LifecycleTypeOK, ShellOutlivesClosures, CallsInOrder,
     ThreadsInOrder, shellVars, loopVars, DestroyBridge, CleanUp
<1>12. CASE StopReceiver
  BY <1>0, <1>12 DEF StopReceiver, LifecycleTypeOK, ShellOutlivesClosures, CallsInOrder,
     ThreadsInOrder, shellVars, loopVars
<1>13. CASE PostObserve
  <2>1. Post("observe", "client")
    BY <1>13 DEF PostObserve
  <2>2. LoopGrows("observe")
    BY <1>0, <2>1, Posted DEF Kinds, Posters, LoopGrows
  <2> QED
    BY <1>0, <1>13, <2>2 DEF LoopGrows, PostObserve, LifecycleTypeOK, ShellOutlivesClosures,
       CallsInOrder, ThreadsInOrder, shellVars, platformVars
<1>14. CASE ReceiverIncrease
  <2>1. Post("increase", "receiver")
    BY <1>14 DEF ReceiverIncrease
  <2>2. LoopGrows("increase")
    BY <1>0, <2>1, Posted DEF Kinds, Posters, LoopGrows
  <2> QED
    BY <1>0, <1>14, <2>2 DEF LoopGrows, ReceiverIncrease, LifecycleTypeOK,
       ShellOutlivesClosures, CallsInOrder, ThreadsInOrder, shellVars, platformVars
<1>15. CASE PostDestroy
  <2>1. Post("destroy", "client")
    BY <1>15 DEF PostDestroy
  <2>2. LoopGrows("destroy")
    BY <1>0, <2>1, Posted DEF Kinds, Posters, LoopGrows
  <2> QED
    BY <1>0, <1>15, <2>2 DEF LoopGrows, PostDestroy, LifecycleTypeOK, ShellOutlivesClosures,
       CallsInOrder, ThreadsInOrder, shellVars, platformVars
<1>16. CASE CreateIncrease
  <2>1. CASE loop' = loop
    BY <1>0, <1>16, <2>1 DEF CreateIncrease, LifecycleTypeOK, ShellOutlivesClosures,
       CallsInOrder, ThreadsInOrder, shellVars, platformVars
  <2>2. CASE Post("increase", "client")
    <3>1. LoopGrows("increase")
      BY <1>0, <2>2, Posted DEF Kinds, Posters, LoopGrows
    <3> QED
      BY <1>0, <1>16, <3>1 DEF LoopGrows, CreateIncrease, LifecycleTypeOK,
         ShellOutlivesClosures, CallsInOrder, ThreadsInOrder, shellVars, platformVars
  <2> QED
    BY <1>16, <2>1, <2>2 DEF CreateIncrease
<1>17. CASE RunClosure
  <2>1. CASE Freed
    BY <1>0, <1>17, <2>1, RunEffect DEF LoopShrinks, Freed, LifecycleTypeOK,
       ShellOutlivesClosures, CallsInOrder, ThreadsInOrder, shellVars, callVars, loopVars,
          platformVars
  <2>2. CASE Kept /\ views' \in 0..MaxViews /\ (Head(loop).kind # "increase" => views' = views)
    BY <1>0, <1>17, <2>2, RunEffect DEF LoopShrinks, Kept, LifecycleTypeOK,
       ShellOutlivesClosures, CallsInOrder, ThreadsInOrder, shellVars, callVars, loopVars,
          platformVars
  <2> QED
    BY <1>17, <2>1, <2>2, RunEffect
<1>18. ASSUME NEW thread \in Posters, PostReturns(thread) PROVE CallsInOrder'
  <2>1. CASE Freed
    BY <1>0, <1>18, <2>1, ReturnEffect DEF LoopStays, Freed, LifecycleTypeOK,
       ShellOutlivesClosures, CallsInOrder, ThreadsInOrder, shellVars, callVars, loopVars,
          platformVars
  <2>2. CASE Kept /\ UNCHANGED <<observing, views>>
    BY <1>0, <1>18, <2>2, ReturnEffect DEF LoopStays, Kept, LifecycleTypeOK,
       ShellOutlivesClosures, CallsInOrder, ThreadsInOrder, shellVars, callVars, loopVars,
          platformVars
  <2> QED
    BY <1>18, <2>1, <2>2, ReturnEffect
<1>19. CASE UNCHANGED vars
  BY <1>0, <1>19 DEF vars, LifecycleTypeOK, ShellOutlivesClosures, CallsInOrder,
     ThreadsInOrder, shellVars, callVars, loopVars, platformVars
<1> QED
  BY <1>1, <1>2, <1>3, <1>4, <1>5, <1>6, <1>7, <1>8, <1>9, <1>10, <1>11, <1>12, <1>13, <1>14,
     <1>15, <1>16, <1>17, <1>18, <1>19
     DEF Next, CreateStep, DestroyStep

\* Threads, platform and network context start and end in order.
LEMMA StepThreads ==
  ASSUME LifecycleInv, [Next]_vars
  PROVE  ThreadsInOrder'
<1>0. /\ LifecycleTypeOK /\ ShellOutlivesClosures /\ CallsInOrder /\ ThreadsInOrder
      /\ loop \in Seq(Closures) /\ MaxShells \in Nat /\ MaxPosts \in Nat /\ MaxPeeks \in Nat
      /\ MaxViews \in Nat
  BY LifecycleBounds DEF LifecycleInv, LifecycleTypeOK, Closures
<1>1. CASE CreateBrowser
  BY <1>0, <1>1 DEF CreateBrowser, LifecycleTypeOK, ShellOutlivesClosures, CallsInOrder,
     ThreadsInOrder, shellVars, loopVars, platformVars
<1>2. CASE StartMain
  BY <1>0, <1>2 DEF StartMain, LifecycleTypeOK, ShellOutlivesClosures, CallsInOrder,
     ThreadsInOrder, loopVars, DestroyBridge, CleanUp
<1>3. CASE StartWorker
  BY <1>0, <1>3 DEF StartWorker, LifecycleTypeOK, ShellOutlivesClosures, CallsInOrder,
     ThreadsInOrder, shellVars, loopVars
<1>4. CASE StartReceiver
  BY <1>0, <1>4 DEF StartReceiver, LifecycleTypeOK, ShellOutlivesClosures, CallsInOrder,
     ThreadsInOrder, shellVars, loopVars
<1>5. CASE EnsureBackendIOThread
  BY <1>0, <1>5 DEF EnsureBackendIOThread, LifecycleTypeOK, ShellOutlivesClosures,
     CallsInOrder, ThreadsInOrder, shellVars, callVars, loopVars, IOInit
<1>6. CASE ViewFinishes
  BY <1>0, <1>6 DEF ViewFinishes, LifecycleTypeOK, ShellOutlivesClosures, CallsInOrder,
     ThreadsInOrder, callVars, loopVars, platformVars
<1>7. CASE ReleaseBrowser
  BY <1>0, <1>7 DEF ReleaseBrowser, LifecycleTypeOK, ShellOutlivesClosures, CallsInOrder,
     ThreadsInOrder, shellVars, loopVars, platformVars
<1>8. CASE DestroyPosted
  BY <1>0, <1>8 DEF DestroyPosted, LifecycleTypeOK, ShellOutlivesClosures, CallsInOrder,
     ThreadsInOrder, shellVars, loopVars, platformVars
<1>9. CASE WaitReturns
  BY <1>0, <1>9 DEF WaitReturns, LifecycleTypeOK, ShellOutlivesClosures, CallsInOrder,
     ThreadsInOrder, shellVars, loopVars, platformVars
<1>10. CASE StopWorker
  BY <1>0, <1>10 DEF StopWorker, LifecycleTypeOK, ShellOutlivesClosures, CallsInOrder,
     ThreadsInOrder, shellVars, loopVars
<1>11. CASE StopMain
  BY <1>0, <1>11 DEF StopMain, LifecycleTypeOK, ShellOutlivesClosures, CallsInOrder,
     ThreadsInOrder, shellVars, loopVars, DestroyBridge, CleanUp
<1>12. CASE StopReceiver
  BY <1>0, <1>12 DEF StopReceiver, LifecycleTypeOK, ShellOutlivesClosures, CallsInOrder,
     ThreadsInOrder, shellVars, loopVars
<1>13. CASE PostObserve
  <2>1. Post("observe", "client")
    BY <1>13 DEF PostObserve
  <2>2. LoopGrows("observe")
    BY <1>0, <2>1, Posted DEF Kinds, Posters, LoopGrows
  <2> QED
    BY <1>0, <1>13, <2>2 DEF LoopGrows, PostObserve, LifecycleTypeOK, ShellOutlivesClosures,
       CallsInOrder, ThreadsInOrder, shellVars, platformVars
<1>14. CASE ReceiverIncrease
  <2>1. Post("increase", "receiver")
    BY <1>14 DEF ReceiverIncrease
  <2>2. LoopGrows("increase")
    BY <1>0, <2>1, Posted DEF Kinds, Posters, LoopGrows
  <2> QED
    BY <1>0, <1>14, <2>2 DEF LoopGrows, ReceiverIncrease, LifecycleTypeOK,
       ShellOutlivesClosures, CallsInOrder, ThreadsInOrder, shellVars, platformVars
<1>15. CASE PostDestroy
  <2>1. Post("destroy", "client")
    BY <1>15 DEF PostDestroy
  <2>2. LoopGrows("destroy")
    BY <1>0, <2>1, Posted DEF Kinds, Posters, LoopGrows
  <2> QED
    BY <1>0, <1>15, <2>2 DEF LoopGrows, PostDestroy, LifecycleTypeOK, ShellOutlivesClosures,
       CallsInOrder, ThreadsInOrder, shellVars, platformVars
<1>16. CASE CreateIncrease
  <2>1. CASE loop' = loop
    BY <1>0, <1>16, <2>1 DEF CreateIncrease, LifecycleTypeOK, ShellOutlivesClosures,
       CallsInOrder, ThreadsInOrder, shellVars, platformVars
  <2>2. CASE Post("increase", "client")
    <3>1. LoopGrows("increase")
      BY <1>0, <2>2, Posted DEF Kinds, Posters, LoopGrows
    <3> QED
      BY <1>0, <1>16, <3>1 DEF LoopGrows, CreateIncrease, LifecycleTypeOK,
         ShellOutlivesClosures, CallsInOrder, ThreadsInOrder, shellVars, platformVars
  <2> QED
    BY <1>16, <2>1, <2>2 DEF CreateIncrease
<1>17. CASE RunClosure
  <2>1. CASE Freed
    BY <1>0, <1>17, <2>1, RunEffect DEF LoopShrinks, Freed, ThreadsInOrder, callVars,
       platformVars
  <2>2. CASE Kept /\ views' \in 0..MaxViews /\ (Head(loop).kind # "increase" => views' = views)
    BY <1>0, <1>17, <2>2, RunEffect DEF LoopShrinks, Kept, ThreadsInOrder, callVars,
       platformVars
  <2> QED
    BY <1>17, <2>1, <2>2, RunEffect
<1>18. ASSUME NEW thread \in Posters, PostReturns(thread) PROVE ThreadsInOrder'
  <2>1. CASE Freed
    BY <1>0, <1>18, <2>1, ReturnEffect DEF LoopStays, Freed, ThreadsInOrder, callVars,
       platformVars
  <2>2. CASE Kept /\ UNCHANGED <<observing, views>>
    BY <1>0, <1>18, <2>2, ReturnEffect DEF LoopStays, Kept, ThreadsInOrder, callVars,
       platformVars
  <2> QED
    BY <1>18, <2>1, <2>2, ReturnEffect
<1>19. CASE UNCHANGED vars
  BY <1>0, <1>19 DEF vars, LifecycleTypeOK, ShellOutlivesClosures, CallsInOrder,
     ThreadsInOrder, shellVars, callVars, loopVars, platformVars
<1> QED
  BY <1>1, <1>2, <1>3, <1>4, <1>5, <1>6, <1>7, <1>8, <1>9, <1>10, <1>11, <1>12, <1>13, <1>14,
     <1>15, <1>16, <1>17, <1>18, <1>19
     DEF Next, CreateStep, DestroyStep

-----------------------------------------------------------------------------

\* The inductive invariant holds in every reachable state.
THEOREM LifecycleHolds == Spec => []LifecycleInv
<1>1. LifecycleInv /\ [Next]_vars => LifecycleInv'
  BY StepTypes, StepShell, StepCalls, StepThreads DEF LifecycleInv
<1> QED
  BY <1>1, InitInv, PTL DEF Spec

\* No view outlives the threads whose loops it posts to, nor the platform.
THEOREM ViewsSafe == Spec => []ViewsHaveThreads
<1>1. LifecycleInv => ViewsHaveThreads
  <2> SUFFICES ASSUME LifecycleInv, views > 0 PROVE ViewsHaveThreads
    BY DEF ViewsHaveThreads
  <2>1. pc \in PC /\ shell # 0 /\ shell = shells
    BY DEF LifecycleInv, LifecycleTypeOK, ShellOutlivesClosures
  <2>2. pc \notin {"observe", "worker", "receiver"}
    <3>1. views # 0
      OBVIOUS
    <3>2. pc \in {"observe", "worker", "receiver"} => views = 0
      BY DEF LifecycleInv, CallsInOrder
    <3> QED
      BY <3>1, <3>2
  <2>3. pc \notin {"none", "main", "worker gone", "main gone", "receiver gone"}
    BY <2>1 DEF LifecycleInv, CallsInOrder
  <2>4. pc \in {"increase", "ready", "post", "posted", "wait"}
    BY <2>1, <2>2, <2>3 DEF PC
  <2> QED
    BY <2>1, <2>4 DEF LifecycleInv, ThreadsInOrder, ViewsHaveThreads
<1> QED
  BY <1>1, LifecycleHolds, PTL

\* The network context, or the parameters of the one to be made, are those of
\* the current shell's options.
THEOREM OwnNetwork == Spec => []NetworkOfThisShell
<1>1. LifecycleInv => NetworkOfThisShell
  BY DEF LifecycleInv, LifecycleTypeOK, ThreadsInOrder, NetworkOfThisShell
<1> QED
  BY <1>1, LifecycleHolds, PTL

\* ReleaseBrowser leaves no shell, thread, event, platform or context behind.
THEOREM ReleasedWhole == Spec => []NothingLeft
<1>1. LifecycleInv => NothingLeft
  BY DEF LifecycleInv, LifecycleTypeOK, CallsInOrder, ThreadsInOrder, NothingLeft, Threads
<1> QED
  BY <1>1, LifecycleHolds, PTL
=============================================================================
