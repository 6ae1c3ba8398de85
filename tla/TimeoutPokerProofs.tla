------------------------- MODULE TimeoutPokerProofs -------------------------
(***************************************************************************)
(* Theorems about TimeoutPoker, for every set of callers and descriptors   *)
(* and any number of requests: its types, its safety, and that it          *)
(* implements PmQosContract.                                               *)
(***************************************************************************)
EXTENDS TimeoutPokerInv, TLAPS

-----------------------------------------------------------------------------
(* Types.                                                                  *)

(* Queueing an event keeps the queue a function from used keys to events.  *)
LEMMA SendTyped ==
    ASSUME TypeOK, NEW delayed \in BOOLEAN, NEW e \in QueuedEvent,
           SendEventDelayed(delayed, e)
    PROVE  /\ mKey' \in Nat
           /\ DOMAIN mQueuedEvents' \subseteq 0 .. mKey' - 1
           /\ mQueuedEvents' \in [DOMAIN mQueuedEvents' -> QueuedEvent]
           /\ messages' \subseteq Messages
<1>1. mKey' = mKey + 1 /\ mKey \in Nat
  BY DEF SendEventDelayed, TypeOK
<1>2. DOMAIN mQueuedEvents' = DOMAIN mQueuedEvents \cup {mKey}
  BY DEF SendEventDelayed
<1>3. DOMAIN mQueuedEvents \subseteq 0 .. mKey - 1
  BY DEF TypeOK
<1>4. \A k \in DOMAIN mQueuedEvents : mQueuedEvents[k] \in QueuedEvent
  BY DEF TypeOK
<1>5. mQueuedEvents' \in [DOMAIN mQueuedEvents' -> QueuedEvent]
  BY <1>2, <1>4 DEF SendEventDelayed
<1>6. [what |-> mKey, delayed |-> delayed] \in Messages
  BY <1>1 DEF Messages
<1>7. messages' \subseteq Messages
  BY <1>6 DEF SendEventDelayed, TypeOK
<1> QED
  BY <1>1, <1>2, <1>3, <1>5, <1>7

(* The types of the poker's state, with those of the looper's locals.      *)
Typed == TypeOK /\ LooperTyped

LEMMA TypedInit == Init => Typed
<1> SUFFICES ASSUME Init PROVE Typed
  OBVIOUS
<1>1. file \in [Fd -> File]
  BY DEF Init, File, Closed, Req, NoReq
<1>2. /\ DOMAIN mQueuedEvents \subseteq 0 .. mKey - 1
      /\ mQueuedEvents \in [DOMAIN mQueuedEvents -> QueuedEvent]
      /\ messages \subseteq Messages
      /\ watched \subseteq Contexts
  BY DEF Init
<1>3. pipefd \in [client : Fd \cup {NoFd}, server : Fd \cup {NoFd}]
  BY DEF Init, NoPipe
<1> QED
  BY <1>1, <1>2, <1>3 DEF Init, Typed, TypeOK, LooperTyped, LooperStates

LEMMA TypedStep == Typed /\ [Next]_vars => Typed'
<1> SUFFICES ASSUME Typed, [Next]_vars PROVE Typed'
  OBVIOUS
<1>0. TypeOK /\ LooperTyped
  BY DEF Typed
<1> USE ConstantsAssumption, <1>0 DEF Typed, LooperTyped
<1>1. CASE Prepare
  BY <1>1 DEF Prepare, TypeOK, queueVars, callerVars, LooperStates
<1>2. CASE PrepareFails
  BY <1>2 DEF PrepareFails, TypeOK, startVars, queueVars, callerVars, LooperStates
<1>3. CASE Construct
  BY <1>3 DEF Construct, TypeOK, looperVars, queueVars, callerVars
<1>4. ASSUME NEW c \in Callers, RequestPmQosTimed(c) PROVE Typed'
  <2>1. OpenTimed(mKey) \in QueuedEvent
    BY DEF TypeOK, OpenTimed, QueuedEvent, OpenTimedEvents
  <2> QED
    BY <1>4, <2>1, SendTyped
       DEF RequestPmQosTimed, TypeOK, startVars, looperVars, callerVars
<1>5. ASSUME NEW c \in Callers, CreatePmQosHandle(c) PROVE Typed'
  <2>1. OpenHandle(mKey, c) \in QueuedEvent
    BY DEF TypeOK, OpenHandle, QueuedEvent, OpenHandleEvents
  <2> QED
    BY <1>5, <2>1, SendTyped
       DEF CreatePmQosHandle, TypeOK, startVars, looperVars
<1>6. ASSUME NEW c \in Callers, ReturnFromCreate(c) PROVE Typed'
  BY <1>6 DEF ReturnFromCreate, TypeOK, startVars, looperVars, queueVars
<1>7. ASSUME NEW c \in Callers, RequestPmQos(c) PROVE Typed'
  <2>1. Node(NoReq) \in File
    BY DEF Node, File, Req, NoReq
  <2> QED
    BY <1>7, <2>1 DEF RequestPmQos, Free, TypeOK, startVars, looperVars, queueVars
<1>8. ASSUME NEW c \in Callers, NEW fd \in Fd, CloseHeld(c, fd) PROVE Typed'
  BY <1>8 DEF CloseHeld, Close, Closed, File, Req, TypeOK, startVars, looperVars, queueVars
<1>9. ASSUME NEW m \in messages, HandleMessage(m) PROVE Typed'
  <2>1. CASE m.what \in DOMAIN mQueuedEvents
    <3>1. mQueuedEvents[m.what] \in QueuedEvent
      BY <2>1 DEF TypeOK
    <3>2. mQueuedEvents' = [k \in DOMAIN mQueuedEvents \ {m.what} |-> mQueuedEvents[k]]
      BY <1>9, <2>1 DEF HandleMessage
    <3>3. /\ DOMAIN mQueuedEvents' \subseteq 0 .. mKey - 1
          /\ mQueuedEvents' \in [DOMAIN mQueuedEvents' -> QueuedEvent]
      BY <3>2 DEF TypeOK
    <3>4. looper' \in {"open", "close"} /\ event' = mQueuedEvents[m.what]
      BY <1>9, <2>1 DEF HandleMessage, Entry
    <3>5. LooperTyped'
      BY <1>9, <2>1, <3>1, <3>4
         DEF HandleMessage, Entry, QueuedEvent, OpenTimedEvents, OpenHandleEvents, TimeoutEvents
    <3> QED
      BY <1>9, <3>1, <3>3, <3>4, <3>5
         DEF HandleMessage, TypeOK, startVars, callerVars, LooperStates
  <2>2. CASE m.what \notin DOMAIN mQueuedEvents
    BY <1>9, <2>2 DEF HandleMessage, TypeOK, startVars, callerVars
  <2> QED
    BY <2>1, <2>2
<1>10. ASSUME NEW w \in watched, PipeClosed(w) PROVE Typed'
  BY <1>10 DEF PipeClosed, TypeOK, startVars, queueVars, callerVars, LooperStates
<1>11. CASE OpenNode
  <2>1. event.req \in Nat
    BY <1>11 DEF OpenNode, OpenTimedEvents, OpenHandleEvents
  <2>2. Node(event.req) \in File
    BY <2>1 DEF Node, File, Req
  <2>3. LooperTyped'
    BY <1>11 DEF OpenNode, Free, startVars, OpenTimedEvents, OpenHandleEvents
  <2> QED
    BY <1>11, <2>2, <2>3
       DEF OpenNode, Free, TypeOK, startVars, queueVars, callerVars, LooperStates
<1>12. CASE OpenNodeFails
  <2>1. LooperTyped'
    BY <1>12 DEF OpenNodeFails, startVars, OpenTimedEvents, OpenHandleEvents
  <2> QED
    BY <1>12, <2>1
       DEF OpenNodeFails, TypeOK, startVars, queueVars, callerVars, LooperStates, NoPipe
<1>13. CASE PostTimeout
  <2>1. Timeout(event.req, node) \in QueuedEvent
    BY <1>13 DEF PostTimeout, Timeout, QueuedEvent, TimeoutEvents, OpenTimedEvents
  <2> QED
    BY <1>13, <2>1, SendTyped DEF PostTimeout, TypeOK, startVars, callerVars, LooperStates
<1>14. CASE CreatePipe
  <2>1. event.req \in Nat
    BY <1>14 DEF CreatePipe, OpenHandleEvents
  <2>2. Client(event.req) \in File /\ Server(event.req) \in File
    BY <2>1 DEF Client, Server, File, Req
  <2>3. file' \in [Fd -> File]
    BY <1>14, <2>2 DEF CreatePipe, TypeOK
  <2>4. pipefd' \in [client : Fd, server : Fd]
    BY <1>14 DEF CreatePipe, Free
  <2> QED
    BY <1>14, <2>3, <2>4
       DEF CreatePipe, TypeOK, startVars, queueVars, callerVars, LooperStates
<1>15. CASE CreatePipeFails
  BY <1>15 DEF CreatePipeFails, Close, Closed, File, Req, NoPipe, TypeOK, startVars,
               queueVars, callerVars, LooperStates
<1>16. CASE Listen
  <2>1. Context(event.req, pipefd.server, node) \in Contexts
    BY <1>16 DEF Listen, Context, Contexts, OpenHandleEvents
  <2> QED
    BY <1>16, <2>1 DEF Listen, TypeOK, startVars, queueVars, callerVars, LooperStates
<1>17. CASE ListenFails
  BY <1>17 DEF ListenFails, TypeOK, startVars, queueVars, callerVars, LooperStates
<1>18. CASE Publish
  BY <1>18 DEF Publish, TypeOK, startVars, queueVars, LooperStates
<1>19. CASE Signal
  BY <1>19 DEF Signal, TypeOK, startVars, queueVars, LooperStates
<1>20. CASE CloseServer
  BY <1>20 DEF CloseServer, Close, Closed, File, Req, TypeOK, startVars, queueVars,
               callerVars, LooperStates
<1>21. CASE CloseNode
  BY <1>21 DEF CloseNode, Close, Closed, File, Req, TypeOK, startVars, queueVars,
               callerVars, LooperStates
<1>22. CASE UNCHANGED vars
  BY <1>22 DEF vars, TypeOK
<1> QED
  BY <1>1, <1>2, <1>3, <1>4, <1>5, <1>6, <1>7, <1>8, <1>9, <1>10, <1>11, <1>12, <1>13,
     <1>14, <1>15, <1>16, <1>17, <1>18, <1>19, <1>20, <1>21, <1>22
     DEF Next, Calls, RunEvent

(* The poker's state is always well typed.                                 *)
THEOREM TypeCorrect == Spec => []TypeOK
<1>1. Typed => TypeOK
  BY DEF Typed
<1> QED
  BY <1>1, TypedInit, TypedStep, PTL DEF Spec

-----------------------------------------------------------------------------
(***************************************************************************)
(* Safety.  TypedStep covers the types; here each action is shown to keep  *)
(* the parts of IInv that tie the queue, the looper, the callers and the   *)
(* files to each other.                                                    *)
(***************************************************************************)

Linked ==
    /\ EventsMatchMessages /\ KeysFresh /\ PendingUnserved /\ OneFilePerRole
    /\ WatchedPipesAreOurs /\ ScheduledNodes /\ LooperNode /\ HandOver
    /\ HeldFiles /\ Orphans

-----------------------------------------------------------------------------
(* Facts used by several actions.                                          *)

(* The kinds of file exclude each other.                                   *)
LEMMA KindsDiffer ==
    \A r, q : /\ Node(r).kind = "node" /\ Node(r).req = r
              /\ Client(r).kind = "client" /\ Client(r).req = r
              /\ Server(r).kind = "server" /\ Server(r).req = r
              /\ Node(r) # Client(q) /\ Node(r) # Server(q) /\ Client(r) # Server(q)
              /\ Node(r) # Closed /\ Client(r) # Closed /\ Server(r) # Closed
              /\ Closed.kind = "closed" /\ Closed.req = NoReq
  BY DEF Node, Client, Server, Closed

(* An open node is told by the request it was opened for.                  *)
LEMMA NodeRecord ==
    ASSUME TypeOK, NEW fd \in Fd, file[fd].kind = "node"
    PROVE  file[fd] = Node(file[fd].req)
  BY DEF TypeOK, File, Node

(* Callback contexts name descriptors and requests.                        *)
LEMMA WatchedTyped ==
    ASSUME TypeOK, NEW w \in watched
    PROVE  w.handle \in Fd /\ w.fd \in Fd /\ w.req \in Nat
  BY DEF TypeOK, Contexts

(* sendEventDelayed adds an event and its message under one fresh key.     *)
LEMMA SendMatches ==
    ASSUME TypeOK, EventsMatchMessages, NEW delayed, NEW e, SendEventDelayed(delayed, e)
    PROVE  EventsMatchMessages'
<1> DEFINE new == [what |-> mKey, delayed |-> delayed]
<1>1. mKey \notin DOMAIN mQueuedEvents
  BY DEF TypeOK
<1>2. \A m \in messages : m.what # mKey
  BY <1>1 DEF EventsMatchMessages
<1>3. new.what = mKey
  OBVIOUS
<1>4. /\ messages' = messages \cup {new}
      /\ DOMAIN mQueuedEvents' = DOMAIN mQueuedEvents \cup {mKey}
  BY DEF SendEventDelayed
<1> HIDE DEF new
<1>5. {m.what : m \in messages'} = {m.what : m \in messages} \cup {mKey}
  BY <1>3, <1>4
<1>6. \A m, n \in messages' : m.what = n.what => m = n
  BY <1>2, <1>3, <1>4 DEF EventsMatchMessages
<1> QED
  BY <1>4, <1>5, <1>6 DEF EventsMatchMessages

(* Opening files on closed descriptors leaves watched pipes alone.         *)
LEMMA OpenKeepsWatched ==
    ASSUME TypeOK, WatchedPipesAreOurs, watched' = watched,
           \A fd \in Fd : file[fd] # Closed => file'[fd] = file[fd]
    PROVE  WatchedPipesAreOurs'
  BY WatchedTyped, KindsDiffer DEF WatchedPipesAreOurs

(* So does closing a descriptor no context names.                          *)
LEMMA CloseKeepsWatched ==
    ASSUME TypeOK, WatchedPipesAreOurs, watched' = watched, NEW fd \in Fd, Close(fd),
           \A w \in watched : fd # w.handle /\ fd # w.fd
    PROVE  WatchedPipesAreOurs'
  BY WatchedTyped DEF WatchedPipesAreOurs, Close, TypeOK

(* Orphans is kept when no node loses its owner, and the write ends of     *)
(* the orphans stay open and unwatched.                                    *)
LEMMA OrphansKept ==
    ASSUME Orphans, watched' \subseteq watched,
           \A fd \in Fd : file'[fd].kind = "node" /\ ~Owned(fd)' =>
                              file'[fd] = file[fd] /\ ~Owned(fd),
           \A fd, s \in Fd : /\ file'[fd].kind = "node" /\ ~Owned(fd)'
                             /\ file[s] = Server(file[fd].req)
                             => file'[s] = file[s]
    PROVE  Orphans'
  BY DEF Orphans

(* What pipe() changes.                                                    *)
LEMMA CreatePipeFiles ==
    ASSUME IInv, CreatePipe
    PROVE  \E client, server \in Fd :
              /\ client # server /\ file[client] = Closed /\ file[server] = Closed
              /\ file'[client] = Client(event.req) /\ file'[server] = Server(event.req)
              /\ \A f \in Fd : f # client /\ f # server => file'[f] = file[f]
              /\ pipefd' = [client |-> client, server |-> server]
  BY DEF IInv, CreatePipe, Free, TypeOK

-----------------------------------------------------------------------------
(* One lemma per action.                                                   *)

LEMMA PrepareLinks ==
    ASSUME IInv, Prepare
    PROVE  Linked'
<1>1. /\ EventsMatchMessages'
      /\ OneFilePerRole'
      /\ WatchedPipesAreOurs'
      /\ ScheduledNodes'
      /\ HeldFiles'
  BY DEF IInv, Prepare, queueVars, looperVars, callerVars, EventsMatchMessages,
         OneFilePerRole, NoReq, WatchedPipesAreOurs, ScheduledNodes, TimeoutKeys,
         NoPipeFor, HeldFiles
<1>2. KeysFresh'
  BY DEF IInv, KeysFresh, OpenKeys, TimeoutKeys, Prepare, queueVars
<1>3. PendingUnserved'
  BY DEF IInv, PendingUnserved, OpenKeys, TimeoutKeys, Prepare, queueVars
<1>4. LooperNode'
  BY DEF IInv, LooperNode, Prepare
<1>5. HandOver'
  BY DEF IInv, HandOver, HandleKeys, Prepare, callerVars, queueVars
<1>6. Orphans'
  BY DEF IInv, Orphans, Owned, TimeoutKeys, Prepare, callerVars, queueVars
<1> QED
  BY <1>1, <1>2, <1>3, <1>4, <1>5, <1>6 DEF Linked

LEMMA PrepareFailsLinks ==
    ASSUME IInv, PrepareFails
    PROVE  Linked'
<1>1. /\ EventsMatchMessages'
      /\ OneFilePerRole'
      /\ WatchedPipesAreOurs'
      /\ ScheduledNodes'
      /\ HeldFiles'
  BY DEF IInv, PrepareFails, queueVars, looperVars, callerVars, EventsMatchMessages,
         OneFilePerRole, NoReq, WatchedPipesAreOurs, ScheduledNodes, TimeoutKeys,
         NoPipeFor, HeldFiles
<1>2. KeysFresh'
  BY DEF IInv, KeysFresh, OpenKeys, TimeoutKeys, PrepareFails, queueVars
<1>3. PendingUnserved'
  BY DEF IInv, PendingUnserved, OpenKeys, TimeoutKeys, PrepareFails, queueVars
<1>4. LooperNode'
  BY DEF IInv, LooperNode, PrepareFails
<1>5. HandOver'
  BY DEF IInv, HandOver, HandleKeys, PrepareFails, callerVars, queueVars
<1>6. Orphans'
  BY DEF IInv, Orphans, Owned, TimeoutKeys, PrepareFails, callerVars, queueVars
<1> QED
  BY <1>1, <1>2, <1>3, <1>4, <1>5, <1>6 DEF Linked

LEMMA ConstructLinks ==
    ASSUME IInv, Construct
    PROVE  Linked'
<1>1. /\ EventsMatchMessages'
      /\ KeysFresh'
      /\ PendingUnserved'
      /\ OneFilePerRole'
      /\ WatchedPipesAreOurs'
      /\ ScheduledNodes'
      /\ LooperNode'
      /\ HandOver'
      /\ HeldFiles'
      /\ Orphans'
  BY DEF IInv, Construct, queueVars, looperVars, callerVars, EventsMatchMessages,
         KeysFresh, OpenKeys, TimeoutKeys, NoReq, PendingUnserved, OneFilePerRole,
         WatchedPipesAreOurs, ScheduledNodes, NoPipeFor, LooperNode, NotScheduled,
         HandOver, HandleKeys, Undelivered, HeldFiles, Orphans, Owned
<1> QED
  BY <1>1 DEF Linked

LEMMA RequestPmQosTimedLinks ==
    ASSUME IInv, NEW c \in Callers, RequestPmQosTimed(c)
    PROVE  Linked'
<1>1. OneFilePerRole' /\ WatchedPipesAreOurs' /\ HeldFiles'
  BY DEF IInv, RequestPmQosTimed, looperVars, callerVars, OneFilePerRole, NoReq,
         WatchedPipesAreOurs, HeldFiles
<1>2. EventsMatchMessages'
  BY SendMatches DEF IInv, RequestPmQosTimed
<1>3. KeysFresh'
  BY DEF IInv, KeysFresh, OpenKeys, TimeoutKeys, NoReq, RequestPmQosTimed,
         SendEventDelayed, OpenTimed, looperVars, TypeOK, LooperTyped, File, Req,
         QueuedEvent, OpenTimedEvents, OpenHandleEvents, TimeoutEvents, Messages
<1>4. PendingUnserved'
  BY DEF IInv, PendingUnserved, OpenKeys, TimeoutKeys, RequestPmQosTimed,
         SendEventDelayed, looperVars, TypeOK, KeysFresh
<1>5. ScheduledNodes'
  BY DEF IInv, ScheduledNodes, TimeoutKeys, NoPipeFor, RequestPmQosTimed,
         SendEventDelayed, OpenTimed, looperVars
<1>6. LooperNode'
  BY DEF IInv, LooperNode, NotScheduled, NoPipeFor, TimeoutKeys, RequestPmQosTimed,
         SendEventDelayed, OpenTimed, looperVars
<1>7. HandOver'
  BY DEF IInv, HandOver, HandleKeys, Undelivered, RequestPmQosTimed, SendEventDelayed,
         OpenTimed, callerVars, looperVars
<1>8. Orphans'
  BY DEF IInv, Orphans, Owned, TimeoutKeys, RequestPmQosTimed, SendEventDelayed,
         OpenTimed, looperVars, callerVars, TypeOK
<1> QED
  BY <1>1, <1>2, <1>3, <1>4, <1>5, <1>6, <1>7, <1>8 DEF Linked

LEMMA CreatePmQosHandleLinks ==
    ASSUME IInv, NEW c \in Callers, CreatePmQosHandle(c)
    PROVE  Linked'
<1>1. OneFilePerRole' /\ WatchedPipesAreOurs' /\ HeldFiles'
  BY DEF IInv, CreatePmQosHandle, looperVars, callerVars, OneFilePerRole, NoReq,
         WatchedPipesAreOurs, HeldFiles
<1>2. EventsMatchMessages'
  BY SendMatches DEF IInv, CreatePmQosHandle
<1>3. KeysFresh'
  BY DEF IInv, KeysFresh, OpenKeys, TimeoutKeys, NoReq, CreatePmQosHandle,
         SendEventDelayed, OpenHandle, looperVars, TypeOK, LooperTyped, File, Req,
         QueuedEvent, OpenTimedEvents, OpenHandleEvents, TimeoutEvents, Contexts
<1>4. PendingUnserved'
  BY DEF IInv, PendingUnserved, OpenKeys, TimeoutKeys, CreatePmQosHandle,
         SendEventDelayed, looperVars, TypeOK, KeysFresh
<1>5. ScheduledNodes'
  BY DEF IInv, ScheduledNodes, TimeoutKeys, NoPipeFor, CreatePmQosHandle,
         SendEventDelayed, OpenHandle, looperVars
<1>6. LooperNode'
  BY DEF IInv, LooperNode, NotScheduled, NoPipeFor, TimeoutKeys, CreatePmQosHandle,
         SendEventDelayed, OpenHandle, looperVars
<1>7. HandOver'
  BY DEF IInv, HandOver, HandleKeys, Undelivered, CreatePmQosHandle, SendEventDelayed,
         OpenHandle, looperVars, TypeOK, LooperTyped, OpenHandleEvents
<1>8. Orphans'
  BY ConstantsAssumption DEF IInv, Orphans, Owned, TimeoutKeys, CreatePmQosHandle,
                             SendEventDelayed, looperVars, TypeOK, LooperTyped,
                             QueuedEvent
<1> QED
  BY <1>1, <1>2, <1>3, <1>4, <1>5, <1>6, <1>7, <1>8 DEF Linked

LEMMA ReturnFromCreateLinks ==
    ASSUME IInv, NEW c \in Callers, ReturnFromCreate(c)
    PROVE  Linked'
<1>1. /\ EventsMatchMessages'
      /\ KeysFresh'
      /\ PendingUnserved'
      /\ OneFilePerRole'
      /\ WatchedPipesAreOurs'
      /\ ScheduledNodes'
      /\ LooperNode'
  BY DEF IInv, ReturnFromCreate, queueVars, looperVars, EventsMatchMessages, KeysFresh,
         OpenKeys, TimeoutKeys, NoReq, PendingUnserved, OneFilePerRole,
         WatchedPipesAreOurs, ScheduledNodes, NoPipeFor, LooperNode, NotScheduled
<1>2. HandOver'
  BY DEF IInv, HandOver, HandleKeys, Undelivered, ReturnFromCreate, looperVars,
         queueVars, TypeOK
<1>3. HeldFiles'
  BY DEF IInv, HeldFiles, ReturnFromCreate, HandOver
<1>4. Orphans'
  BY DEF IInv, Orphans, Owned, TimeoutKeys, ReturnFromCreate, looperVars, queueVars
<1> QED
  BY <1>1, <1>2, <1>3, <1>4 DEF Linked

LEMMA RequestPmQosLinks ==
    ASSUME IInv, NEW c \in Callers, RequestPmQos(c)
    PROVE  Linked'
<1>1. EventsMatchMessages'
  BY DEF IInv, RequestPmQos, queueVars, EventsMatchMessages
<1>2. KeysFresh'
  BY DEF IInv, KeysFresh, OpenKeys, TimeoutKeys, RequestPmQos, Free, looperVars,
         queueVars, Node, Closed
<1>3. PendingUnserved'
  BY DEF IInv, PendingUnserved, OpenKeys, TimeoutKeys, RequestPmQos, Free, looperVars,
         queueVars, Node, Closed
<1>4. OneFilePerRole'
  BY DEF IInv, OneFilePerRole, RequestPmQos, Node
<1>5. WatchedPipesAreOurs'
  BY OpenKeepsWatched DEF IInv, RequestPmQos, Free, TypeOK, looperVars
<1>6. ScheduledNodes'
  BY DEF IInv, ScheduledNodes, TimeoutKeys, NoPipeFor, RequestPmQos, Free, queueVars,
         looperVars, Node, Client, Server, Closed
<1>7. LooperNode'
  BY DEF IInv, LooperNode, NotScheduled, NoPipeFor, TimeoutKeys, RequestPmQos, Free,
         looperVars, queueVars, Node, Client, Server, Closed
<1>8. HandOver'
  BY DEF IInv, HandOver, HandleKeys, Undelivered, RequestPmQos, Free, looperVars,
         queueVars, Closed
<1>9. HeldFiles'
  BY DEF IInv, HeldFiles, RequestPmQos, Free, Node, Closed, TypeOK
<1>10. Orphans'
  <2>1. PICK fd \in Free : /\ file' = [file EXCEPT ![fd] = Node(NoReq)]
                           /\ held' = [held EXCEPT ![c] = @ \cup {fd}]
    BY DEF RequestPmQos
  <2>2. fd \in Fd /\ file[fd] = Closed
    BY DEF Free
  <2>3. TypeOK /\ Orphans
    BY DEF IInv
  <2>4. Owned(fd)'
    BY <2>1, <2>2, <2>3, KindsDiffer DEF Owned, TypeOK
  <2>5. ASSUME NEW f \in Fd, f # fd PROVE file'[f] = file[f] /\ (Owned(f) => Owned(f)')
    <3>1. file'[f] = file[f] /\ \A d \in Callers : f \in held[d] => f \in held'[d]
      BY <2>1, <2>2, <2>3, <2>5 DEF TypeOK
    <3> QED
      BY <3>1 DEF Owned, RequestPmQos, looperVars, queueVars, TimeoutKeys
  <2> QED
    BY <2>2, <2>3, <2>4, <2>5, OrphansKept, KindsDiffer DEF RequestPmQos, looperVars
<1> QED
  BY <1>1, <1>2, <1>3, <1>4, <1>5, <1>6, <1>7, <1>8, <1>9, <1>10 DEF Linked

LEMMA CloseHeldLinks ==
    ASSUME IInv, NEW c \in Callers, NEW fd \in Fd, CloseHeld(c, fd)
    PROVE  Linked'
<1>1. EventsMatchMessages'
  BY DEF IInv, CloseHeld, queueVars, EventsMatchMessages
<1>2. KeysFresh'
  BY DEF IInv, KeysFresh, OpenKeys, TimeoutKeys, NoReq, CloseHeld, Close, looperVars,
         queueVars, Closed, TypeOK
<1>3. PendingUnserved'
  BY DEF IInv, PendingUnserved, OpenKeys, TimeoutKeys, CloseHeld, Close, looperVars,
         queueVars, Closed, TypeOK, LooperTyped, OpenTimedEvents, OpenHandleEvents,
         NoReq
<1>4. OneFilePerRole'
  BY DEF IInv, OneFilePerRole, CloseHeld, Close, Closed
<1>5. WatchedPipesAreOurs'
  <2>1. file[fd] = Node(NoReq) \/ file[fd].kind = "client"
    BY DEF IInv, CloseHeld, HeldFiles
  <2>2. \A w \in watched : w.req # NoReq
    BY WatchedTyped DEF IInv, NoReq
  <2>3. \A w \in watched : fd # w.handle /\ fd # w.fd
    BY <2>1, <2>2, KindsDiffer DEF IInv, WatchedPipesAreOurs
  <2> QED
    BY <2>3, CloseKeepsWatched DEF CloseHeld, IInv, looperVars
<1>6. ScheduledNodes'
  <2>1. file[fd] = Node(NoReq) \/ file[fd].kind = "client"
    BY DEF IInv, CloseHeld, HeldFiles
  <2>2. \A k \in TimeoutKeys : mQueuedEvents[k].fd \in Fd /\ mQueuedEvents[k].req # NoReq
    BY DEF IInv, TypeOK, TimeoutKeys, QueuedEvent, OpenTimedEvents, OpenHandleEvents,
           TimeoutEvents, NoReq
  <2>3. \A k \in TimeoutKeys : mQueuedEvents[k].fd # fd
    BY <2>1, <2>2, KindsDiffer DEF IInv, ScheduledNodes
  <2>4. file'[fd] = Closed /\ \A f \in Fd : f # fd => file'[f] = file[f]
    BY DEF IInv, TypeOK, CloseHeld, Close
  <2>5. TimeoutKeys' = TimeoutKeys /\ UNCHANGED <<mQueuedEvents, watched>>
    BY DEF CloseHeld, TimeoutKeys, queueVars, looperVars
  <2> QED
    BY <2>2, <2>3, <2>4, <2>5, KindsDiffer DEF IInv, ScheduledNodes, NoPipeFor
<1>7. LooperNode'
  BY DEF IInv, LooperNode, NotScheduled, NoPipeFor, TimeoutKeys, CloseHeld, Close,
         looperVars, queueVars, Node, Client, Server, Closed, LooperTyped,
         OpenTimedEvents, OpenHandleEvents, TimeoutEvents, Contexts, NoReq, HandOver,
         Undelivered, HeldFiles
<1>8. HandOver'
  BY DEF IInv, HandOver, HandleKeys, Undelivered, CloseHeld, Close, looperVars,
         queueVars
<1>9. HeldFiles'
  BY DEF IInv, HeldFiles, CloseHeld, Close, Node, Closed, TypeOK
<1>10. Orphans'
  <2>1. file' = [file EXCEPT ![fd] = Closed] /\ held' = [held EXCEPT ![c] = @ \ {fd}]
    BY DEF CloseHeld, Close
  <2>2. file[fd].kind \in {"node", "client"}
    BY KindsDiffer DEF CloseHeld, IInv, HeldFiles
  <2>3. TypeOK /\ Orphans
    BY DEF IInv
  <2>4. file'[fd] = Closed
    BY <2>1, <2>3 DEF TypeOK
  <2>5. ASSUME NEW f \in Fd, f # fd PROVE file'[f] = file[f] /\ (Owned(f) => Owned(f)')
    <3>1. file'[f] = file[f] /\ \A d \in Callers : f \in held[d] => f \in held'[d]
      BY <2>1, <2>3, <2>5 DEF TypeOK
    <3> QED
      BY <3>1 DEF Owned, CloseHeld, looperVars, queueVars, TimeoutKeys
  <2> QED
    BY <2>2, <2>3, <2>4, <2>5, OrphansKept, KindsDiffer DEF CloseHeld, looperVars
<1> QED
  BY <1>1, <1>2, <1>3, <1>4, <1>5, <1>6, <1>7, <1>8, <1>9, <1>10 DEF Linked

LEMMA HandleMessageLinks ==
    ASSUME IInv, NEW m \in messages, HandleMessage(m)
    PROVE  Linked'
<1>1. OneFilePerRole' /\ WatchedPipesAreOurs' /\ HeldFiles'
  BY DEF IInv, HandleMessage, looperVars, callerVars, OneFilePerRole, NoReq,
         WatchedPipesAreOurs, HeldFiles
<1>2. EventsMatchMessages'
  <2>1. EventsMatchMessages
    BY DEF IInv
  <2>2. m.what \in DOMAIN mQueuedEvents
    BY <2>1 DEF EventsMatchMessages
  <2>3. /\ messages' = messages \ {m}
        /\ DOMAIN mQueuedEvents' = DOMAIN mQueuedEvents \ {m.what}
    BY <2>2 DEF HandleMessage
  <2>4. {n.what : n \in messages'} = {n.what : n \in messages} \ {m.what}
    BY <2>1, <2>3 DEF EventsMatchMessages
  <2> QED
    BY <2>1, <2>3, <2>4 DEF EventsMatchMessages
<1>3. KeysFresh'
  BY DEF IInv, KeysFresh, OpenKeys, TimeoutKeys, HandleMessage
<1>4. PendingUnserved'
  BY DEF IInv, PendingUnserved, OpenKeys, TimeoutKeys, HandleMessage, Entry, KeysFresh
<1>5. ScheduledNodes'
  BY DEF IInv, ScheduledNodes, TimeoutKeys, NoPipeFor, HandleMessage
<1>6. LooperNode'
  BY DEF IInv, LooperNode, NotScheduled, NoPipeFor, TimeoutKeys, HandleMessage, Entry,
         ScheduledNodes
<1>7. HandOver'
  BY DEF IInv, HandOver, HandleKeys, HandleMessage, Entry, callerVars
<1>8. Orphans'
  BY DEF IInv, Orphans, Owned, TimeoutKeys, HandleMessage, Entry, callerVars
<1> QED
  BY <1>1, <1>2, <1>3, <1>4, <1>5, <1>6, <1>7, <1>8 DEF Linked

LEMMA PipeClosedLinks ==
    ASSUME IInv, NEW w \in watched, PipeClosed(w)
    PROVE  Linked'
<1>1. EventsMatchMessages' /\ OneFilePerRole' /\ HeldFiles'
  BY DEF IInv, PipeClosed, queueVars, callerVars, EventsMatchMessages, OneFilePerRole,
         NoReq, HeldFiles
<1>2. KeysFresh'
  BY DEF IInv, KeysFresh, OpenKeys, TimeoutKeys, PipeClosed, queueVars
<1>3. PendingUnserved'
  BY DEF IInv, PendingUnserved, OpenKeys, TimeoutKeys, PipeClosed, queueVars
<1>4. WatchedPipesAreOurs'
  BY DEF IInv, WatchedPipesAreOurs, PipeClosed
<1>5. ScheduledNodes'
  BY DEF IInv, ScheduledNodes, TimeoutKeys, NoPipeFor, PipeClosed, queueVars
<1>6. LooperNode'
  BY DEF IInv, LooperNode, NotScheduled, TimeoutKeys, PipeClosed, HungUp, queueVars,
         ScheduledNodes, WatchedPipesAreOurs
<1>7. HandOver'
  BY DEF IInv, HandOver, HandleKeys, PipeClosed, callerVars, queueVars
<1>8. Orphans'
  BY DEF IInv, Orphans, Owned, TimeoutKeys, PipeClosed, callerVars, queueVars
<1> QED
  BY <1>1, <1>2, <1>3, <1>4, <1>5, <1>6, <1>7, <1>8 DEF Linked

LEMMA OpenNodeLinks ==
    ASSUME IInv, OpenNode
    PROVE  Linked'
<1>1. EventsMatchMessages'
  BY DEF IInv, OpenNode, queueVars, EventsMatchMessages
<1>2. KeysFresh'
  BY DEF IInv, KeysFresh, OpenKeys, TimeoutKeys, OpenNode, queueVars, Node
<1>3. PendingUnserved'
  BY DEF IInv, PendingUnserved, OpenKeys, TimeoutKeys, OpenNode, queueVars, Node
<1>4. OneFilePerRole'
  BY DEF IInv, OneFilePerRole, OpenNode, Node, PendingUnserved
<1>5. WatchedPipesAreOurs'
  BY OpenKeepsWatched DEF IInv, OpenNode, Free, TypeOK
<1>6. ScheduledNodes'
  BY DEF IInv, ScheduledNodes, TimeoutKeys, NoPipeFor, OpenNode, Free, queueVars, Node,
         Client, Server, Closed
<1>7. LooperNode'
  BY ConstantsAssumption DEF IInv, LooperNode, NotScheduled, NoPipeFor, TimeoutKeys,
                             OpenNode, Free, queueVars, Node, Client, Server, Closed,
                             TypeOK, QueuedEvent, OpenTimedEvents, OpenHandleEvents,
                             TimeoutEvents, Contexts, PendingUnserved, ScheduledNodes,
                             OneFilePerRole, WatchedPipesAreOurs
<1>8. HandOver'
  BY DEF IInv, HandOver, HandleKeys, OpenNode, Free, callerVars, queueVars, Closed
<1>9. HeldFiles'
  BY DEF IInv, HeldFiles, NoReq, OpenNode, Free, callerVars, Node, Closed, LooperTyped,
         OpenTimedEvents, OpenHandleEvents
<1>10. Orphans'
  BY DEF IInv, Orphans, Owned, TimeoutKeys, OpenNode, Free, callerVars, queueVars,
         Server, Closed
<1> QED
  BY <1>1, <1>2, <1>3, <1>4, <1>5, <1>6, <1>7, <1>8, <1>9, <1>10 DEF Linked

LEMMA OpenNodeFailsLinks ==
    ASSUME IInv, OpenNodeFails
    PROVE  Linked'
<1>1. /\ EventsMatchMessages'
      /\ OneFilePerRole'
      /\ WatchedPipesAreOurs'
      /\ ScheduledNodes'
      /\ HeldFiles'
  BY DEF IInv, OpenNodeFails, queueVars, looperVars, callerVars, EventsMatchMessages,
         OneFilePerRole, NoReq, WatchedPipesAreOurs, ScheduledNodes, TimeoutKeys,
         NoPipeFor, HeldFiles
<1>2. KeysFresh'
  BY DEF IInv, KeysFresh, OpenKeys, TimeoutKeys, OpenNodeFails, queueVars
<1>3. PendingUnserved'
  BY DEF IInv, PendingUnserved, OpenKeys, TimeoutKeys, OpenNodeFails, queueVars
<1>4. LooperNode'
  BY DEF IInv, LooperNode, OpenNodeFails
<1>5. HandOver'
  BY ConstantsAssumption DEF IInv, HandOver, HandleKeys, Undelivered, OpenNodeFails,
                             NoPipe, callerVars, queueVars
<1>6. Orphans'
  BY DEF IInv, Orphans, Owned, TimeoutKeys, OpenNodeFails, callerVars, queueVars
<1> QED
  BY <1>1, <1>2, <1>3, <1>4, <1>5, <1>6 DEF Linked

LEMMA PostTimeoutLinks ==
    ASSUME IInv, PostTimeout
    PROVE  Linked'
<1>1. OneFilePerRole' /\ WatchedPipesAreOurs' /\ HeldFiles'
  BY DEF IInv, PostTimeout, looperVars, callerVars, OneFilePerRole, NoReq,
         WatchedPipesAreOurs, HeldFiles
<1>2. EventsMatchMessages'
  BY SendMatches DEF IInv, PostTimeout
<1>3. KeysFresh'
  BY DEF IInv, KeysFresh, OpenKeys, TimeoutKeys, NoReq, PostTimeout, SendEventDelayed,
         Timeout, TypeOK, LooperTyped, File, Req, QueuedEvent, OpenTimedEvents,
         OpenHandleEvents, TimeoutEvents
<1>4. PendingUnserved'
  BY DEF IInv, PendingUnserved, OpenKeys, TimeoutKeys, PostTimeout, SendEventDelayed,
         Timeout
<1>5. ScheduledNodes'
  BY DEF IInv, ScheduledNodes, TimeoutKeys, NoPipeFor, PostTimeout, SendEventDelayed,
         Timeout, LooperNode, NotScheduled
<1>6. LooperNode'
  BY DEF IInv, LooperNode, PostTimeout
<1>7. HandOver'
  BY DEF IInv, HandOver, HandleKeys, PostTimeout, SendEventDelayed, Timeout, callerVars
<1>8. Orphans'
  <2>1. TypeOK /\ Orphans
    BY DEF IInv
  <2>2. mKey \notin DOMAIN mQueuedEvents
    BY <2>1 DEF TypeOK
  <2>3. /\ mQueuedEvents'[mKey] = Timeout(event.req, node)
        /\ DOMAIN mQueuedEvents' = DOMAIN mQueuedEvents \cup {mKey}
        /\ \A k \in DOMAIN mQueuedEvents : mQueuedEvents'[k] = mQueuedEvents[k]
    BY <2>2 DEF PostTimeout, SendEventDelayed
  <2>4. ASSUME NEW f \in Fd, f = node PROVE Owned(f)'
    <3>1. mKey \in TimeoutKeys' /\ mQueuedEvents'[mKey].fd = f
      BY <2>3, <2>4 DEF TimeoutKeys, Timeout
    <3> QED
      BY <3>1 DEF Owned
  <2>5. ASSUME NEW f \in Fd, f # node PROVE Owned(f) => Owned(f)'
    BY <2>3, <2>5 DEF Owned, TimeoutKeys, PostTimeout, callerVars
  <2> QED
    BY <2>1, <2>4, <2>5, OrphansKept DEF PostTimeout
<1> QED
  BY <1>1, <1>2, <1>3, <1>4, <1>5, <1>6, <1>7, <1>8 DEF Linked

LEMMA CreatePipeLinks ==
    ASSUME IInv, CreatePipe
    PROVE  Linked'
<1>0. PICK client, server \in Fd :
          /\ client # server /\ file[client] = Closed /\ file[server] = Closed
          /\ file'[client] = Client(event.req) /\ file'[server] = Server(event.req)
          /\ \A f \in Fd : f # client /\ f # server => file'[f] = file[f]
          /\ pipefd' = [client |-> client, server |-> server]
  BY CreatePipeFiles
<1>1. EventsMatchMessages'
  BY DEF IInv, CreatePipe, queueVars, EventsMatchMessages
<1>2. KeysFresh'
  BY DEF IInv, KeysFresh, OpenKeys, TimeoutKeys, CreatePipe, queueVars, Client, Server,
         TypeOK
<1>3. PendingUnserved'
  <2>1. PendingUnserved /\ node \in Fd /\ file[node] = Node(event.req)
    BY DEF IInv, CreatePipe, LooperNode, LooperTyped
  <2>2. \A k \in OpenKeys : k # event.req
    BY <2>1, KindsDiffer DEF PendingUnserved
  <2>3. OpenKeys' = OpenKeys
    BY DEF OpenKeys, TimeoutKeys, CreatePipe, queueVars
  <2>4. ASSUME NEW k \in OpenKeys, NEW f \in Fd PROVE file'[f].req # k
    BY <1>0, <2>1, <2>2, <2>4, KindsDiffer DEF PendingUnserved
  <2> QED
    BY <2>3, <2>4 DEF PendingUnserved, CreatePipe
<1>4. OneFilePerRole'
  BY DEF IInv, OneFilePerRole, CreatePipe, Client, Server, TypeOK, LooperNode, NoPipeFor
<1>5. WatchedPipesAreOurs'
  BY OpenKeepsWatched DEF IInv, CreatePipe, Free, TypeOK
<1>6. ScheduledNodes'
  <2>1. ScheduledNodes /\ \A k \in TimeoutKeys : mQueuedEvents[k].req # event.req
    BY DEF IInv, CreatePipe, LooperNode, NotScheduled
  <2>2. \A k \in TimeoutKeys : mQueuedEvents[k].fd \in Fd
    BY DEF TimeoutKeys, IInv, TypeOK, QueuedEvent, OpenTimedEvents, OpenHandleEvents,
           TimeoutEvents
  <2>3. TimeoutKeys' = TimeoutKeys /\ mQueuedEvents' = mQueuedEvents /\ watched' = watched
    BY DEF TimeoutKeys, CreatePipe, queueVars
  <2>4. \A k \in TimeoutKeys : mQueuedEvents[k].fd # client /\ mQueuedEvents[k].fd # server
    BY <1>0, <2>1, KindsDiffer DEF ScheduledNodes
  <2>5. \A k \in TimeoutKeys : NoPipeFor(mQueuedEvents[k].req)'
    BY <1>0, <2>1, <2>3, KindsDiffer DEF ScheduledNodes, NoPipeFor
  <2> QED
    BY <1>0, <2>1, <2>2, <2>3, <2>4, <2>5 DEF ScheduledNodes
<1>7. LooperNode'
  BY DEF IInv, LooperNode, NotScheduled, TimeoutKeys, CreatePipe, Free, queueVars, Node,
         Closed, TypeOK, LooperTyped
<1>8. HandOver'
  <2>1. HandOver /\ HeldFiles /\ TypeOK
    BY DEF IInv
  <2>2. \A c \in Callers : client \notin held[c]
    BY <1>0, <2>1, KindsDiffer DEF HeldFiles
  <2>3. \A c \in Callers : caller[c] = "waiting" /\ done[c] =>
                             ret[c] # client /\ ret[c] # server
    BY <1>0, <2>1, KindsDiffer DEF HandOver
  <2>4. Undelivered(client)'
    BY <1>0, <2>2, <2>3, KindsDiffer DEF Undelivered, CreatePipe, callerVars
  <2>5. pipefd'.client = client
    BY <1>0
  <2>6. HandleKeys' = HandleKeys /\ mQueuedEvents' = mQueuedEvents
    BY DEF HandleKeys, CreatePipe, queueVars
  <2>7. /\ looper = "pipe" /\ looper' = "listen" /\ event' = event
        /\ UNCHANGED <<caller, done, ret, held>>
    BY DEF CreatePipe, callerVars
  <2> QED
    BY <1>0, <2>1, <2>3, <2>4, <2>5, <2>6, <2>7 DEF HandOver
<1>9. HeldFiles'
  <2>1. HeldFiles /\ held' = held /\ event.req # NoReq
    BY DEF IInv, CreatePipe, LooperTyped, OpenHandleEvents, NoReq, callerVars
  <2>2. \A c \in Callers : /\ held[c] \subseteq Fd
                           /\ client \notin held[c] /\ server \notin held[c]
    BY <1>0, <2>1, KindsDiffer DEF IInv, TypeOK, HeldFiles
  <2> QED
    BY <1>0, <2>1, <2>2, KindsDiffer DEF HeldFiles
<1>10. Orphans'
  <2>1. Orphans
    BY DEF IInv
  <2>2. \A f \in Fd : f # client /\ f # server /\ Owned(f) => Owned(f)'
    BY <1>0 DEF Owned, CreatePipe, callerVars, queueVars, TimeoutKeys
  <2>3. \A f \in Fd : file'[f].kind = "node" /\ ~Owned(f)' =>
                        file'[f] = file[f] /\ ~Owned(f)
    BY <1>0, <2>2, KindsDiffer
  <2>4. \A f, s \in Fd : file[s] = Server(file[f].req) => file'[s] = file[s]
    BY <1>0, KindsDiffer
  <2>5. watched' \subseteq watched
    BY DEF CreatePipe
  <2> QED
    BY <2>1, <2>3, <2>4, <2>5, OrphansKept
<1> QED
  BY <1>1, <1>2, <1>3, <1>4, <1>5, <1>6, <1>7, <1>8, <1>9, <1>10 DEF Linked

LEMMA CreatePipeFailsLinks ==
    ASSUME IInv, CreatePipeFails
    PROVE  Linked'
<1>1. EventsMatchMessages'
  BY DEF IInv, CreatePipeFails, queueVars, EventsMatchMessages
<1>2. KeysFresh'
  BY DEF IInv, KeysFresh, OpenKeys, TimeoutKeys, NoReq, CreatePipeFails, Close,
         queueVars, Closed, TypeOK
<1>3. PendingUnserved'
  BY DEF IInv, PendingUnserved, OpenKeys, TimeoutKeys, CreatePipeFails, Close, queueVars,
         Closed, TypeOK, NoReq
<1>4. OneFilePerRole'
  BY DEF IInv, OneFilePerRole, CreatePipeFails, Close, Closed
<1>5. WatchedPipesAreOurs'
  <2>1. node \in Fd /\ file[node] = Node(event.req) /\ \A w \in watched : w.req # event.req
    BY DEF IInv, CreatePipeFails, LooperNode, LooperTyped, NotScheduled
  <2>2. \A w \in watched : node # w.handle /\ node # w.fd
    BY <2>1, KindsDiffer DEF IInv, WatchedPipesAreOurs
  <2> QED
    BY <2>1, <2>2, CloseKeepsWatched DEF CreatePipeFails, IInv
<1>6. ScheduledNodes'
  BY DEF IInv, ScheduledNodes, TimeoutKeys, NoPipeFor, CreatePipeFails, Close, queueVars,
         Node, Client, Server, Closed, LooperNode, NotScheduled
<1>7. LooperNode'
  BY DEF IInv, LooperNode, CreatePipeFails
<1>8. HandOver'
  BY ConstantsAssumption DEF IInv, HandOver, HandleKeys, Undelivered, CreatePipeFails,
                             Close, NoPipe, callerVars, queueVars, Node, LooperNode
<1>9. HeldFiles'
  BY DEF IInv, HeldFiles, NoReq, CreatePipeFails, Close, callerVars, Node, Closed,
         LooperTyped, OpenHandleEvents, LooperNode
<1>10. Orphans'
  <2>1. TypeOK /\ Orphans
    BY DEF IInv
  <2>2. node \in Fd /\ file[node] = Node(event.req)
    BY DEF IInv, CreatePipeFails, LooperNode, LooperTyped
  <2>3. file'[node] = Closed /\ \A f \in Fd : f # node => file'[f] = file[f]
    BY <2>1, <2>2 DEF CreatePipeFails, Close, TypeOK
  <2>4. \A f \in Fd : f # node /\ Owned(f) => Owned(f)'
    BY <2>3 DEF Owned, CreatePipeFails, callerVars, queueVars, TimeoutKeys
  <2> QED
    BY <2>1, <2>2, <2>3, <2>4, OrphansKept, KindsDiffer DEF CreatePipeFails
<1> QED
  BY <1>1, <1>2, <1>3, <1>4, <1>5, <1>6, <1>7, <1>8, <1>9, <1>10 DEF Linked

LEMMA ListenLinks ==
    ASSUME IInv, Listen
    PROVE  Linked'
<1>1. EventsMatchMessages' /\ OneFilePerRole' /\ HeldFiles'
  BY DEF IInv, Listen, queueVars, callerVars, EventsMatchMessages, OneFilePerRole, NoReq,
         HeldFiles
<1>2. KeysFresh'
  BY DEF IInv, KeysFresh, OpenKeys, TimeoutKeys, Listen, queueVars
<1>3. PendingUnserved'
  BY DEF IInv, PendingUnserved, OpenKeys, TimeoutKeys, Listen, queueVars
<1>4. WatchedPipesAreOurs'
  <2> DEFINE ctx == Context(event.req, pipefd.server, node)
  <2>1. file[node] = Node(event.req) /\ file[pipefd.server] = Server(event.req)
    BY DEF IInv, Listen, LooperNode
  <2>2. ctx.handle = pipefd.server /\ ctx.fd = node /\ ctx.req = event.req
    BY DEF Context
  <2>3. watched' = watched \cup {ctx} /\ file' = file
    BY DEF Listen
  <2> HIDE DEF ctx
  <2> QED
    BY <2>1, <2>2, <2>3 DEF IInv, WatchedPipesAreOurs
<1>5. ScheduledNodes'
  BY DEF IInv, ScheduledNodes, TimeoutKeys, NoPipeFor, Listen, Context, queueVars,
         LooperNode, NotScheduled
<1>6. LooperNode'
  BY DEF IInv, LooperNode, Listen
<1>7. HandOver'
  BY DEF IInv, HandOver, HandleKeys, Undelivered, Listen, callerVars, queueVars
<1>8. Orphans'
  <2> DEFINE ctx == Context(event.req, pipefd.server, node)
  <2>1. TypeOK /\ Orphans /\ OneFilePerRole
    BY DEF IInv
  <2>2. /\ node \in Fd /\ pipefd.server \in Fd /\ event.req # NoReq
        /\ file[node] = Node(event.req) /\ file[pipefd.server] = Server(event.req)
    BY DEF IInv, Listen, LooperNode, LooperTyped, OpenHandleEvents, NoReq
  <2>3. ctx.handle = pipefd.server /\ ctx.fd = node
    BY DEF Context
  <2>4. watched' = watched \cup {ctx} /\ file' = file
    BY DEF Listen
  <2> HIDE DEF ctx
  <2>5. ASSUME NEW f \in Fd, f = node PROVE Owned(f)'
    <3>1. ctx \in watched' /\ ctx.fd = f
      BY <2>3, <2>4, <2>5
    <3> QED
      BY <3>1 DEF Owned
  <2>6. ASSUME NEW f \in Fd, f # node, file[f].kind = "node", ~Owned(f)'
        PROVE  \E s \in Fd : /\ file'[s] = Server(file'[f].req)
                             /\ \A w \in watched' : w.handle # s
    <3>1. ~Owned(f)
      BY <2>4, <2>6 DEF Owned, Listen, callerVars, queueVars, TimeoutKeys
    <3>2. PICK s \in Fd : file[s] = Server(file[f].req) /\ \A w \in watched : w.handle # s
      BY <2>1, <2>6, <3>1 DEF Orphans
    <3>3. s # pipefd.server
      <4>1. SUFFICES ASSUME s = pipefd.server PROVE FALSE
        OBVIOUS
      <4>2. file[f].req = event.req
        BY <2>2, <3>2, <4>1, KindsDiffer
      <4>3. file[f] = file[node]
        BY <2>2, <2>1, <2>6, <4>2, NodeRecord
      <4> QED
        BY <2>2, <2>1, <2>6, <4>2, <4>3 DEF OneFilePerRole
    <3> QED
      BY <2>3, <2>4, <3>2, <3>3
  <2> QED
    BY <2>4, <2>5, <2>6 DEF Orphans
<1> QED
  BY <1>1, <1>2, <1>3, <1>4, <1>5, <1>6, <1>7, <1>8 DEF Linked

LEMMA ListenFailsLinks ==
    ASSUME IInv, ListenFails
    PROVE  Linked'
<1>1. /\ EventsMatchMessages'
      /\ OneFilePerRole'
      /\ WatchedPipesAreOurs'
      /\ ScheduledNodes'
      /\ HeldFiles'
  BY DEF IInv, ListenFails, queueVars, looperVars, callerVars, EventsMatchMessages,
         OneFilePerRole, NoReq, WatchedPipesAreOurs, ScheduledNodes, TimeoutKeys,
         NoPipeFor, HeldFiles
<1>2. KeysFresh'
  BY DEF IInv, KeysFresh, OpenKeys, TimeoutKeys, ListenFails, queueVars
<1>3. PendingUnserved'
  BY DEF IInv, PendingUnserved, OpenKeys, TimeoutKeys, ListenFails, queueVars
<1>4. LooperNode'
  BY DEF IInv, LooperNode, ListenFails
<1>5. HandOver'
  BY DEF IInv, HandOver, HandleKeys, Undelivered, ListenFails, callerVars, queueVars
<1>6. Orphans'
  <2>1. TypeOK /\ Orphans /\ WatchedPipesAreOurs
    BY DEF IInv
  <2>2. /\ node \in Fd /\ pipefd.server \in Fd
        /\ file[node] = Node(event.req) /\ file[pipefd.server] = Server(event.req)
        /\ \A w \in watched : w.req # event.req
    BY DEF IInv, ListenFails, LooperNode, LooperTyped, NotScheduled
  <2>3. \A w \in watched : w.handle # pipefd.server
    BY <2>2, <2>1, KindsDiffer DEF WatchedPipesAreOurs
  <2>4. file' = file /\ watched' = watched
    BY DEF ListenFails
  <2>5. \A f \in Fd : f # node /\ Owned(f) => Owned(f)'
    BY DEF Owned, ListenFails, callerVars, queueVars, TimeoutKeys
  <2> QED
    BY <2>2, <2>3, <2>1, <2>4, <2>5, KindsDiffer DEF Orphans
<1> QED
  BY <1>1, <1>2, <1>3, <1>4, <1>5, <1>6 DEF Linked

LEMMA PublishLinks ==
    ASSUME IInv, Publish
    PROVE  Linked'
<1>1. /\ EventsMatchMessages'
      /\ OneFilePerRole'
      /\ WatchedPipesAreOurs'
      /\ ScheduledNodes'
      /\ HeldFiles'
  BY DEF IInv, Publish, queueVars, looperVars, callerVars, EventsMatchMessages,
         OneFilePerRole, NoReq, WatchedPipesAreOurs, ScheduledNodes, TimeoutKeys,
         NoPipeFor, HeldFiles
<1>2. KeysFresh'
  BY DEF IInv, KeysFresh, OpenKeys, TimeoutKeys, Publish, queueVars
<1>3. PendingUnserved'
  BY DEF IInv, PendingUnserved, OpenKeys, TimeoutKeys, Publish, queueVars
<1>4. LooperNode'
  BY DEF IInv, LooperNode, Publish
<1>5. HandOver'
  BY ConstantsAssumption DEF IInv, HandOver, HandleKeys, Undelivered, Publish, queueVars,
                             TypeOK, LooperTyped, OpenHandleEvents
<1>6. Orphans'
  BY DEF IInv, Orphans, Owned, TimeoutKeys, Publish, queueVars
<1> QED
  BY <1>1, <1>2, <1>3, <1>4, <1>5, <1>6 DEF Linked

LEMMA SignalLinks ==
    ASSUME IInv, Signal
    PROVE  Linked'
<1>1. /\ EventsMatchMessages'
      /\ OneFilePerRole'
      /\ WatchedPipesAreOurs'
      /\ ScheduledNodes'
      /\ HeldFiles'
  BY DEF IInv, Signal, queueVars, looperVars, callerVars, EventsMatchMessages,
         OneFilePerRole, NoReq, WatchedPipesAreOurs, ScheduledNodes, TimeoutKeys,
         NoPipeFor, HeldFiles
<1>2. KeysFresh'
  BY DEF IInv, KeysFresh, OpenKeys, TimeoutKeys, Signal, queueVars
<1>3. PendingUnserved'
  BY DEF IInv, PendingUnserved, OpenKeys, TimeoutKeys, Signal, queueVars
<1>4. LooperNode'
  BY DEF IInv, LooperNode, Signal
<1>5. HandOver'
  BY DEF IInv, HandOver, HandleKeys, Undelivered, Signal, queueVars, LooperTyped,
         OpenHandleEvents
<1>6. Orphans'
  BY DEF IInv, Orphans, Owned, TimeoutKeys, Signal, queueVars
<1> QED
  BY <1>1, <1>2, <1>3, <1>4, <1>5, <1>6 DEF Linked

LEMMA CloseServerLinks ==
    ASSUME IInv, CloseServer
    PROVE  Linked'
<1>1. EventsMatchMessages'
  BY DEF IInv, CloseServer, queueVars, EventsMatchMessages
<1>2. KeysFresh'
  BY DEF IInv, KeysFresh, OpenKeys, TimeoutKeys, NoReq, CloseServer, Close, queueVars,
         Closed, TypeOK
<1>3. PendingUnserved'
  BY DEF IInv, PendingUnserved, OpenKeys, TimeoutKeys, CloseServer, Close, queueVars,
         Closed, TypeOK, NoReq
<1>4. OneFilePerRole'
  BY DEF IInv, OneFilePerRole, CloseServer, Close, Closed
<1>5. WatchedPipesAreOurs'
  <2>1. /\ event.handle \in Fd /\ file[event.handle] = Server(event.req)
        /\ \A w \in watched : w.req # event.req
    BY DEF IInv, CloseServer, LooperNode, LooperTyped, NotScheduled, Contexts
  <2>2. \A w \in watched : event.handle # w.handle /\ event.handle # w.fd
    BY <2>1, KindsDiffer DEF IInv, WatchedPipesAreOurs
  <2> QED
    BY <2>1, <2>2, CloseKeepsWatched DEF CloseServer, IInv
<1>6. ScheduledNodes'
  BY DEF IInv, ScheduledNodes, TimeoutKeys, NoPipeFor, CloseServer, Close, queueVars,
         Node, Client, Server, Closed, LooperNode
<1>7. LooperNode'
  BY DEF IInv, LooperNode, NotScheduled, TimeoutKeys, CloseServer, Close, queueVars,
         Node, Client, Server, Closed
<1>8. HandOver'
  BY DEF IInv, HandOver, HandleKeys, CloseServer, Close, callerVars, queueVars, Server,
         LooperNode
<1>9. HeldFiles'
  BY DEF IInv, HeldFiles, CloseServer, Close, callerVars, Node, Server, Closed,
         LooperNode
<1>10. Orphans'
  <2>1. TypeOK /\ Orphans /\ OneFilePerRole
    BY DEF IInv
  <2>2. /\ event.handle \in Fd /\ event.fd \in Fd /\ event.req # NoReq
        /\ file[event.handle] = Server(event.req) /\ file[event.fd] = Node(event.req)
    BY DEF IInv, CloseServer, LooperNode, LooperTyped, Contexts, NoReq
  <2>3. file' = [file EXCEPT ![event.handle] = Closed]
    BY DEF CloseServer, Close
  <2>4. event.fd # event.handle
    BY <2>2, KindsDiffer
  <2>5. file'[event.handle] = Closed /\ \A f \in Fd : f # event.handle => file'[f] = file[f]
    BY <2>2, <2>3, <2>1 DEF TypeOK
  <2>6. \A f \in Fd : f # event.handle => Owned(f)' = Owned(f)
    BY <2>5 DEF Owned, CloseServer, callerVars, queueVars, TimeoutKeys
  <2>7. Owned(event.fd)
    BY DEF Owned, CloseServer
  <2>8. ASSUME NEW f \in Fd, file'[f].kind = "node", ~Owned(f)'
        PROVE  file[f].req # event.req /\ f # event.handle
    <3>1. f # event.handle /\ f # event.fd
      BY <2>2, <2>4, <2>5, <2>6, <2>7, <2>8, KindsDiffer
    <3>2. file[f].kind = "node"
      BY <2>5, <2>8, <3>1
    <3> QED
      BY <2>2, <2>1, <3>1, <3>2, NodeRecord DEF OneFilePerRole
  <2> QED
    BY <2>2, <2>1, <2>5, <2>6, <2>8, OrphansKept, KindsDiffer DEF CloseServer
<1> QED
  BY <1>1, <1>2, <1>3, <1>4, <1>5, <1>6, <1>7, <1>8, <1>9, <1>10 DEF Linked

LEMMA CloseNodeLinks ==
    ASSUME IInv, CloseNode
    PROVE  Linked'
<1>1. EventsMatchMessages'
  BY DEF IInv, CloseNode, queueVars, EventsMatchMessages
<1>2. KeysFresh'
  BY DEF IInv, KeysFresh, OpenKeys, TimeoutKeys, NoReq, CloseNode, Close, queueVars,
         Closed, TypeOK
<1>3. PendingUnserved'
  BY DEF IInv, PendingUnserved, OpenKeys, TimeoutKeys, CloseNode, Close, queueVars,
         Closed, TypeOK, NoReq
<1>4. OneFilePerRole'
  BY DEF IInv, OneFilePerRole, CloseNode, Close, Closed
<1>5. WatchedPipesAreOurs'
  <2>1. /\ event.fd \in Fd /\ file[event.fd] = Node(event.req)
        /\ \A w \in watched : w.req # event.req
    BY DEF IInv, CloseNode, LooperNode, LooperTyped, NotScheduled, Contexts, TimeoutEvents
  <2>2. \A w \in watched : event.fd # w.handle /\ event.fd # w.fd
    BY <2>1, KindsDiffer DEF IInv, WatchedPipesAreOurs
  <2> QED
    BY <2>1, <2>2, CloseKeepsWatched DEF CloseNode, IInv
<1>6. ScheduledNodes'
  BY DEF IInv, ScheduledNodes, TimeoutKeys, NoPipeFor, CloseNode, Close, queueVars, Node,
         Client, Server, Closed, LooperNode, NotScheduled
<1>7. LooperNode'
  BY DEF IInv, LooperNode, CloseNode
<1>8. HandOver'
  BY DEF IInv, HandOver, HandleKeys, CloseNode, Close, callerVars, queueVars, Node,
         LooperNode
<1>9. HeldFiles'
  BY DEF IInv, HeldFiles, NoReq, CloseNode, Close, callerVars, Node, Closed, LooperTyped,
         TimeoutEvents, Contexts, LooperNode
<1>10. Orphans'
  <2>1. TypeOK /\ Orphans
    BY DEF IInv
  <2>2. event.fd \in Fd /\ file[event.fd] = Node(event.req)
    BY DEF IInv, CloseNode, LooperNode, LooperTyped, Contexts, TimeoutEvents
  <2>3. file' = [file EXCEPT ![event.fd] = Closed]
    BY DEF CloseNode, Close
  <2>4. file'[event.fd] = Closed /\ \A f \in Fd : f # event.fd => file'[f] = file[f]
    BY <2>2, <2>3, <2>1 DEF TypeOK
  <2>5. \A f \in Fd : f # event.fd /\ Owned(f) => Owned(f)'
    BY <2>4 DEF Owned, CloseNode, callerVars, queueVars, TimeoutKeys
  <2> QED
    BY <2>2, <2>1, <2>4, <2>5, OrphansKept, KindsDiffer DEF CloseNode
<1> QED
  BY <1>1, <1>2, <1>3, <1>4, <1>5, <1>6, <1>7, <1>8, <1>9, <1>10 DEF Linked

-----------------------------------------------------------------------------

LEMMA IInvInit == Init => IInv
<1> SUFFICES ASSUME Init PROVE IInv
  OBVIOUS
<1>1. TypeOK /\ LooperTyped
  BY TypedInit DEF Typed
<1>2. \A fd \in Fd : file[fd] = Closed
  BY DEF Init
<1>3. EventsMatchMessages
  BY DEF Init, EventsMatchMessages
<1>4. KeysFresh /\ PendingUnserved /\ OneFilePerRole
  BY <1>2, KindsDiffer
     DEF Init, KeysFresh, PendingUnserved, OneFilePerRole, OpenKeys, TimeoutKeys, NoReq
<1>5. WatchedPipesAreOurs /\ ScheduledNodes /\ LooperNode
  BY DEF Init, WatchedPipesAreOurs, ScheduledNodes, LooperNode, TimeoutKeys
<1>6. HandOver /\ HeldFiles /\ Orphans
  BY <1>2, KindsDiffer DEF Init, HandOver, HandleKeys, HeldFiles, Orphans, NoEvent
<1> QED
  BY <1>1, <1>3, <1>4, <1>5, <1>6 DEF IInv

LEMMA IInvStep == IInv /\ [Next]_vars => IInv'
<1> SUFFICES ASSUME IInv, [Next]_vars PROVE IInv'
  OBVIOUS
<1>1. TypeOK' /\ LooperTyped'
  BY TypedStep DEF IInv, Typed
<1>2. Linked'
  <2>1. CASE UNCHANGED vars
    BY <2>1 DEF vars, IInv, Linked, EventsMatchMessages, KeysFresh, PendingUnserved,
                OneFilePerRole, WatchedPipesAreOurs, ScheduledNodes, LooperNode, HandOver,
                HeldFiles, Orphans, OpenKeys, HandleKeys, TimeoutKeys, NotScheduled,
                NoPipeFor, Undelivered, Owned
  <2>2. CASE Prepare \/ PrepareFails \/ Construct
    BY <2>2, PrepareLinks, PrepareFailsLinks, ConstructLinks
  <2>3. CASE Calls
    BY <2>3, RequestPmQosTimedLinks, CreatePmQosHandleLinks, ReturnFromCreateLinks,
       RequestPmQosLinks, CloseHeldLinks DEF Calls
  <2>4. CASE \E m \in messages : HandleMessage(m)
    BY <2>4, HandleMessageLinks
  <2>5. CASE \E w \in watched : PipeClosed(w)
    BY <2>5, PipeClosedLinks
  <2>6. CASE RunEvent
    BY <2>6, OpenNodeLinks, OpenNodeFailsLinks, PostTimeoutLinks, CreatePipeLinks,
       CreatePipeFailsLinks, ListenLinks, ListenFailsLinks, PublishLinks, SignalLinks,
       CloseServerLinks, CloseNodeLinks DEF RunEvent
  <2> QED
    BY <2>1, <2>2, <2>3, <2>4, <2>5, <2>6 DEF Next
<1> QED
  BY <1>1, <1>2 DEF IInv, Linked

(* The poker's inductive invariant holds always.                           *)
THEOREM Invariance == Spec => []IInv
  BY IInvInit, IInvStep, PTL DEF Spec

-----------------------------------------------------------------------------
(* What IInv says of the descriptors somebody is going to close.           *)

LEMMA InHandIs ==
    ASSUME NEW fd \in InHand
    PROVE  \/ looper \in {"post", "pipe", "listen"} /\ fd = node
           \/ looper \in {"hangup", "close"} /\ fd = event.fd
<1>1. CASE looper \in {"post", "pipe", "listen"}
  BY <1>1 DEF InHand
<1>2. CASE looper \in {"hangup", "close"}
  BY <1>2 DEF InHand
<1>3. CASE looper \notin {"post", "pipe", "listen", "hangup", "close"}
  BY <1>3 DEF InHand
<1> QED
  BY <1>1, <1>2, <1>3

(* Whoever is going to close fd does so for the request the file says.     *)
LEMMA OwnersAgree ==
    ASSUME IInv, NEW fd \in Fd
    PROVE  /\ \A k \in TimeoutKeys : mQueuedEvents[k].fd = fd =>
                  file[fd] = Node(mQueuedEvents[k].req) /\ mQueuedEvents[k].req # NoReq
           /\ \A w \in watched : w.fd = fd => file[fd] = Node(w.req) /\ w.req # NoReq
           /\ \A c \in Callers : fd \in held[c] /\ file[fd].kind # "client" =>
                  file[fd] = Node(NoReq)
           /\ fd \in InHand => /\ file[fd] = Node(event.req)
                               /\ NotScheduled(event.req)
                               /\ event.req # NoReq
<1>1. ASSUME NEW k \in TimeoutKeys, mQueuedEvents[k].fd = fd
      PROVE  file[fd] = Node(mQueuedEvents[k].req) /\ mQueuedEvents[k].req # NoReq
  <2>1. mQueuedEvents[k] \in TimeoutEvents
    BY DEF IInv, TypeOK, TimeoutKeys, QueuedEvent, OpenTimedEvents, OpenHandleEvents,
           TimeoutEvents
  <2> QED
    BY <1>1, <2>1 DEF IInv, ScheduledNodes, TimeoutEvents, NoReq
<1>2. ASSUME NEW w \in watched, w.fd = fd
      PROVE  file[fd] = Node(w.req) /\ w.req # NoReq
  BY <1>2, WatchedTyped DEF IInv, WatchedPipesAreOurs, NoReq
<1>3. ASSUME NEW c \in Callers, fd \in held[c], file[fd].kind # "client"
      PROVE  file[fd] = Node(NoReq)
  BY <1>3 DEF IInv, HeldFiles
<1>4. ASSUME fd \in InHand
      PROVE  file[fd] = Node(event.req) /\ NotScheduled(event.req) /\ event.req # NoReq
  BY <1>4, InHandIs
     DEF IInv, LooperNode, LooperTyped, NoReq, OpenTimedEvents, OpenHandleEvents,
         TimeoutEvents, Contexts
<1> QED
  BY <1>1, <1>2, <1>3, <1>4

LEMMA IInvOneOwner == IInv => OneOwner
<1> SUFFICES ASSUME IInv, NEW fd \in Fd
             PROVE  /\ \A o1, o2 \in Owners(fd) : o1 = o2
                    /\ Owners(fd) # {} => file[fd].kind = "node"
  BY DEF OneOwner
<1> DEFINE Timeouts == {k \in TimeoutKeys : mQueuedEvents[k].fd = fd}
           Watches  == {w \in watched : w.fd = fd}
           Holders  == {c \in Callers : fd \in held[c] /\ file[fd].kind # "client"}
           AtHand   == InHand \cap {fd}
<1>1. Owners(fd) = {<<"timeout", k>> : k \in Timeouts}
                   \cup {<<"context", w>> : w \in Watches}
                   \cup {<<"caller", c>> : c \in Holders}
                   \cup {<<"looper", f>> : f \in AtHand}
  BY DEF Owners
<1>2. /\ \A k \in Timeouts : k \in TimeoutKeys /\ file[fd] = Node(mQueuedEvents[k].req)
                             /\ mQueuedEvents[k].req # NoReq
      /\ \A w \in Watches : w \in watched /\ file[fd] = Node(w.req) /\ w.req # NoReq
      /\ \A c \in Holders : file[fd] = Node(NoReq) /\ c \in Callers /\ fd \in held[c]
      /\ \A f \in AtHand : /\ f = fd /\ file[fd] = Node(event.req)
                           /\ NotScheduled(event.req) /\ event.req # NoReq
  BY OwnersAgree
<1> HIDE DEF Timeouts, Watches, Holders, AtHand
<1>3. \A k \in Timeouts : mQueuedEvents[k].req = file[fd].req
  BY <1>2, KindsDiffer
<1>4. \A w \in Watches : w.req = file[fd].req
  BY <1>2, KindsDiffer
<1>5. Holders # {} => file[fd].req = NoReq
  BY <1>2, KindsDiffer
<1>6. AtHand # {} => event.req = file[fd].req
  BY <1>2, KindsDiffer
<1>7. \A k1, k2 \in Timeouts : k1 = k2
  BY <1>2, <1>3 DEF IInv, ScheduledNodes
<1>8. \A w1, w2 \in Watches : w1 = w2
  BY <1>2, <1>4 DEF IInv, ScheduledNodes
<1>9. \A c1, c2 \in Holders : c1 = c2
  BY <1>2 DEF IInv, HeldFiles
<1>10. Timeouts = {} \/ Watches = {}
  BY <1>2, <1>3, <1>4 DEF IInv, ScheduledNodes
<1>11. Holders = {} \/ (Timeouts = {} /\ Watches = {} /\ AtHand = {})
  BY <1>2, <1>3, <1>4, <1>5, <1>6
<1>12. AtHand = {} \/ (Timeouts = {} /\ Watches = {})
  BY <1>2, <1>3, <1>4, <1>6 DEF NotScheduled
<1>13. \A f1, f2 \in AtHand : f1 = f2
  BY <1>2
<1>14. \A o1, o2 \in Owners(fd) : o1 = o2
  BY <1>1, <1>7, <1>8, <1>9, <1>10, <1>11, <1>12, <1>13
<1>15. Owners(fd) # {} => file[fd].kind = "node"
  BY <1>1, <1>2, KindsDiffer
<1> QED
  BY <1>14, <1>15

LEMMA IInvOrphans == IInv => OrphansAreUnwatched
<1> SUFFICES ASSUME NEW fd \in Fd, Owned(fd) PROVE Owners(fd) # {}
  BY DEF IInv, Orphans, OrphansAreUnwatched
<1>1. CASE \E k \in TimeoutKeys : mQueuedEvents[k].fd = fd
  BY <1>1 DEF Owners
<1>2. CASE \E w \in watched : w.fd = fd
  BY <1>2 DEF Owners
<1>3. CASE \E c \in Callers : fd \in held[c] /\ file[fd].kind # "client"
  BY <1>3 DEF Owners
<1>4. CASE \/ looper \in {"post", "pipe", "listen"} /\ node = fd
           \/ looper \in {"hangup", "close"} /\ event.fd = fd
  <2>1. fd \in InHand
    BY <1>4 DEF InHand
  <2> QED
    BY <2>1 DEF Owners
<1> QED
  BY <1>1, <1>2, <1>3, <1>4 DEF Owned

LEMMA IInvHandOver == IInv => ResultHandOver
<1> SUFFICES ASSUME IInv PROVE ResultHandOver
  OBVIOUS
<1>1. looper \in {"publish", "signal"} => caller[event.caller] = "waiting"
  BY DEF IInv, HandOver, LooperTyped, OpenHandleEvents
<1>2. \A k \in DOMAIN mQueuedEvents : mQueuedEvents[k].type = "openHandle" =>
          caller[mQueuedEvents[k].caller] = "waiting" /\ ~done[mQueuedEvents[k].caller]
  BY DEF IInv, HandOver, HandleKeys
<1>3. \A c \in Callers : caller[c] = "waiting" /\ done[c] =>
          ret[c] # Uninit /\ (ret[c] # NoFd => file[ret[c]].kind = "client")
  BY DEF IInv, HandOver, TypeOK
<1> QED
  BY <1>1, <1>2, <1>3 DEF ResultHandOver

-----------------------------------------------------------------------------

(* A descriptor that somebody will close is an open PM QoS node, and       *)
(* nobody else will close it: nothing is closed twice or after its number  *)
(* has been reused.                                                        *)
THEOREM NoDoubleClose == Spec => []OneOwner
  BY Invariance, IInvOneOwner, PTL

(* The one way to leave a constraint in force for ever is Looper::addFd    *)
(* failing after pipe() succeeded.                                         *)
THEOREM OnlyUnwatchedLeak == Spec => []OrphansAreUnwatched
  BY Invariance, IInvOrphans, PTL

(* removeFd comes before close: no callback context outlives its pipe.     *)
THEOREM WatchedPipes == Spec => []WatchedPipesAreOurs
<1>1. IInv => WatchedPipesAreOurs
  BY DEF IInv
<1> QED
  BY <1>1, Invariance, PTL

(* createPmQosHandle never returns what nobody has written, and the looper *)
(* never writes into the stack frame of a caller that has gone.            *)
THEOREM HandedOver == Spec => []ResultHandOver
  BY Invariance, IInvHandOver, PTL

(* Every queued event is run by exactly one message.                       *)
THEOREM OneMessagePerEvent == Spec => []EventsMatchMessages
<1>1. IInv => EventsMatchMessages
  BY DEF IInv
<1> QED
  BY <1>1, Invariance, PTL

-----------------------------------------------------------------------------
(***************************************************************************)
(* TimeoutPoker implements PmQosContract: each action leaves every lease   *)
(* alone or changes the lease of one request as the contract allows.       *)
(* (That requests are eventually answered is left to TLC.)                 *)
(***************************************************************************)

Same(r) == Lease(r)' = Lease(r) /\ HasClient(r)' = HasClient(r)

(* What the contract lets happen to one request.                           *)
Allowed(r) ==
    \/ Same(r)
    \/ Lease(r) = "idle"    /\ Lease(r)' = "pending" /\ HasClient(r)' = HasClient(r)
    \/ Lease(r) = "pending" /\ Lease(r)' = "active"  /\ HasClient(r)' = HasClient(r)
    \/ Lease(r) = "pending" /\ Lease(r)' = "idle"    /\ HasClient(r)' = HasClient(r)
    \/ Lease(r) = "active"  /\ Lease(r)' = "active"  /\ ~HasClient(r) /\ HasClient(r)' = TRUE
    \/ HasClient(r) = TRUE  /\ HasClient(r)' = FALSE /\ Lease(r)' = Lease(r)
    \/ Lease(r) = "active"  /\ Lease(r)' = "idle"    /\ ~HasClient(r) /\ HasClient(r)' = FALSE

ContractStep == [Contract!Next]_(Contract!cvars)

LEMMA LeaseIs ==
    \A r : /\ InForce(r) => Lease(r) = "active"
           /\ ~InForce(r) /\ Pending(r) => Lease(r) = "pending"
           /\ ~InForce(r) /\ ~Pending(r) => Lease(r) = "idle"
  BY DEF Lease

LEMMA LeaseWillBe ==
    \A r : /\ InForce(r)' => Lease(r)' = "active"
           /\ ~InForce(r)' /\ Pending(r)' => Lease(r)' = "pending"
           /\ ~InForce(r)' /\ ~Pending(r)' => Lease(r)' = "idle"
  BY DEF Lease

(* A lease that nothing bears upon stays as it is.                         *)
LEMMA SameLease ==
    ASSUME NEW r, InForce(r)' <=> InForce(r), Pending(r)' <=> Pending(r),
           HasClient(r)' <=> HasClient(r)
    PROVE  Same(r)
<1>1. Lease(r)' = Lease(r)
  BY LeaseIs, LeaseWillBe
<1>2. HasClient(r) \in BOOLEAN /\ HasClient(r)' \in BOOLEAN
  BY DEF HasClient
<1>3. HasClient(r)' = HasClient(r)
  BY <1>2
<1> QED
  BY <1>1, <1>3 DEF Same

LEMMA OneRequestMoves ==
    ASSUME NEW r, Allowed(r), \A q \in Requests : q # r => Same(q)
    PROVE  ContractStep
<1>1. CASE r \notin Requests \/ Same(r)
  <2>1. \A q \in Requests : Same(q)
    BY <1>1
  <2>2. /\ [q \in Requests |-> Lease(q)]' = [q \in Requests |-> Lease(q)]
        /\ [q \in Requests |-> HasClient(q)]' = [q \in Requests |-> HasClient(q)]
    BY <2>1 DEF Same
  <2> QED
    BY <2>2 DEF ContractStep, Contract!cvars
<1>2. CASE r \in Requests /\ ~Same(r)
  <2>1. [q \in Requests |-> Lease(q)]' = [[q \in Requests |-> Lease(q)] EXCEPT ![r] = Lease(r)']
    BY <1>2 DEF Same
  <2>2. [q \in Requests |-> HasClient(q)]'
            = [[q \in Requests |-> HasClient(q)] EXCEPT ![r] = HasClient(r)']
    BY <1>2 DEF Same
  <2>3. /\ [q \in Requests |-> Lease(q)][r] = Lease(r)
        /\ [q \in Requests |-> HasClient(q)][r] = HasClient(r)
    BY <1>2
  <2>4. Lease(r)' = Lease(r)
            => [q \in Requests |-> Lease(q)]' = [q \in Requests |-> Lease(q)]
    BY <2>1, <2>3
  <2>5. HasClient(r)' = HasClient(r)
            => [q \in Requests |-> HasClient(q)]' = [q \in Requests |-> HasClient(q)]
    BY <2>2, <2>3
  <2>6. CASE Lease(r) = "idle" /\ Lease(r)' = "pending" /\ HasClient(r)' = HasClient(r)
    <3>1. Contract!Request(r)
      BY <2>1, <2>3, <2>5, <2>6 DEF Contract!Request, Contract!Move
    <3> QED
      BY <1>2, <3>1 DEF ContractStep, Contract!Next
  <2>7. CASE Lease(r) = "pending" /\ Lease(r)' = "active" /\ HasClient(r)' = HasClient(r)
    <3>1. Contract!Grant(r)
      BY <2>1, <2>3, <2>5, <2>7 DEF Contract!Grant, Contract!Move
    <3> QED
      BY <1>2, <3>1 DEF ContractStep, Contract!Next
  <2>8. CASE Lease(r) = "pending" /\ Lease(r)' = "idle" /\ HasClient(r)' = HasClient(r)
    <3>1. Contract!Refuse(r)
      BY <2>1, <2>3, <2>5, <2>8 DEF Contract!Refuse, Contract!Move
    <3> QED
      BY <1>2, <3>1 DEF ContractStep, Contract!Next
  <2>9. CASE /\ Lease(r) = "active" /\ Lease(r)' = "active"
             /\ ~HasClient(r) /\ HasClient(r)' = TRUE
    <3>1. Contract!HandOut(r)
      BY <2>2, <2>3, <2>4, <2>9 DEF Contract!HandOut
    <3> QED
      BY <1>2, <3>1 DEF ContractStep, Contract!Next
  <2>10. CASE HasClient(r) = TRUE /\ HasClient(r)' = FALSE /\ Lease(r)' = Lease(r)
    <3>1. Contract!Drop(r)
      BY <2>2, <2>3, <2>4, <2>10 DEF Contract!Drop
    <3> QED
      BY <1>2, <3>1 DEF ContractStep, Contract!Next
  <2>11. CASE /\ Lease(r) = "active" /\ Lease(r)' = "idle"
              /\ ~HasClient(r) /\ HasClient(r)' = FALSE
    <3>1. HasClient(r)' = HasClient(r)
      BY <2>11 DEF HasClient
    <3>2. Contract!Release(r)
      BY <2>1, <2>3, <2>5, <2>11, <3>1 DEF Contract!Release, Contract!Move
    <3> QED
      BY <1>2, <3>2 DEF ContractStep, Contract!Next
  <2> QED
    BY <1>2, <2>6, <2>7, <2>8, <2>9, <2>10, <2>11 DEF Allowed
<1> QED
  BY <1>1, <1>2

LEMMA NothingMoves ==
    ASSUME \A q \in Requests : Same(q)
    PROVE  ContractStep
  BY DEF ContractStep, Contract!cvars, Same

-----------------------------------------------------------------------------
(* What bears on a lease, and what does not.                               *)

LEMMA RequestsAreKeys == \A r \in Requests : r \in Nat /\ r # NoReq
  BY ConstantsAssumption DEF Requests, NoReq

LEMMA FilesSame ==
    ASSUME file' = file, NEW r
    PROVE  (InForce(r)' <=> InForce(r)) /\ (HasClient(r)' <=> HasClient(r))
  BY DEF InForce, HasClient, Node, Client

LEMMA QueueSame ==
    ASSUME mQueuedEvents' = mQueuedEvents,
           \/ looper # "open" /\ looper' # "open"
           \/ looper' = looper /\ event' = event,
           NEW r
    PROVE  Pending(r)' <=> Pending(r)
  BY DEF Pending

LEMMA FilesOfOthers ==
    ASSUME NEW r,
           \A fd \in Fd : file'[fd] = file[fd] \/ (file[fd].req # r /\ file'[fd].req # r)
    PROVE  (InForce(r)' <=> InForce(r)) /\ (HasClient(r)' <=> HasClient(r))
<1>1. \A fd \in Fd : /\ file'[fd] = Node(r) <=> file[fd] = Node(r)
                     /\ file'[fd] = Client(r) <=> file[fd] = Client(r)
  BY DEF Node, Client
<1>2. InForce(r)' <=> InForce(r)
  BY <1>1 DEF InForce, Node
<1>3. HasClient(r)' <=> HasClient(r)
  BY <1>1 DEF HasClient, Client
<1> QED
  BY <1>2, <1>3

LEMMA QuietStep ==
    ASSUME file' = file, \A q : Pending(q)' <=> Pending(q)
    PROVE  ContractStep
  BY FilesSame, SameLease, NothingMoves

(* Only files of request r change, and what is pending stays so: no other  *)
(* request can notice.                                                     *)
FilesOf(r) ==
    \A fd \in Fd : \/ file'[fd] = file[fd]
                   \/ file[fd].req \in {r, NoReq} /\ file'[fd].req \in {r, NoReq}

LEMMA OthersSame ==
    ASSUME NEW r, FilesOf(r), \A q : q # r => (Pending(q)' <=> Pending(q))
    PROVE  \A q \in Requests : q # r => Same(q)
<1> SUFFICES ASSUME NEW q \in Requests, q # r PROVE Same(q)
  OBVIOUS
<1>1. \A fd \in Fd : file'[fd] = file[fd] \/ (file[fd].req # q /\ file'[fd].req # q)
  BY RequestsAreKeys DEF FilesOf
<1>2. (InForce(q)' <=> InForce(q)) /\ (HasClient(q)' <=> HasClient(q))
  BY <1>1, FilesOfOthers
<1> QED
  BY <1>2, SameLease

(* Only files of no request change: what a caller opened itself.           *)
LEMMA OwnNodeStep ==
    ASSUME FilesOf(NoReq),
           mQueuedEvents' = mQueuedEvents, looper' = looper, event' = event
    PROVE  ContractStep
<1>1. \A q : Pending(q)' <=> Pending(q)
  BY QueueSame
<1>2. \A q \in Requests : q # NoReq => Same(q)
  BY <1>1, OthersSame
<1> QED
  BY <1>2, RequestsAreKeys, NothingMoves

-----------------------------------------------------------------------------
(* The actions.                                                            *)

LEMMA ClosedFile == Closed \in File /\ Closed.req = NoReq /\ \A r : Closed # Node(r) /\ Closed # Client(r)
  BY DEF Closed, File, Req, NoReq, Node, Client

(* Asking: the key is new, so nothing is pending or open for it.           *)
LEMMA SendOpenMoves ==
    ASSUME IInv, NEW e, e.type # "timeout", SendEventDelayed(FALSE, e),
           file' = file, looper' = looper, event' = event
    PROVE  ContractStep
<1>1. PICK r : r = mKey
  OBVIOUS
<1>2. ~Pending(r) /\ ~InForce(r)
  <2>1. r \notin DOMAIN mQueuedEvents
    BY <1>1 DEF IInv, TypeOK
  <2>2. looper = "open" => event.req # r
    BY <1>1 DEF IInv, TypeOK, KeysFresh, LooperTyped, OpenTimedEvents, OpenHandleEvents
  <2>3. \A fd \in Fd : file[fd].req # r
    BY <1>1 DEF IInv, TypeOK, KeysFresh, File, Req, NoReq
  <2> QED
    BY <2>1, <2>2, <2>3 DEF Pending, InForce, Node
<1>3. Pending(r)'
  BY <1>1 DEF SendEventDelayed, Pending
<1>4. \A q : q # r => (Pending(q)' <=> Pending(q))
  BY <1>1 DEF SendEventDelayed, Pending
<1>5. \A q : q # r => Same(q)
  BY <1>4, FilesSame, SameLease
<1>6. Lease(r) = "idle" /\ Lease(r)' = "pending"
  BY <1>2, <1>3, FilesSame, LeaseIs, LeaseWillBe
<1>7. HasClient(r)' = HasClient(r)
  BY DEF HasClient, Client
<1>8. Allowed(r)
  BY <1>6, <1>7 DEF Allowed
<1> QED
  BY <1>5, <1>8, OneRequestMoves

LEMMA RequestPmQosTimedMoves ==
    ASSUME IInv, NEW c \in Callers, RequestPmQosTimed(c)
    PROVE  ContractStep
  BY SendOpenMoves DEF RequestPmQosTimed, OpenTimed, looperVars

LEMMA CreatePmQosHandleMoves ==
    ASSUME IInv, NEW c \in Callers, CreatePmQosHandle(c)
    PROVE  ContractStep
  BY SendOpenMoves DEF CreatePmQosHandle, OpenHandle, looperVars

LEMMA RequestPmQosMoves ==
    ASSUME IInv, NEW c \in Callers, RequestPmQos(c)
    PROVE  ContractStep
<1>1. PICK fd \in Free : file' = [file EXCEPT ![fd] = Node(NoReq)]
  BY DEF RequestPmQos
<1>2. fd \in Fd /\ file[fd].req = NoReq
  BY <1>1 DEF Free, Closed
<1>3. Node(NoReq) \in File /\ Node(NoReq).req = NoReq
  BY DEF Node, File, Req
<1>4. mQueuedEvents' = mQueuedEvents /\ looper' = looper /\ event' = event
  BY DEF RequestPmQos, queueVars, looperVars
<1>5. FilesOf(NoReq)
  BY <1>1, <1>2, <1>3 DEF FilesOf, IInv, TypeOK
<1> QED
  BY <1>4, <1>5, OwnNodeStep

(* Closing a handle: its pipe has no other read end.                       *)
LEMMA CloseHeldMoves ==
    ASSUME IInv, NEW c \in Callers, NEW fd \in Fd, CloseHeld(c, fd)
    PROVE  ContractStep
<1>1. file' = [file EXCEPT ![fd] = Closed] /\ fd \in held[c]
  BY DEF CloseHeld, Close
<1>2. mQueuedEvents' = mQueuedEvents /\ looper' = looper /\ event' = event
  BY DEF CloseHeld, queueVars, looperVars
<1>3. file \in [Fd -> File]
  BY DEF IInv, TypeOK
<1>4. CASE file[fd] = Node(NoReq)
  <2>1. FilesOf(NoReq)
    BY <1>1, <1>3, <1>4, ClosedFile DEF FilesOf, Node
  <2> QED
    BY <1>2, <2>1, OwnNodeStep
<1>5. CASE file[fd].kind = "client"
  <2>0. PICK r : r = file[fd].req
    OBVIOUS
  <2>1. file[fd] = Client(r) /\ r # NoReq
    BY <2>0, <1>3, <1>5 DEF Client, File, IInv, HeldFiles
  <2>2. \A g \in Fd : g # fd => file[g] # Client(r)
    BY <2>1 DEF IInv, OneFilePerRole, Client
  <2>3. \A g \in Fd : file'[g] = IF g = fd THEN Closed ELSE file[g]
    BY <1>1, <1>3
  <2>4. HasClient(r) /\ ~HasClient(r)'
    BY <2>1, <2>2, <2>3, ClosedFile DEF HasClient, Client
  <2>5. InForce(r)' <=> InForce(r)
    BY <2>1, <2>3, ClosedFile DEF InForce, Node, Client
  <2>6. Lease(r)' = Lease(r)
    BY <1>2, <2>5, QueueSame, LeaseIs, LeaseWillBe
  <2>7. HasClient(r) = TRUE /\ HasClient(r)' = FALSE
    BY <2>4 DEF HasClient
  <2>8. Allowed(r)
    BY <2>6, <2>7 DEF Allowed
  <2>9. FilesOf(r)
    BY <2>0, <2>3, ClosedFile DEF FilesOf
  <2>10. \A q : Pending(q)' <=> Pending(q)
    BY <1>2, QueueSame
  <2>11. \A q \in Requests : q # r => Same(q)
    BY <2>9, <2>10, OthersSame
  <2> QED
    BY <2>8, <2>11, OneRequestMoves
<1> QED
  BY <1>1, <1>4, <1>5 DEF IInv, HeldFiles

(* A queued open event moves into the looper's hands and stays pending.    *)
LEMMA HandleMessageMoves ==
    ASSUME IInv, NEW m \in messages, HandleMessage(m)
    PROVE  ContractStep
<1>1. PICK k : k = m.what
  OBVIOUS
<1>2. k \in DOMAIN mQueuedEvents
  BY <1>1 DEF IInv, EventsMatchMessages
<1>3. /\ file' = file /\ looper = "poll"
      /\ event' = mQueuedEvents[k]
      /\ looper' = Entry(mQueuedEvents[k])
      /\ mQueuedEvents' = [j \in DOMAIN mQueuedEvents \ {k} |-> mQueuedEvents[j]]
  BY <1>1, <1>2 DEF HandleMessage
<1>4. \A q : q # k => (/\ q \in DOMAIN mQueuedEvents' <=> q \in DOMAIN mQueuedEvents
                       /\ q \in DOMAIN mQueuedEvents => mQueuedEvents'[q] = mQueuedEvents[q])
  BY <1>3
<1>5. k \notin DOMAIN mQueuedEvents'
  BY <1>3
<1>6. CASE mQueuedEvents[k].type = "timeout"
  <2>1. looper' = "close"
    BY <1>3, <1>6 DEF Entry
  <2>2. \A q : Pending(q)' <=> Pending(q)
    BY <1>3, <1>4, <1>5, <1>6, <2>1 DEF Pending
  <2> QED
    BY <1>3, <2>2, QuietStep
<1>7. CASE mQueuedEvents[k].type # "timeout"
  <2>1. looper' = "open"
    BY <1>3, <1>7 DEF Entry
  <2>2. event'.req = k
    BY <1>2, <1>3, <1>7 DEF IInv, KeysFresh, OpenKeys, TimeoutKeys
  <2>3. \A q : Pending(q)' <=> Pending(q)
    BY <1>2, <1>3, <1>4, <1>5, <1>7, <2>1, <2>2 DEF Pending
  <2> QED
    BY <1>3, <2>3, QuietStep
<1> QED
  BY <1>6, <1>7

(* The pending request the looper is opening a node for.                   *)
LEMMA OpeningFor ==
    ASSUME IInv, looper = "open"
    PROVE  /\ Lease(event.req) = "pending"
           /\ event.req \in Nat /\ event.req # NoReq
           /\ event.req \notin OpenKeys
           /\ \A fd \in Fd : file[fd].req # event.req
<1>1. /\ event.req \notin OpenKeys
      /\ \A fd \in Fd : file[fd].req # event.req
  BY DEF IInv, PendingUnserved
<1>2. event.req \in Nat /\ event.req # NoReq
  BY DEF IInv, LooperTyped, OpenTimedEvents, OpenHandleEvents, NoReq
<1>3. ~InForce(event.req)
  BY <1>1 DEF InForce, Node
<1>4. Pending(event.req)
  BY DEF Pending
<1> QED
  BY <1>1, <1>2, <1>3, <1>4, LeaseIs

LEMMA OpenEnds ==
    ASSUME IInv, looper = "open", looper' # "open", mQueuedEvents' = mQueuedEvents
    PROVE  /\ \A q : q # event.req => (Pending(q)' <=> Pending(q))
           /\ \A r : r = event.req => ~Pending(r)'
  BY OpeningFor DEF Pending, OpenKeys, TimeoutKeys

LEMMA OpenNodeMoves ==
    ASSUME IInv, OpenNode
    PROVE  ContractStep
<1>1. PICK r : r = event.req
  OBVIOUS
<1>2. PICK fd \in Free : file' = [file EXCEPT ![fd] = Node(r)]
  BY <1>1 DEF OpenNode
<1>3. looper = "open" /\ looper' # "open" /\ mQueuedEvents' = mQueuedEvents
  BY DEF OpenNode, queueVars
<1>4. /\ fd \in Fd /\ file[fd] = Closed
      /\ \A g \in Fd : file'[g] = IF g = fd THEN Node(r) ELSE file[g]
  BY <1>2 DEF Free, IInv, TypeOK
<1>5. FilesOf(r)
  BY <1>4, ClosedFile DEF FilesOf, Node
<1>6. \A q \in Requests : q # r => Same(q)
  BY <1>1, <1>3, <1>5, OpenEnds, OthersSame
<1>7. InForce(r)'
  BY <1>4 DEF InForce, Node
<1>8. HasClient(r)' = HasClient(r)
  <2>1. \A g \in Fd : file'[g] = Client(r) <=> file[g] = Client(r)
    BY <1>4, ClosedFile DEF Node, Client
  <2>2. HasClient(r)' <=> HasClient(r)
    BY <2>1 DEF HasClient, Client
  <2> QED
    BY <2>2 DEF HasClient
<1>9. Lease(r) = "pending" /\ Lease(r)' = "active"
  BY <1>1, <1>3, <1>7, OpeningFor, LeaseWillBe
<1>10. Allowed(r)
  BY <1>8, <1>9 DEF Allowed
<1> QED
  BY <1>6, <1>10, OneRequestMoves

LEMMA OpenNodeFailsMoves ==
    ASSUME IInv, OpenNodeFails
    PROVE  ContractStep
<1>1. PICK r : r = event.req
  OBVIOUS
<1>2. looper = "open" /\ looper' # "open" /\ mQueuedEvents' = mQueuedEvents /\ file' = file
  BY DEF OpenNodeFails, queueVars
<1>3. FilesOf(r)
  BY <1>2 DEF FilesOf
<1>4. \A q \in Requests : q # r => Same(q)
  BY <1>1, <1>2, <1>3, OpenEnds, OthersSame
<1>5. ~InForce(r)'
  BY <1>1, <1>2, OpeningFor DEF InForce, Node
<1>6. Lease(r) = "pending" /\ Lease(r)' = "idle"
  BY <1>1, <1>2, <1>5, OpeningFor, OpenEnds, LeaseWillBe
<1>7. HasClient(r)' = HasClient(r)
  BY <1>2 DEF HasClient, Client
<1>8. Allowed(r)
  BY <1>6, <1>7 DEF Allowed
<1> QED
  BY <1>4, <1>8, OneRequestMoves

LEMMA PostTimeoutMoves ==
    ASSUME IInv, PostTimeout
    PROVE  ContractStep
<1>1. /\ file' = file /\ looper = "post" /\ looper' = "poll"
      /\ mQueuedEvents' = [k \in DOMAIN mQueuedEvents \cup {mKey} |->
                              IF k = mKey THEN Timeout(event.req, node) ELSE mQueuedEvents[k]]
  BY DEF PostTimeout, SendEventDelayed
<1>2. mKey \notin DOMAIN mQueuedEvents
  BY DEF IInv, TypeOK
<1>3. \A q : Pending(q)' <=> Pending(q)
  BY <1>1, <1>2 DEF Pending, Timeout
<1> QED
  BY <1>1, <1>3, QuietStep

LEMMA CreatePipeMoves ==
    ASSUME IInv, CreatePipe
    PROVE  ContractStep
<1>1. PICK r : r = event.req
  OBVIOUS
<1>2. PICK client, server \in Free :
          /\ client # server
          /\ file' = [file EXCEPT ![client] = Client(r), ![server] = Server(r)]
  BY <1>1 DEF CreatePipe
<1>3. looper = "pipe" /\ looper' = "listen" /\ mQueuedEvents' = mQueuedEvents
  BY DEF CreatePipe, queueVars
<1>4. /\ client \in Fd /\ file[client] = Closed
      /\ server \in Fd /\ file[server] = Closed
      /\ \A g \in Fd : file'[g] = IF g = client THEN Client(r)
                                  ELSE IF g = server THEN Server(r) ELSE file[g]
  BY <1>2 DEF Free, IInv, TypeOK
<1>5. FilesOf(r)
  BY <1>4, ClosedFile DEF FilesOf, Client, Server
<1>6. \A q : Pending(q)' <=> Pending(q)
  BY <1>3, QueueSame
<1>7. \A q \in Requests : q # r => Same(q)
  BY <1>5, <1>6, OthersSame
<1>8. node \in Fd /\ file[node] = Node(r) /\ NoPipeFor(r)
  BY <1>1, <1>3 DEF IInv, LooperNode, LooperTyped
<1>9. InForce(r) /\ InForce(r)'
  BY <1>4, <1>8, ClosedFile DEF InForce, Node
<1>10. ~HasClient(r) /\ HasClient(r)' = TRUE
  <2>1. ~HasClient(r)
    BY <1>8 DEF NoPipeFor, HasClient
  <2>2. HasClient(r)'
    BY <1>4 DEF HasClient, Client
  <2> QED
    BY <2>1, <2>2 DEF HasClient
<1>11. Allowed(r)
  BY <1>9, <1>10, LeaseIs, LeaseWillBe DEF Allowed
<1> QED
  BY <1>7, <1>11, OneRequestMoves

(* The one node of a request without a client is closed.                   *)
LEMMA NodeCloses ==
    ASSUME IInv, NEW fd \in Fd, NEW r, r # NoReq, file[fd] = Node(r),
           \A g \in Fd : file[g] # Client(r),
           file' = [file EXCEPT ![fd] = Closed],
           mQueuedEvents' = mQueuedEvents, looper # "open", looper' # "open"
    PROVE  ContractStep
<1>1. \A g \in Fd : file'[g] = IF g = fd THEN Closed ELSE file[g]
  BY DEF IInv, TypeOK
<1>2. FilesOf(r)
  BY <1>1, ClosedFile DEF FilesOf, Node
<1>3. \A q : Pending(q)' <=> Pending(q)
  BY QueueSame
<1>4. \A q \in Requests : q # r => Same(q)
  BY <1>2, <1>3, OthersSame
<1>5. \A g \in Fd : g # fd => file[g] # Node(r)
  BY DEF IInv, OneFilePerRole, Node
<1>6. InForce(r) /\ ~InForce(r)'
  BY <1>1, <1>5, ClosedFile DEF InForce, Node
<1>7. ~Pending(r)
  <2>1. file[fd].req = r
    BY DEF Node
  <2> QED
    BY <2>1 DEF IInv, PendingUnserved, Pending, OpenKeys, TimeoutKeys
<1>8. ~HasClient(r) /\ HasClient(r)' = FALSE
  <2>1. ~HasClient(r)
    BY DEF HasClient
  <2>2. ~HasClient(r)'
    BY <1>1, ClosedFile DEF HasClient, Client
  <2> QED
    BY <2>1, <2>2 DEF HasClient
<1>9. Lease(r) = "active" /\ Lease(r)' = "idle"
  BY <1>3, <1>6, <1>7, LeaseIs, LeaseWillBe
<1>10. Allowed(r)
  BY <1>8, <1>9 DEF Allowed
<1> QED
  BY <1>4, <1>10, OneRequestMoves

LEMMA CreatePipeFailsMoves ==
    ASSUME IInv, CreatePipeFails
    PROVE  ContractStep
<1>1. PICK r : r = event.req
  OBVIOUS
<1>2. PICK fd : fd = node
  OBVIOUS
<1>3. /\ looper = "pipe" /\ looper' = "publish" /\ mQueuedEvents' = mQueuedEvents
      /\ file' = [file EXCEPT ![fd] = Closed]
  BY <1>2 DEF CreatePipeFails, Close, queueVars
<1>4. fd \in Fd /\ file[fd] = Node(r) /\ \A g \in Fd : file[g] # Client(r)
  BY <1>1, <1>2, <1>3 DEF IInv, LooperNode, LooperTyped, NoPipeFor
<1>5. r # NoReq
  BY <1>1, <1>3 DEF IInv, LooperTyped, OpenHandleEvents, NoReq
<1> QED
  BY <1>3, <1>4, <1>5, NodeCloses

LEMMA CloseServerMoves ==
    ASSUME IInv, CloseServer
    PROVE  ContractStep
<1>1. PICK fd : fd = event.handle
  OBVIOUS
<1>2. /\ looper = "hangup" /\ looper' = "close" /\ mQueuedEvents' = mQueuedEvents
      /\ file' = [file EXCEPT ![fd] = Closed]
  BY <1>1 DEF CloseServer, Close, queueVars
<1>3. file[fd].kind = "server"
  BY <1>1, <1>2 DEF IInv, LooperNode, Server
<1>4. \A g \in Fd : file'[g] = file[g] \/ (file[g].kind = "server" /\ file'[g] = Closed)
  BY <1>2, <1>3 DEF IInv, TypeOK
<1>5. \A q : /\ InForce(q)' <=> InForce(q)
             /\ HasClient(q)' <=> HasClient(q)
  <2> SUFFICES ASSUME NEW q PROVE /\ InForce(q)' <=> InForce(q)
                                  /\ HasClient(q)' <=> HasClient(q)
    OBVIOUS
  <2>1. \A g \in Fd : /\ file'[g] = Node(q) <=> file[g] = Node(q)
                      /\ file'[g] = Client(q) <=> file[g] = Client(q)
    BY <1>4, ClosedFile DEF Node, Client
  <2>2. InForce(q)' <=> InForce(q)
    BY <2>1 DEF InForce, Node
  <2>3. HasClient(q)' <=> HasClient(q)
    BY <2>1 DEF HasClient, Client
  <2> QED
    BY <2>2, <2>3
<1>6. \A q : Pending(q)' <=> Pending(q)
  BY <1>2, QueueSame
<1> QED
  BY <1>5, <1>6, SameLease, NothingMoves

LEMMA CloseNodeMoves ==
    ASSUME IInv, CloseNode
    PROVE  ContractStep
<1>1. PICK r : r = event.req
  OBVIOUS
<1>2. PICK fd : fd = event.fd
  OBVIOUS
<1>3. /\ looper = "close" /\ looper' = "poll" /\ mQueuedEvents' = mQueuedEvents
      /\ file' = [file EXCEPT ![fd] = Closed]
  BY <1>2 DEF CloseNode, Close, queueVars
<1>4. fd \in Fd /\ r # NoReq
  BY <1>1, <1>2, <1>3 DEF IInv, LooperTyped, TimeoutEvents, Contexts, NoReq
<1>5. file[fd] = Node(r) /\ \A g \in Fd : file[g] # Client(r)
  BY <1>1, <1>2, <1>3 DEF IInv, LooperNode
<1> QED
  BY <1>3, <1>4, <1>5, NodeCloses

-----------------------------------------------------------------------------

LEMMA ContractInit ==
    ASSUME Init
    PROVE  Contract!Init
<1>1. \A r \in Requests : ~InForce(r) /\ ~Pending(r) /\ HasClient(r) = FALSE
  BY DEF Init, InForce, Pending, HasClient, Closed, Node, Client
<1>2. \A r \in Requests : Lease(r) = "idle"
  BY <1>1, LeaseIs
<1> QED
  BY <1>1, <1>2 DEF Contract!Init

LEMMA ContractMoves ==
    ASSUME IInv, [Next]_vars
    PROVE  ContractStep
<1>1. CASE UNCHANGED vars
  <2>1. file' = file /\ mQueuedEvents' = mQueuedEvents /\ looper' = looper /\ event' = event
    BY <1>1 DEF vars
  <2> QED
    BY <2>1, QueueSame, QuietStep
<1>2. CASE Prepare \/ PrepareFails \/ Listen \/ ListenFails \/ Publish \/ Signal
  <2>1. file' = file /\ mQueuedEvents' = mQueuedEvents /\ looper # "open" /\ looper' # "open"
    BY <1>2 DEF Prepare, PrepareFails, Listen, ListenFails, Publish, Signal, queueVars
  <2> QED
    BY <2>1, QueueSame, QuietStep
<1>3. CASE \E w \in watched : PipeClosed(w)
  <2>1. file' = file /\ mQueuedEvents' = mQueuedEvents /\ looper # "open" /\ looper' # "open"
    BY <1>3 DEF PipeClosed, queueVars
  <2> QED
    BY <2>1, QueueSame, QuietStep
<1>4. CASE Construct \/ \E c \in Callers : ReturnFromCreate(c)
  <2>1. file' = file /\ mQueuedEvents' = mQueuedEvents /\ looper' = looper /\ event' = event
    BY <1>4 DEF Construct, ReturnFromCreate, queueVars, looperVars
  <2> QED
    BY <2>1, QueueSame, QuietStep
<1>5. CASE \E c \in Callers : \/ RequestPmQosTimed(c)
                              \/ CreatePmQosHandle(c)
                              \/ RequestPmQos(c)
                              \/ \E fd \in Fd : CloseHeld(c, fd)
  BY <1>5, RequestPmQosTimedMoves, CreatePmQosHandleMoves, RequestPmQosMoves, CloseHeldMoves
<1>6. CASE \E m \in messages : HandleMessage(m)
  BY <1>6, HandleMessageMoves
<1>7. CASE OpenNode \/ OpenNodeFails \/ PostTimeout \/ CreatePipe \/ CreatePipeFails
  BY <1>7, OpenNodeMoves, OpenNodeFailsMoves, PostTimeoutMoves, CreatePipeMoves,
     CreatePipeFailsMoves
<1>8. CASE CloseServer \/ CloseNode
  BY <1>8, CloseServerMoves, CloseNodeMoves
<1> QED
  BY <1>1, <1>2, <1>3, <1>4, <1>5, <1>6, <1>7, <1>8 DEF Next, Calls, RunEvent

(* Every behaviour of the poker is one the contract allows: a request is   *)
(* answered once, by a constraint or a refusal; a constraint is lifted at  *)
(* most once, and never while its client holds the handle.                 *)
THEOREM Implements == Spec => Contract!Spec
<1>1. Init => Contract!Init
  BY ContractInit
<1>2. IInv /\ [Next]_vars => [Contract!Next]_(Contract!cvars)
  BY ContractMoves DEF ContractStep
<1> QED
  BY <1>1, <1>2, Invariance, PTL DEF Spec, Contract!Spec
=============================================================================
