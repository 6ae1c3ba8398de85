---------------------------- MODULE TimeoutPoker ----------------------------
(***************************************************************************)
(* The TimeoutPoker of the power HAL (common/power/timeoutpoker.{h,cpp}):  *)
(* a looper thread that opens PM QoS device nodes on behalf of IPC threads *)
(* and closes them again when a timeout has passed or when the client has  *)
(* closed the pipe it was given as a handle.  A PM QoS constraint is in    *)
(* force exactly while its node is open, so everything turns on who owns   *)
(* which file descriptor.                                                  *)
(*                                                                         *)
(* Looper messages with no delay are delivered in the order they were      *)
(* posted; a delayed message is delivered at any later time.  What is      *)
(* written to a node is left out.                                          *)
(***************************************************************************)
EXTENDS Integers

CONSTANTS
    Callers,      \* IPC threads that call into the poker
    Fd,           \* file descriptors of the process
    NoFd,         \* -1, the result of a call that failed
    Uninit,       \* content of a local variable nobody has written
    MaxRequests   \* BOUND: no request is made once mKey has reached it

ASSUME ConstantsAssumption ==
    /\ NoFd \notin Fd
    /\ Uninit \notin Fd \cup {NoFd}
    /\ MaxRequests \in Nat

VARIABLES
    readyToRun,     \* the Barrier the constructor waits on is open
    constructed,    \* the PokeHandler constructor has returned
    looper,         \* what the looper thread does next
    mKey,           \* next event key
    mQueuedEvents,  \* KeyedVector: event key -> event
    messages,       \* messages in the looper: [what, delayed]
    event,          \* event, or callback context, the looper is running
    node,           \* local fd of the looper: the PM QoS node just opened
    pipefd,         \* local pipefd[] of the looper
    watched,        \* callback contexts registered with Looper::addFd
    caller,         \* "idle", or "waiting" inside createPmQosHandle
    done,           \* state of the Barrier on that caller's stack
    ret,            \* local ret of that caller
    held,           \* fds each caller got back and has not closed
    file            \* the process's fd table

vars == <<readyToRun, constructed, looper, mKey, mQueuedEvents, messages, event,
          node, pipefd, watched, caller, done, ret, held, file>>

queueVars  == <<mKey, mQueuedEvents, messages>>
looperVars == <<looper, event, node, pipefd, watched>>
callerVars == <<caller, done, ret, held>>
startVars  == <<readyToRun, constructed>>

-----------------------------------------------------------------------------
(* Files.  req names the request a file was opened for: the key of the     *)
(* event that asked for it, or NoReq when the caller opened it itself.     *)

NoReq == -1
Req   == Nat \cup {NoReq}

Closed    == [kind |-> "closed", req |-> NoReq]
Node(r)   == [kind |-> "node",   req |-> r]    \* a PM QoS device node
Client(r) == [kind |-> "client", req |-> r]    \* read end, returned to the client
Server(r) == [kind |-> "server", req |-> r]    \* write end, kept by the poker
File      == [kind : {"closed", "node", "client", "server"}, req : Req]

Free        == {fd \in Fd : file[fd] = Closed}
Close(fd)   == file' = [file EXCEPT ![fd] = Closed]

(* Events.  The field req is history: it says which request the event or   *)
(* the callback context serves.                                            *)
OpenTimed(r)     == [type |-> "openTimed",  req |-> r]
OpenHandle(r, c) == [type |-> "openHandle", req |-> r, caller |-> c]
Timeout(r, fd)   == [type |-> "timeout",    req |-> r, fd |-> fd]
Context(r, h, fd) == [type |-> "context",   req |-> r, fd |-> fd, handle |-> h]
NoEvent          == [type |-> "none"]

OpenTimedEvents  == [type : {"openTimed"}, req : Nat]
OpenHandleEvents == [type : {"openHandle"}, req : Nat, caller : Callers]
TimeoutEvents    == [type : {"timeout"}, req : Nat, fd : Fd]
QueuedEvent      == OpenTimedEvents \cup OpenHandleEvents \cup TimeoutEvents
Contexts         == [type : {"context"}, req : Nat, fd : Fd, handle : Fd]

Messages == [what : Nat, delayed : BOOLEAN]
NoPipe   == [client |-> NoFd, server |-> NoFd]

LooperStates == {"prepare", "dead", "poll", "open", "post", "pipe", "listen",
                 "publish", "signal", "hangup", "close"}

Init ==
    /\ readyToRun = FALSE
    /\ constructed = FALSE
    /\ looper = "prepare"
    /\ mKey = 0
    /\ mQueuedEvents = [k \in {} |-> NoEvent]
    /\ messages = {}
    /\ event = NoEvent
    /\ node = NoFd
    /\ pipefd = NoPipe
    /\ watched = {}
    /\ caller = [c \in Callers |-> "idle"]
    /\ done = [c \in Callers |-> FALSE]
    /\ ret = [c \in Callers |-> Uninit]
    /\ held = [c \in Callers |-> {}]
    /\ file = [fd \in Fd |-> Closed]

-----------------------------------------------------------------------------
(* Start-up: the constructor starts the worker and waits for its barrier.  *)

\* LooperThread::readyToRun, Looper::prepare succeeding
Prepare ==
    /\ looper = "prepare"
    /\ looper' = "poll"
    /\ readyToRun' = TRUE
    /\ UNCHANGED <<constructed, event, node, pipefd, watched, queueVars, callerVars, file>>

\* NO_MEMORY: the thread ends and the barrier stays closed
PrepareFails ==
    /\ looper = "prepare"
    /\ looper' = "dead"
    /\ UNCHANGED <<startVars, event, node, pipefd, watched, queueVars, callerVars, file>>

\* PokeHandler::PokeHandler passes readyToRun->wait()
Construct ==
    /\ ~constructed
    /\ readyToRun
    /\ constructed' = TRUE
    /\ UNCHANGED <<readyToRun, looperVars, queueVars, callerVars, file>>

-----------------------------------------------------------------------------
(* sendEventDelayed: all of it under mEvLock.                              *)

SendEventDelayed(delayed, e) ==
    /\ mQueuedEvents' = [k \in DOMAIN mQueuedEvents \cup {mKey} |->
                            IF k = mKey THEN e ELSE mQueuedEvents[k]]
    /\ messages' = messages \cup {[what |-> mKey, delayed |-> delayed]}
    /\ mKey' = mKey + 1

-----------------------------------------------------------------------------
(* The calls of an IPC thread.                                             *)

RequestPmQosTimed(c) ==
    /\ constructed
    /\ caller[c] = "idle"
    /\ mKey < MaxRequests
    /\ SendEventDelayed(FALSE, OpenTimed(mKey))
    /\ UNCHANGED <<startVars, looperVars, callerVars, file>>

CreatePmQosHandle(c) ==
    /\ constructed
    /\ caller[c] = "idle"
    /\ mKey < MaxRequests
    /\ SendEventDelayed(FALSE, OpenHandle(mKey, c))
    /\ caller' = [caller EXCEPT ![c] = "waiting"]
    /\ done' = [done EXCEPT ![c] = FALSE]
    /\ ret' = [ret EXCEPT ![c] = Uninit]
    /\ UNCHANGED <<startVars, looperVars, held, file>>

\* done.wait() returns, and with it createPmQosHandle
ReturnFromCreate(c) ==
    /\ caller[c] = "waiting"
    /\ done[c]
    /\ caller' = [caller EXCEPT ![c] = "idle"]
    /\ held' = [held EXCEPT ![c] = IF ret[c] \in Fd THEN @ \cup {ret[c]} ELSE @]
    /\ UNCHANGED <<startVars, looperVars, queueVars, done, ret, file>>

\* requestPmQos opens the node in the calling thread; a failed open changes nothing
RequestPmQos(c) ==
    /\ constructed
    /\ caller[c] = "idle"
    /\ \E fd \in Free :
          /\ file' = [file EXCEPT ![fd] = Node(NoReq)]
          /\ held' = [held EXCEPT ![c] = @ \cup {fd}]
    /\ UNCHANGED <<startVars, looperVars, queueVars, caller, done, ret>>

\* the caller closes a handle or a node it was given
CloseHeld(c, fd) ==
    /\ caller[c] = "idle"
    /\ fd \in held[c]
    /\ held' = [held EXCEPT ![c] = @ \ {fd}]
    /\ Close(fd)
    /\ UNCHANGED <<startVars, looperVars, queueVars, caller, done, ret>>

-----------------------------------------------------------------------------
(* The looper thread.                                                      *)

\* The looper may deliver m now: undelayed messages in the order of posting.
Deliverable(m) ==
    \/ m.delayed
    \/ \A n \in messages : ~n.delayed => m.what <= n.what

Entry(e) == IF e.type = "timeout" THEN "close" ELSE "open"

\* handleMessage up to e->run: removeEventByKey takes the event out
HandleMessage(m) ==
    /\ looper = "poll"
    /\ m \in messages
    /\ Deliverable(m)
    /\ messages' = messages \ {m}
    /\ IF m.what \in DOMAIN mQueuedEvents
       THEN /\ event' = mQueuedEvents[m.what]
            /\ mQueuedEvents' = [k \in DOMAIN mQueuedEvents \ {m.what} |-> mQueuedEvents[k]]
            /\ looper' = Entry(mQueuedEvents[m.what])
       ELSE UNCHANGED <<event, mQueuedEvents, looper>>
    /\ UNCHANGED <<startVars, mKey, node, pipefd, watched, callerVars, file>>

\* openPmQosNode succeeds
OpenNode ==
    /\ looper = "open"
    /\ \E fd \in Free :
          /\ file' = [file EXCEPT ![fd] = Node(event.req)]
          /\ node' = fd
    /\ looper' = IF event.type = "openTimed" THEN "post" ELSE "pipe"
    /\ UNCHANGED <<startVars, queueVars, event, pipefd, watched, callerVars>>

\* mutant: a failed open returns before done->open()
OpenNodeFails_NoAnswer ==
    /\ looper = "open"
    /\ looper' = "poll"
    /\ pipefd' = NoPipe
    /\ UNCHANGED <<startVars, queueVars, event, node, watched, callerVars, file>>

\* openPmQosNode returns -1: no such node, or no descriptor left
OpenNodeFails ==
    /\ looper = "open"
    /\ looper' = IF event.type = "openTimed" THEN "poll" ELSE "publish"
    /\ pipefd' = NoPipe
    /\ UNCHANGED <<startVars, queueVars, event, node, watched, callerVars, file>>

\* mutant: the TimeoutEvent is not queued
PostTimeout_NotQueued ==
    /\ looper = "post"
    /\ looper' = "poll"
    /\ UNCHANGED <<startVars, queueVars, event, node, pipefd, watched, callerVars, file>>

\* openPmQosTimed queues the TimeoutEvent that will close the node
PostTimeout ==
    /\ looper = "post"
    /\ SendEventDelayed(TRUE, Timeout(event.req, node))
    /\ looper' = "poll"
    /\ UNCHANGED <<startVars, event, node, pipefd, watched, callerVars, file>>

\* createHandleForFd: pipe() succeeds
CreatePipe ==
    /\ looper = "pipe"
    /\ \E client, server \in Free :
          /\ client # server
          /\ file' = [file EXCEPT ![client] = Client(event.req), ![server] = Server(event.req)]
          /\ pipefd' = [client |-> client, server |-> server]
    /\ looper' = "listen"
    /\ UNCHANGED <<startVars, queueVars, event, node, watched, callerVars>>

\* mutant: the node stays open when pipe() fails
CreatePipeFails_NodeOpen ==
    /\ looper = "pipe"
    /\ pipefd' = NoPipe
    /\ looper' = "publish"
    /\ UNCHANGED <<startVars, queueVars, event, node, watched, callerVars, file>>

\* createHandleForFd: pipe() fails, the node is closed and -1 returned
CreatePipeFails ==
    /\ looper = "pipe"
    /\ Close(node)
    /\ pipefd' = NoPipe
    /\ looper' = "publish"
    /\ UNCHANGED <<startVars, queueVars, event, node, watched, callerVars>>

\* mutant: the read end is watched instead of the write end
Listen_WrongEnd ==
    /\ looper = "listen"
    /\ watched' = watched \cup {Context(event.req, pipefd.client, node)}
    /\ looper' = "publish"
    /\ UNCHANGED <<startVars, queueVars, event, node, pipefd, callerVars, file>>

\* listenForHandleToCloseFd: Looper::addFd succeeds
Listen ==
    /\ looper = "listen"
    /\ watched' = watched \cup {Context(event.req, pipefd.server, node)}
    /\ looper' = "publish"
    /\ UNCHANGED <<startVars, queueVars, event, node, pipefd, callerVars, file>>

\* addFd fails: nothing is registered, and createHandleForFd tests res,
\* which still holds the result of pipe()
ListenFails ==
    /\ looper = "listen"
    /\ looper' = "publish"
    /\ UNCHANGED <<startVars, queueVars, event, node, pipefd, watched, callerVars, file>>

\* mutant: the poker's own end of the pipe is handed out
Publish_WrongEnd ==
    /\ looper = "publish"
    /\ ret' = [ret EXCEPT ![event.caller] = pipefd.server]
    /\ looper' = "signal"
    /\ UNCHANGED <<startVars, queueVars, event, node, pipefd, watched, caller, done, held, file>>

\* PmQosOpenHandleEvent::run, *outFd = ...
Publish ==
    /\ looper = "publish"
    /\ ret' = [ret EXCEPT ![event.caller] = pipefd.client]
    /\ looper' = "signal"
    /\ UNCHANGED <<startVars, queueVars, event, node, pipefd, watched, caller, done, held, file>>

\* PmQosOpenHandleEvent::run, done->open()
Signal ==
    /\ looper = "signal"
    /\ done' = [done EXCEPT ![event.caller] = TRUE]
    /\ looper' = "poll"
    /\ UNCHANGED <<startVars, queueVars, event, node, pipefd, watched, caller, ret, held, file>>

\* mutant: any event on the pipe counts as a hang-up
HungUp_Always(w) == w \in watched

\* The read end of the pipe is gone: poll reports an error on the write end.
HungUp(w) == \A fd \in Fd : file[fd] # Client(w.req)

\* mutant: removeFd is forgotten
PipeClosed_StillWatched(w) ==
    /\ looper = "poll"
    /\ w \in watched
    /\ HungUp(w)
    /\ event' = w
    /\ looper' = "hangup"
    /\ UNCHANGED <<startVars, queueVars, node, pipefd, watched, callerVars, file>>

\* pipeCloseCb up to removeFd(handle)
PipeClosed(w) ==
    /\ looper = "poll"
    /\ w \in watched
    /\ HungUp(w)
    /\ watched' = watched \ {w}
    /\ event' = w
    /\ looper' = "hangup"
    /\ UNCHANGED <<startVars, queueVars, node, pipefd, callerVars, file>>

\* mutant: the node behind the handle is not closed
CloseServer_NodeKept ==
    /\ looper = "hangup"
    /\ Close(event.handle)
    /\ looper' = "poll"
    /\ UNCHANGED <<startVars, queueVars, event, node, pipefd, watched, callerVars>>

\* pipeCloseCb, close(handle)
CloseServer ==
    /\ looper = "hangup"
    /\ Close(event.handle)
    /\ looper' = "close"
    /\ UNCHANGED <<startVars, queueVars, event, node, pipefd, watched, callerVars>>

\* TimeoutEvent::run, or close(ctx->fd) of pipeCloseCb
CloseNode ==
    /\ looper = "close"
    /\ Close(event.fd)
    /\ looper' = "poll"
    /\ UNCHANGED <<startVars, queueVars, event, node, pipefd, watched, callerVars>>

-----------------------------------------------------------------------------

Calls ==
    \E c \in Callers :
        \/ RequestPmQosTimed(c)
        \/ CreatePmQosHandle(c)
        \/ ReturnFromCreate(c)
        \/ RequestPmQos(c)
        \/ \E fd \in Fd : CloseHeld(c, fd)

RunEvent ==
    \/ OpenNode \/ OpenNodeFails \/ PostTimeout
    \/ CreatePipe \/ CreatePipeFails
    \/ Listen \/ ListenFails
    \/ Publish \/ Signal
    \/ CloseServer \/ CloseNode

Next ==
    \/ Prepare \/ PrepareFails \/ Construct
    \/ Calls
    \/ \E m \in messages : HandleMessage(m)
    \/ \E w \in watched : PipeClosed(w)
    \/ RunEvent

(* The looper never stops half-way through an event; every message it was  *)
(* given falls due, and a pipe whose other end is gone is reported, even   *)
(* though other work may come between.  A waiter whose barrier is open     *)
(* runs.  Callers need not call, nor close what they hold.                 *)
Requests == 0 .. MaxRequests - 1
Keys     == 0 .. 2 * MaxRequests - 1

Fairness ==
    /\ WF_vars(RunEvent)
    /\ \A k \in Keys : SF_vars(\E m \in messages : m.what = k /\ HandleMessage(m))
    /\ \A r \in Requests : SF_vars(\E w \in watched : w.req = r /\ PipeClosed(w))
    /\ \A c \in Callers : WF_vars(ReturnFromCreate(c))

Spec     == Init /\ [][Next]_vars
FairSpec == Spec /\ Fairness

-----------------------------------------------------------------------------
(* Type invariant.                                                         *)
TypeOK ==
    /\ readyToRun \in BOOLEAN
    /\ constructed \in BOOLEAN
    /\ looper \in LooperStates
    /\ mKey \in Nat
    /\ DOMAIN mQueuedEvents \subseteq 0 .. mKey - 1
    /\ mQueuedEvents \in [DOMAIN mQueuedEvents -> QueuedEvent]
    /\ messages \subseteq Messages
    /\ event \in QueuedEvent \cup Contexts \cup {NoEvent}
    /\ node \in Fd \cup {NoFd}
    /\ pipefd \in [client : Fd \cup {NoFd}, server : Fd \cup {NoFd}]
    /\ watched \subseteq Contexts
    /\ caller \in [Callers -> {"idle", "waiting"}]
    /\ done \in [Callers -> BOOLEAN]
    /\ ret \in [Callers -> Fd \cup {NoFd, Uninit}]
    /\ held \in [Callers -> SUBSET Fd]
    /\ file \in [Fd -> File]

(* Who is going to close fd: a queued TimeoutEvent, a callback context, a  *)
(* caller that opened the node itself, or the looper at this moment.       *)
TimeoutKeys == {k \in DOMAIN mQueuedEvents : mQueuedEvents[k].type = "timeout"}

InHand ==
    CASE looper \in {"post", "pipe", "listen"} -> {node}
      [] looper \in {"hangup", "close"}        -> {event.fd}
      [] OTHER                                 -> {}

Owners(fd) ==
    {<<"timeout", k>> : k \in {k \in TimeoutKeys : mQueuedEvents[k].fd = fd}}
    \cup {<<"context", w>> : w \in {w \in watched : w.fd = fd}}
    \cup {<<"caller", c>> : c \in {c \in Callers : fd \in held[c] /\ file[fd].kind # "client"}}
    \cup {<<"looper", f>> : f \in InHand \cap {fd}}

(* No descriptor is ever closed twice, nor closed after its number has     *)
(* been given to another file: an fd that somebody will close is an open   *)
(* PM QoS node, and nobody else will close it.                             *)
OneOwner ==
    \A fd \in Fd :
        /\ \A o1, o2 \in Owners(fd) : o1 = o2
        /\ Owners(fd) # {} => file[fd].kind = "node"

(* The only constraint that can stay in force with nobody left to lift it  *)
(* is that of a handle whose pipe Looper::addFd refused to watch.          *)
OrphansAreUnwatched ==
    \A fd \in Fd :
        file[fd].kind = "node" /\ Owners(fd) = {} =>
            \E s \in Fd : /\ file[s] = Server(file[fd].req)
                          /\ \A w \in watched : w.handle # s

(* A callback context is registered only while its pipe's write end and    *)
(* its node are open and are the ones it was made for: removeFd comes      *)
(* before close, so a reused descriptor number is never watched for the    *)
(* old handle.                                                             *)
WatchedPipesAreOurs ==
    \A w \in watched : file[w.handle] = Server(w.req) /\ file[w.fd] = Node(w.req)

(* createPmQosHandle hands its result over correctly: the looper writes    *)
(* *outFd and opens the Barrier only while the caller's stack frame        *)
(* exists, and a caller whose Barrier is open finds a result written: -1   *)
(* or the read end of a pipe that is still open.                           *)
ResultHandOver ==
    /\ looper \in {"publish", "signal"} => caller[event.caller] = "waiting"
    /\ \A k \in DOMAIN mQueuedEvents :
          mQueuedEvents[k].type = "openHandle" =>
              caller[mQueuedEvents[k].caller] = "waiting" /\ ~done[mQueuedEvents[k].caller]
    /\ \A c \in Callers : caller[c] = "waiting" /\ done[c] =>
          /\ ret[c] # Uninit
          /\ ret[c] # NoFd => file[ret[c]].kind = "client"

(* Every queued event has exactly one message that will run it, and no     *)
(* message finds its event gone (removeEventByKey would return NULL and    *)
(* handleMessage would drop it silently).                                  *)
EventsMatchMessages ==
    /\ {m.what : m \in messages} = DOMAIN mQueuedEvents
    /\ \A m, n \in messages : m.what = n.what => m = n

-----------------------------------------------------------------------------
(* Liveness.                                                               *)

Pending(r) ==
    \/ r \in DOMAIN mQueuedEvents /\ mQueuedEvents[r].type # "timeout"
    \/ looper = "open" /\ event.req = r

InForce(r) == \E fd \in Fd : file[fd] = Node(r)

(* A timed boost ends: once asked for, it is refused or put in force and   *)
(* taken back, without any further call.                                   *)
TimedRequestEnds ==
    \A r \in Requests :
        r \in DOMAIN mQueuedEvents /\ mQueuedEvents[r].type = "openTimed"
            ~> ~Pending(r) /\ ~InForce(r)

(* createPmQosHandle always returns to the IPC thread that called it.      *)
CreateReturns ==
    \A c \in Callers : caller[c] = "waiting" ~> caller[c] = "idle"

(* Closing a watched handle lifts its constraint.                          *)
ClosedHandleReleases ==
    \A r \in Requests :
        (\E w \in watched : w.req = r /\ HungUp(w)) ~> ~InForce(r)

-----------------------------------------------------------------------------
(* The poker implements PmQosContract.                                     *)

Lease(r) == CASE InForce(r) -> "active"
              [] ~InForce(r) /\ Pending(r) -> "pending"
              [] OTHER -> "idle"

HasClient(r) == \E fd \in Fd : file[fd] = Client(r)

Contract == INSTANCE PmQosContract WITH
                Req    <- Requests,
                lease  <- [r \in Requests |-> Lease(r)],
                client <- [r \in Requests |-> HasClient(r)]

(* Each step of the poker is a step of the contract or none, and every     *)
(* request is eventually granted or refused.                               *)
ImplementsContract == Contract!FairSpec
=============================================================================
