-------------------------- MODULE TimeoutPokerInv ---------------------------
(***************************************************************************)
(* The inductive invariant of TimeoutPoker.  OneOwner and its companions   *)
(* are not inductive: they hold because every file is tied to the request  *)
(* it was opened for, a request is served by one event at a time, and a    *)
(* handle is on its way to one caller only.                                *)
(***************************************************************************)
EXTENDS TimeoutPoker

(* Types of what the looper works on in each of its states.                *)
LooperTyped ==
    /\ looper = "open" => event \in OpenTimedEvents \cup OpenHandleEvents
    /\ looper = "post" => event \in OpenTimedEvents
    /\ looper \in {"pipe", "listen", "publish", "signal"} => event \in OpenHandleEvents
    /\ looper = "hangup" => event \in Contexts
    /\ looper = "close" => event \in TimeoutEvents \cup Contexts
    /\ looper \in {"post", "pipe", "listen"} => node \in Fd
    /\ looper = "listen" => pipefd \in [client : Fd, server : Fd]

OpenKeys   == DOMAIN mQueuedEvents \ TimeoutKeys
HandleKeys == {k \in DOMAIN mQueuedEvents : mQueuedEvents[k].type = "openHandle"}

(* Open events carry their own key as request; keys are never reused.      *)
KeysFresh ==
    /\ \A k \in OpenKeys : mQueuedEvents[k].req = k
    /\ \A k \in DOMAIN mQueuedEvents : mQueuedEvents[k].req < mKey
    /\ looper \in {"open", "post", "pipe", "listen"} => event.req < mKey
    /\ \A fd \in Fd : file[fd].req < mKey

(* Nothing has been opened yet for a request that is still pending.        *)
PendingUnserved ==
    /\ \A k \in OpenKeys, fd \in Fd : file[fd].req # k
    /\ looper = "open" => /\ event.req \notin OpenKeys
                          /\ \A fd \in Fd : file[fd].req # event.req

(* A request has at most one node, one read end and one write end.         *)
OneFilePerRole ==
    \A f1, f2 \in Fd :
        file[f1] = file[f2] /\ file[f1].req # NoReq => f1 = f2

(* r has no timeout and no callback context of its own (yet, or any more). *)
NotScheduled(r) ==
    /\ \A k \in TimeoutKeys : mQueuedEvents[k].req # r
    /\ \A w \in watched : w.req # r

NoPipeFor(r) == \A fd \in Fd : file[fd] # Client(r) /\ file[fd] # Server(r)

(* Timeouts and contexts hold the node of their request.                   *)
ScheduledNodes ==
    /\ \A k \in TimeoutKeys : /\ file[mQueuedEvents[k].fd] = Node(mQueuedEvents[k].req)
                              /\ NoPipeFor(mQueuedEvents[k].req)
                              /\ \A w \in watched : w.req # mQueuedEvents[k].req
    /\ \A k1, k2 \in TimeoutKeys : mQueuedEvents[k1].req = mQueuedEvents[k2].req => k1 = k2
    /\ \A w1, w2 \in watched : w1.req = w2.req => w1 = w2

(* What the looper holds between two steps.                                *)
LooperNode ==
    /\ looper \in {"post", "pipe", "listen"} =>
          file[node] = Node(event.req) /\ NotScheduled(event.req)
    /\ looper \in {"post", "pipe"} => NoPipeFor(event.req)
    /\ looper = "listen" =>
          /\ file[pipefd.client] = Client(event.req)
          /\ file[pipefd.server] = Server(event.req)
    /\ looper = "hangup" => file[event.handle] = Server(event.req)
    /\ looper \in {"hangup", "close"} =>
          /\ file[event.fd] = Node(event.req)
          /\ NotScheduled(event.req)
          /\ \A fd \in Fd : file[fd] # Client(event.req)

(* fd may be handed to a caller: -1, or a read end nobody has been given.  *)
Undelivered(fd) ==
    fd \in Fd => /\ file[fd].kind = "client"
                 /\ \A c \in Callers : /\ fd \notin held[c]
                                       /\ caller[c] = "waiting" /\ done[c] => ret[c] # fd

HandOver ==
    /\ \A k \in HandleKeys : LET c == mQueuedEvents[k].caller
                             IN  caller[c] = "waiting" /\ ~done[c]
    /\ \A k1, k2 \in HandleKeys : mQueuedEvents[k1].caller = mQueuedEvents[k2].caller => k1 = k2
    /\ looper \in {"open", "pipe", "listen", "publish", "signal"} /\ event.type = "openHandle" =>
          /\ caller[event.caller] = "waiting"
          /\ ~done[event.caller]
          /\ \A k \in HandleKeys : mQueuedEvents[k].caller # event.caller
    /\ looper \in {"listen", "publish"} => Undelivered(pipefd.client)
    /\ looper = "signal" => ret[event.caller] # Uninit /\ Undelivered(ret[event.caller])
    /\ \A c \in Callers : caller[c] = "waiting" /\ done[c] =>
          /\ ret[c] # Uninit
          /\ ret[c] \in Fd => /\ file[ret[c]].kind = "client"
                              /\ \A d \in Callers : ret[c] \notin held[d]
                              /\ \A d \in Callers \ {c} :
                                    caller[d] = "waiting" /\ done[d] => ret[d] # ret[c]

(* What callers hold.                                                      *)
HeldFiles ==
    /\ \A c \in Callers : \A fd \in held[c] : file[fd] = Node(NoReq) \/ file[fd].kind = "client"
    /\ \A c, d \in Callers : c # d => held[c] \cap held[d] = {}
    /\ \A fd \in Fd : file[fd] = Node(NoReq) => \E c \in Callers : fd \in held[c]
    /\ \A fd \in Fd : file[fd].kind \in {"client", "server"} => file[fd].req # NoReq
    /\ \A fd \in Fd : file[fd].kind = "closed" => file[fd] = Closed

(* fd has an owner: Owners(fd) # {}, said without building the set.        *)
Owned(fd) ==
    \/ \E k \in TimeoutKeys : mQueuedEvents[k].fd = fd
    \/ \E w \in watched : w.fd = fd
    \/ \E c \in Callers : fd \in held[c] /\ file[fd].kind # "client"
    \/ looper \in {"post", "pipe", "listen"} /\ node = fd
    \/ looper \in {"hangup", "close"} /\ event.fd = fd

(* A node nobody owns is that of a handle which is not watched.            *)
Orphans ==
    \A fd \in Fd :
        file[fd].kind = "node" /\ ~Owned(fd) =>
            \E s \in Fd : /\ file[s] = Server(file[fd].req)
                          /\ \A w \in watched : w.handle # s

IInv ==
    /\ TypeOK
    /\ LooperTyped
    /\ EventsMatchMessages
    /\ KeysFresh
    /\ PendingUnserved
    /\ OneFilePerRole
    /\ WatchedPipesAreOurs
    /\ ScheduledNodes
    /\ LooperNode
    /\ HandOver
    /\ HeldFiles
    /\ Orphans
=============================================================================
