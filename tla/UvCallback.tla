----------------------------- MODULE UvCallback -----------------------------
(***************************************************************************)
(* uv_callback.c: calls from any thread into the thread of a libuv loop.   *)
(*                                                                         *)
(* One loop with its master callback, whose queue takes the calls of every *)
(* UV_DEFAULT callback of the loop; one UV_COALESCE callback; and Callers, *)
(* threads that fire them, with or without a callback to be notified, or   *)
(* synchronously from a private loop on their stack (fire_sync).           *)
(*                                                                         *)
(* A step is what a thread does between two points where others see it:    *)
(* the section under callback->mutex, uv_async_send, one function call.    *)
(***************************************************************************)
EXTENDS Integers, Sequences, SequencesExt

CONSTANTS
    Callers,     \* threads that fire
    MaxFires,    \* how often each of them does; bounds the model
    Kinds,       \* the ways they fire: "queued", "sync", "coalesced"
    MayFail,     \* whether malloc may fail
    MayTimeout,  \* whether fire_sync is given a timeout
    NoCall, NoOne

Ids == Callers \X (1..MaxFires)

\* uv_call_t: whose call it is, which function it is for, whom to notify.
\* "result" is a callback of the same loop; a caller stands for the notify
\* callback on the stack of its fire_sync.
Call == [id : Ids, fn : {"work", "result"}, notify : {NoOne, "result"} \cup Callers]

ASSUME CallersAssumption ==
    /\ MaxFires \in Nat
    /\ NoOne \notin Callers \cup {"result"}
    /\ "result" \notin Callers
    /\ NoCall \notin Call \cup Ids
    /\ MayFail \in BOOLEAN
    /\ MayTimeout \in BOOLEAN

VARIABLES
    queue,        \* callback->queue of the master, newest first
    idle_active,  \* callback->idle_active: the idle handle runs
    async_sent,   \* libuv: the async handle of the master is pending
    lpc,          \* where the loop thread is
    current,      \* the call the loop thread is handling
    done,         \* history: the calls whose function was called
    arg,          \* callback->arg of the coalescing callback
    arg_sent,     \* libuv: its async handle is pending
    arg_seen,     \* what its function was last called with
    pc,           \* where each caller is
    fired,        \* how many calls each caller has fired
    nqueue,       \* the queue of the notify callback on a caller's stack
    nsent,        \* libuv: the async handle of that callback is pending
    ret           \* what the last fire_sync of a caller returned

loop == <<queue, idle_active, async_sent, lpc, current, done>>
coalesce == <<arg, arg_sent, arg_seen>>
frame == <<nqueue, nsent>>
vars == <<loop, coalesce, pc, fired, frame, ret>>

Init ==
    /\ queue = <<>>
    /\ idle_active = FALSE
    /\ async_sent = FALSE
    /\ lpc = "poll"
    /\ current = NoCall
    /\ done = <<>>
    /\ arg = NoCall
    /\ arg_sent = FALSE
    /\ arg_seen = NoCall
    /\ pc = [t \in Callers |-> "ready"]
    /\ fired = [t \in Callers |-> 0]
    /\ nqueue = [t \in Callers |-> <<>>]
    /\ nsent = [t \in Callers |-> FALSE]
    /\ ret = [t \in Callers |-> [call |-> NoCall, rc |-> "none", data |-> NoCall]]

----------------------------------------------------------------------------
(* The callers.                                                            *)

NextId(t) == <<t, fired[t] + 1>>

\* Link a call at the head of the queue, under the mutex.
Link(call) == queue' = <<call>> \o queue

Fires(t, kind) ==
    /\ kind \in Kinds
    /\ pc[t] = "ready"
    /\ fired[t] < MaxFires
    /\ fired' = [fired EXCEPT ![t] = @ + 1]

\* uv_callback_fire on a queueing callback, up to the unlock ...
Fire(t) ==
    /\ Fires(t, "queued")
    /\ \E notify \in {NoOne, "result"} :
          Link([id |-> NextId(t), fn |-> "work", notify |-> notify])
    /\ pc' = [pc EXCEPT ![t] = "linked"]
    /\ UNCHANGED <<idle_active, async_sent, lpc, current, done, coalesce, frame, ret>>

\* ... and the same inside uv_callback_fire_sync, once its loop and its
\* notify callback are made.
FireSync(t) ==
    /\ Fires(t, "sync")
    /\ Link([id |-> NextId(t), fn |-> "work", notify |-> t])
    /\ nqueue' = [nqueue EXCEPT ![t] = <<>>]
    /\ nsent' = [nsent EXCEPT ![t] = FALSE]
    /\ pc' = [pc EXCEPT ![t] = "sync_linked"]
    /\ UNCHANGED <<idle_active, async_sent, lpc, current, done, coalesce, ret>>

\* malloc fails and the call is not queued: UV_ENOMEM.
FireFails(t) ==
    /\ MayFail
    /\ \/ /\ Fires(t, "queued")
          /\ UNCHANGED ret
       \/ /\ Fires(t, "sync")
          /\ ret' = [ret EXCEPT ![t] =
                [call |-> NextId(t), rc |-> "ENOMEM", data |-> NoCall]]
    /\ UNCHANGED <<loop, coalesce, pc, frame>>

\* A faulty variant of AsyncSend: the loop is only told of the first call in
\* the queue.
AsyncSendIfFirst(t) ==
    /\ pc[t] \in {"linked", "sync_linked"}
    /\ async_sent' = (async_sent \/ Len(queue) = 1)
    /\ pc' = [pc EXCEPT ![t] = IF @ = "linked" THEN "ready" ELSE "waiting"]
    /\ UNCHANGED <<queue, idle_active, lpc, current, done, coalesce, fired, frame, ret>>

\* uv_async_send ends uv_callback_fire; fire_sync then runs its own loop.
AsyncSend(t) ==
    /\ pc[t] \in {"linked", "sync_linked"}
    /\ async_sent' = TRUE
    /\ pc' = [pc EXCEPT ![t] = IF @ = "linked" THEN "ready" ELSE "waiting"]
    /\ UNCHANGED <<queue, idle_active, lpc, current, done, coalesce, fired, frame, ret>>

Answer(t) == IF nsent[t] /\ nqueue[t] # <<>> THEN Last(nqueue[t]) ELSE NoCall

\* fire_sync is over: its loop, its notify callback and its timer are closed.
Returns(t, code) ==
    /\ ret' = [ret EXCEPT ![t] =
          [call |-> <<t, fired[t]>>, rc |-> code, data |-> Answer(t)]]
    /\ pc' = [pc EXCEPT ![t] = "ready"]
    /\ UNCHANGED <<loop, coalesce, fired, frame>>

\* A faulty variant of SyncAnswered: leaving the loop counts as an answer.
SyncAnsweredUnchecked(t) ==
    /\ pc[t] = "waiting"
    /\ Returns(t, "OK")

\* on_call_result
SyncAnswered(t) ==
    /\ pc[t] = "waiting"
    /\ Answer(t) # NoCall
    /\ Returns(t, "OK")

\* on_timer; an answer that is there is still taken in the same turn.
SyncTimesOut(t) ==
    /\ MayTimeout
    /\ pc[t] = "waiting"
    /\ Returns(t, "ETIMEDOUT")

\* uv_callback_fire on a coalescing callback: callback->arg = data ...
FireCoalesced(t) ==
    /\ Fires(t, "coalesced")
    /\ arg' = NextId(t)
    /\ pc' = [pc EXCEPT ![t] = "arg_written"]
    /\ UNCHANGED <<loop, arg_sent, arg_seen, frame, ret>>

\* A faulty variant of SendCoalesced: the loop is not told.
SendCoalescedNever(t) ==
    /\ pc[t] = "arg_written"
    /\ pc' = [pc EXCEPT ![t] = "ready"]
    /\ UNCHANGED <<loop, coalesce, fired, frame, ret>>

\* ... and uv_async_send.
SendCoalesced(t) ==
    /\ pc[t] = "arg_written"
    /\ arg_sent' = TRUE
    /\ pc' = [pc EXCEPT ![t] = "ready"]
    /\ UNCHANGED <<loop, arg, arg_seen, fired, frame, ret>>

----------------------------------------------------------------------------
(* The loop thread.                                                        *)

\* A faulty variant of DequeueCall: the newest call is taken.
DequeueCallNewest ==
    \/ /\ queue = <<>>
       /\ idle_active' = FALSE
       /\ UNCHANGED <<queue, lpc, current>>
    \/ /\ queue # <<>>
       /\ queue' = Tail(queue)
       /\ current' = Head(queue)
       /\ lpc' = "call"
       /\ UNCHANGED idle_active

\* uv_callback_async_cb takes the oldest call, or stops the idle handle.
DequeueCall ==
    \/ /\ queue = <<>>
       /\ idle_active' = FALSE
       /\ UNCHANGED <<queue, lpc, current>>
    \/ /\ queue # <<>>
       /\ queue' = Front(queue)
       /\ current' = Last(queue)
       /\ lpc' = "call"
       /\ UNCHANGED idle_active

\* libuv runs uv_callback_async_cb for a pending async handle ...
AsyncCb ==
    /\ lpc = "poll"
    /\ async_sent
    /\ async_sent' = FALSE
    /\ DequeueCall
    /\ UNCHANGED <<done, coalesce, pc, fired, frame, ret>>

\* ... and uv_callback_idle_cb in every turn while the idle handle runs.
IdleCb ==
    /\ lpc = "poll"
    /\ idle_active
    /\ DequeueCall
    /\ UNCHANGED <<async_sent, done, coalesce, pc, fired, frame, ret>>

\* The notify callback of t is on its stack.
Alive(t) == pc[t] \in {"sync_linked", "waiting"}

\* Faulty variants of Rearm: the idle handle is not started, and the call
\* stays in use after it was freed.
RearmForgotten ==
    /\ lpc' = "poll"
    /\ current' = NoCall
    /\ UNCHANGED idle_active

RearmKeepsCall ==
    /\ lpc' = "poll"
    /\ idle_active' = TRUE
    /\ UNCHANGED current

\* The call is freed and the idle handle comes for the next one.
Rearm ==
    /\ lpc' = "poll"
    /\ current' = NoCall
    /\ idle_active' = TRUE

\* call->callback->function, and the first half of firing call->notify with
\* its result; async_cb does not look at what that returns, so the result is
\* lost when malloc fails.  A notify callback whose fire_sync has returned is
\* gone: the link is lost, or lands in the one the caller has made since.
CallFunction ==
    /\ lpc = "call"
    /\ done' = Append(done, current)
    /\ \/ /\ current.notify = NoOne \/ MayFail
          /\ Rearm
          /\ UNCHANGED <<queue, nqueue>>
       \/ /\ current.notify = "result"
          /\ Link([id |-> current.id, fn |-> "result", notify |-> NoOne])
          /\ lpc' = "notify"
          /\ UNCHANGED <<idle_active, current, nqueue>>
       \/ /\ current.notify \in Callers
          /\ nqueue' = IF Alive(current.notify)
                       THEN [nqueue EXCEPT ![current.notify] = <<current.id>> \o @]
                       ELSE nqueue
          /\ lpc' = "notify"
          /\ UNCHANGED <<queue, idle_active, current>>
    /\ UNCHANGED <<async_sent, coalesce, pc, fired, nsent, ret>>

\* The uv_async_send that ends firing call->notify.
NotifySend ==
    /\ lpc = "notify"
    /\ \/ /\ current.notify = "result"
          /\ async_sent' = TRUE
          /\ UNCHANGED nsent
       \/ /\ current.notify \in Callers
          /\ nsent' = [nsent EXCEPT ![current.notify] = @ \/ Alive(current.notify)]
          /\ UNCHANGED async_sent
    /\ Rearm
    /\ UNCHANGED <<queue, done, coalesce, pc, fired, nqueue, ret>>

\* uv_callback_async_cb for the coalescing callback.
CoalescedCb ==
    /\ lpc = "poll"
    /\ arg_sent
    /\ arg_sent' = FALSE
    /\ arg_seen' = arg
    /\ UNCHANGED <<loop, arg, pc, fired, frame, ret>>

Next ==
    \/ \E t \in Callers : \/ Fire(t)
                          \/ FireSync(t)
                          \/ FireFails(t)
                          \/ AsyncSend(t)
                          \/ SyncAnswered(t)
                          \/ SyncTimesOut(t)
                          \/ FireCoalesced(t)
                          \/ SendCoalesced(t)
    \/ AsyncCb
    \/ IdleCb
    \/ CallFunction
    \/ NotifySend
    \/ CoalescedCb

Spec == Init /\ [][Next]_vars

\* Threads go on with what they have begun, and libuv comes to every handle
\* that is pending or idle; nobody has to fire anything.
Fairness ==
    /\ WF_vars(AsyncCb)
    /\ WF_vars(IdleCb)
    /\ WF_vars(CallFunction)
    /\ WF_vars(NotifySend)
    /\ WF_vars(CoalescedCb)
    /\ \A t \in Callers : /\ WF_vars(AsyncSend(t))
                          /\ WF_vars(SendCoalesced(t))
                          /\ WF_vars(SyncAnswered(t))

FairSpec == Spec /\ Fairness

----------------------------------------------------------------------------
(* Properties.                                                             *)

\* Every variable has its type: the loop thread has a call in its hands
\* exactly while it is handling one.
TypeOK ==
    /\ queue \in Seq(Call)
    /\ idle_active \in BOOLEAN
    /\ async_sent \in BOOLEAN
    /\ lpc \in {"poll", "call", "notify"}
    /\ current \in Call \cup {NoCall}
    /\ lpc = "poll" <=> current = NoCall
    /\ done \in Seq(Call)
    /\ arg \in Ids \cup {NoCall}
    /\ arg_sent \in BOOLEAN
    /\ arg_seen \in Ids \cup {NoCall}
    /\ pc \in [Callers -> {"ready", "linked", "sync_linked", "waiting", "arg_written"}]
    /\ fired \in [Callers -> 0..MaxFires]
    /\ nqueue \in [Callers -> Seq(Ids)]
    /\ nsent \in [Callers -> BOOLEAN]
    /\ ret \in [Callers -> [call : Ids \cup {NoCall},
                            rc : {"none", "OK", "ENOMEM", "ETIMEDOUT"},
                            data : Ids \cup {NoCall}]]

\* The wake-up is never lost: while a call is in the queue, the async handle
\* is pending, the idle handle runs, the loop thread is busy and will start
\* it, or the thread that linked a call has still to send.
NoLostCall ==
    queue # <<>> =>
        \/ async_sent
        \/ idle_active
        \/ lpc # "poll"
        \/ \E t \in Callers : pc[t] \in {"linked", "sync_linked"}

\* What is still to be run, oldest first.
Waiting == (IF lpc = "call" THEN <<current>> ELSE <<>>) \o Reverse(queue)

Fifo == INSTANCE CallFifo WITH waiting <- Waiting

\* The queue behaves as CallFifo says: no call is lost, run twice or
\* overtaken by a later one.
CallsInOrder == Fifo!Spec

\* And every call is run.
CallsAllRun == Fifo!FairSpec

\* When nobody is about to send and nothing is pending, the function of the
\* coalescing callback was called with what was written last.
CoalescedLatest ==
    (~arg_sent /\ \A t \in Callers : pc[t] # "arg_written") => arg_seen = arg

\* "callback to be fired with the result of this one": fire_sync that
\* succeeds gives its caller the result of its own call.
SyncAnswersItsCall ==
    \A t \in Callers : ret[t].rc = "OK" => ret[t].data = ret[t].call

\* fire_sync without a timeout returns.
SyncReturns == \A t \in Callers : pc[t] = "waiting" ~> pc[t] = "ready"
=============================================================================
