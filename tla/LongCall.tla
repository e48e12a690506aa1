------------------------------- MODULE LongCall -------------------------------
(***************************************************************************)
(* One long-running request, from its caller to its handler and back: the  *)
(* request, the reply, and the events the handler publishes on the         *)
(* entity's stream, which other calls to the entity share.                 *)
(*                                                                         *)
(* Time is an integer clock that starts with the call.  The event loops    *)
(* are prompt: the clock does not pass what is due in a live process.      *)
(* Requests and replies take any time or are lost; an event arrives in     *)
(* order, within Latency.                                                  *)
(***************************************************************************)
EXTENDS Integers, Sequences

CONSTANTS
  None,               \* absent value
  ReplyTimeout,       \* Backend.REPLY_TIMEOUT
  ReplyMargin,        \* Backend.REPLY_MARGIN
  FirstEventTimeout,  \* LongCall.FIRST_EVENT_TIMEOUT
  Cadence, Ttl,       \* how the handler calls progress_from_task
  Latency,            \* longest way of an event to its subscribers
  MaxTime,            \* bound: the clock
  MaxTrouble          \* bound: events of other calls, publications that raise and handlers
                      \* that are canceled, together

Ends == {"success", "failure"}

ASSUME LongCallAssumption ==
  /\ ReplyMargin \in Nat /\ ReplyTimeout \in Nat /\ ReplyMargin =< ReplyTimeout
  /\ FirstEventTimeout \in Nat /\ Cadence \in Nat \ {0} /\ Ttl \in Nat /\ Latency \in Nat
  /\ MaxTime \in Nat /\ MaxTrouble \in Nat
  \* a progress event arrives before the one before it is stale, whatever the
  \* clocks and the stream make of it
  /\ Cadence + Latency + ReplyMargin < Ttl
  /\ Latency < FirstEventTimeout
  /\ None \notin Nat \cup Ends \cup {"accepted", "rejected", "failed"}

Outcomes == {"succeeded", "failed", "rejected", "errored", "unanswered", "expired", "canceled"}

\* Who may publish an end event: the handler, a task it spawned, the task
\* created by _fail_abandoned_call.
Publishers == {"handler", "task", "abandoned"}

VARIABLES
  now, skew,      \* the caller's clock, and how far the server's is ahead of it
  \* the caller
  caller,         \* "idle", "asking", "following" or an outcome
  sentAt,         \* CallRequest.sent_at
  timeout,        \* what _await_response_events will wait for the next event
  deadline,       \* when the current wait ends
  queue,          \* the queue of CallEvents
  \* the way between them
  request,        \* the request is under way
  reply,          \* the reply under way, or None
  events,         \* events under way
  \* the server
  handler,        \* "none", "deciding", "working", "ending", "exited" or "canceled"
  answer,         \* CallContext.reply, or None
  replied,        \* run_long_call has returned, and watches the handler
  finalized,      \* CallContext.finalized
  failing,        \* _fail_abandoned_call has created its task
  publishing,     \* the end event each publisher awaits the publication of, or None
  progressAt,     \* when progress_from_task is due
  \* bounds
  noise, faults,
  \* history
  startedAt,      \* when the handler was started, or None
  firstEnd,       \* the first end event that entered the stream, or None
  doneAt,         \* when the handler ended, or None
  followedAt      \* since when the caller waits for the first event, or None

clocks == <<now, skew>>
callerVars == <<caller, sentAt, timeout, deadline, queue>>
contextVars == <<answer, finalized>>
serverVars == <<handler, contextVars, replied, failing, publishing, progressAt>>
bounds == <<noise, faults>>
history == <<startedAt, firstEnd, doneAt, followedAt>>
vars == <<clocks, callerVars, request, reply, events, serverVars, bounds, history>>

-----------------------------------------------------------------------------
(* Events.                                                                 *)

ServerNow == now + skew

GoodUntil(state) == IF state = "running" THEN ServerNow + Ttl ELSE None

\* Variant: the end of the call is named as a reply names it.
CallEventAsReply(own, state) ==
  [own |-> own, state |-> IF state = "failure" THEN "failed" ELSE state,
   goodUntil |-> GoodUntil(state), sentAt |-> now]

CallEvent(own, state) ==
  [own |-> own, state |-> state, goodUntil |-> GoodUntil(state), sentAt |-> now]

\* Variant: the queue is opened when the reply has arrived.
SubscribedByReply == caller = "following"

\* The queue is open while the call is.
Subscribed == caller \in {"asking", "following"}

Deliver ==
  /\ events # <<>>
  /\ events' = Tail(events)
  /\ queue' = IF Subscribed THEN Append(queue, Head(events)) ELSE queue
  /\ UNCHANGED <<clocks, caller, sentAt, timeout, deadline, request, reply, serverVars,
                 bounds, history>>

\* Another call to the same entity.
Noise(state) ==
  /\ Subscribed /\ noise + faults < MaxTrouble
  /\ noise' = noise + 1 /\ events' = Append(events, CallEvent(FALSE, state))
  /\ UNCHANGED <<clocks, callerVars, request, reply, serverVars, faults, history>>

-----------------------------------------------------------------------------
(* The caller.                                                             *)

\* The event queue is open before the request is stamped and sent.
Send ==
  /\ caller = "idle"
  /\ caller' = "asking" /\ sentAt' = now /\ request' = TRUE
  /\ UNCHANGED <<clocks, timeout, deadline, queue, reply, events, serverVars, bounds, history>>

\* The call leaves the stream: its queue goes, and its timer.
Leave(outcome) ==
  /\ caller' = outcome /\ queue' = <<>> /\ timeout' = 0 /\ deadline' = 0
  /\ followedAt' = None

ReplyTimesOut ==
  /\ caller = "asking" /\ now >= sentAt + ReplyTimeout
  /\ Leave("unanswered")
  /\ UNCHANGED <<clocks, sentAt, request, reply, events, serverVars,
                 bounds, startedAt, firstEnd, doneAt>>

Accepted ==
  /\ caller = "asking" /\ reply = "accepted"
  /\ reply' = None
  /\ caller' = "following" /\ followedAt' = now
  /\ timeout' = FirstEventTimeout /\ deadline' = now + FirstEventTimeout
  /\ UNCHANGED <<clocks, sentAt, queue, request, events, serverVars, bounds, startedAt,
                 firstEnd, doneAt>>

Refused ==
  /\ caller = "asking" /\ reply \in {"rejected", "failed"}
  /\ reply' = None
  /\ Leave(IF reply = "rejected" THEN "rejected" ELSE "errored")
  /\ UNCHANGED <<clocks, sentAt, request, events, serverVars, bounds,
                 startedAt, firstEnd, doneAt>>

\* Lost on the way, or arrived for nobody.
ReplyLost ==
  /\ reply # None
  /\ reply' = None
  /\ UNCHANGED <<clocks, callerVars, request, events, serverVars, bounds, history>>

\* Variant: an event is taken whatever call it belongs to.
OwnAny(event) == event.own \in BOOLEAN

Own(event) == event.own

\* Variant: a progress event adds its time to what is left of the last.
NextTimeoutExtended(event) == deadline - now + event.goodUntil - (event.sentAt + skew)

NextTimeout(event) == event.goodUntil - now

\* One turn of _await_response_events.  An event of another call starts the
\* same wait again.
Skip ==
  /\ caller = "following" /\ queue # <<>> /\ ~Own(Head(queue))
  /\ queue' = Tail(queue) /\ deadline' = now + timeout
  /\ UNCHANGED <<clocks, caller, sentAt, timeout, request, reply, events, serverVars,
                 bounds, history>>

Continue ==
  /\ caller = "following" /\ queue # <<>> /\ Own(Head(queue))
  /\ Head(queue).state = "running"
  /\ queue' = Tail(queue)
  /\ timeout' = NextTimeout(Head(queue)) /\ deadline' = now + timeout'
  /\ followedAt' = None
  /\ UNCHANGED <<clocks, caller, sentAt, request, reply, events, serverVars, bounds,
                 startedAt, firstEnd, doneAt>>

Resolve ==
  /\ caller = "following" /\ queue # <<>> /\ Own(Head(queue))
  /\ Head(queue).state \in Ends
  /\ Leave(IF Head(queue).state = "success" THEN "succeeded" ELSE "failed")
  /\ UNCHANGED <<clocks, sentAt, request, reply, events, serverVars,
                 bounds, startedAt, firstEnd, doneAt>>

\* An event that is there is taken before the timer can strike.
EventsTimeOut ==
  /\ caller = "following" /\ queue = <<>> /\ now >= deadline
  /\ Leave("expired")
  /\ UNCHANGED <<clocks, sentAt, request, reply, events, serverVars,
                 bounds, startedAt, firstEnd, doneAt>>

\* Cancellation leaves no local work behind and does not retract the request.
CallerCanceled ==
  /\ Subscribed
  /\ Leave("canceled")
  /\ UNCHANGED <<clocks, sentAt, request, reply, events, serverVars,
                 bounds, startedAt, firstEnd, doneAt>>

-----------------------------------------------------------------------------
(* The server: CallHandler and run_long_call.                              *)

RequestLost ==
  /\ request
  /\ request' = FALSE
  /\ UNCHANGED <<clocks, callerVars, reply, events, serverVars, bounds, history>>

Age == ServerNow - sentAt

\* Variant: the whole budget counts.
TooLateByBudget == Age > ReplyTimeout

TooLate == Age > ReplyTimeout - ReplyMargin

ArriveTooLate ==
  /\ request /\ TooLate
  /\ request' = FALSE /\ reply' = "rejected"
  /\ UNCHANGED <<clocks, callerVars, events, serverVars, bounds, history>>

StartHandler ==
  /\ request /\ ~TooLate
  /\ request' = FALSE
  /\ handler' = "deciding" /\ startedAt' = now
  /\ UNCHANGED <<clocks, callerVars, reply, events, contextVars, replied, failing,
                 publishing, progressAt, bounds, firstEnd, doneAt, followedAt>>

\* CallContext.accept and CallContext.reject.
Accept ==
  /\ handler = "deciding"
  /\ answer' = "accepted" /\ handler' = "working" /\ progressAt' = now
  /\ UNCHANGED <<clocks, callerVars, request, reply, events, finalized, replied, failing,
                 publishing, bounds, history>>

Reject ==
  /\ handler = "deciding"
  /\ answer' = "rejected" /\ finalized' = TRUE /\ handler' = "exited" /\ doneAt' = now
  /\ UNCHANGED <<clocks, callerVars, request, reply, events, replied, failing, publishing,
                 progressAt, bounds, startedAt, firstEnd, followedAt>>

\* The handler's task is done: canceled, or with or without an exception.
HandlerDone == handler \in {"exited", "canceled"}

\* Variant: the handler's exit is looked at first.
AnswerUnlessDone == IF answer # None /\ ~HandlerDone THEN answer ELSE "failed"

Answer == IF answer # None THEN answer ELSE "failed"

\* Variant: a call that was answered counts as settled.
AbandonedUnanswered(stage) == stage = "exited" /\ answer = None

\* _fail_abandoned_call, called when a watched handler's task is done.
Abandoned(stage) == stage = "exited" /\ ~finalized

\* The handler has replied or ended, and run_long_call wakes up.
SendReply ==
  /\ ~replied /\ (answer # None \/ HandlerDone)
  /\ replied' = TRUE /\ reply' = Answer
  /\ failing' = (answer # None /\ Abandoned(handler))
  /\ UNCHANGED <<clocks, callerVars, request, events, handler, contextVars, publishing,
                 progressAt, bounds, history>>

-----------------------------------------------------------------------------
(* The server: the handler.                                                *)

\* The handler's task ends.
Exit(stage) ==
  /\ handler' = stage /\ doneAt' = now /\ progressAt' = 0
  /\ failing' = (replied /\ Abandoned(stage))

HandlerExits ==
  /\ handler \in {"deciding", "working"}
  /\ Exit("exited")
  /\ UNCHANGED <<clocks, callerVars, request, reply, events, contextVars, replied,
                 publishing, bounds, startedAt, firstEnd, followedAt>>

Progress ==
  /\ handler = "working" /\ ~finalized /\ now >= progressAt
  /\ events' = Append(events, CallEvent(TRUE, "running"))
  /\ progressAt' = now + Cadence
  /\ UNCHANGED <<clocks, callerVars, request, reply, handler, contextVars, replied, failing,
                 publishing, bounds, history>>

\* The publication raises, and the handler with it.
ProgressFails ==
  /\ handler = "working" /\ ~finalized /\ now >= progressAt /\ noise + faults < MaxTrouble
  /\ faults' = faults + 1
  /\ Exit("exited")
  /\ UNCHANGED <<clocks, callerVars, request, reply, events, contextVars, replied,
                 publishing, noise, startedAt, firstEnd, followedAt>>

\* CallContext.succeed and CallContext.fail, up to the publication.
BeginEnd(p, state) ==
  /\ answer = "accepted" /\ ~finalized /\ publishing[p] = None
  /\ CASE p = "handler" -> handler = "working" /\ handler' = "ending" /\ UNCHANGED failing
       [] p = "task" -> UNCHANGED <<handler, failing>>
       [] p = "abandoned" -> failing /\ state = "failure" /\ failing' = FALSE
                             /\ UNCHANGED handler
  /\ publishing' = [publishing EXCEPT ![p] = state]
  /\ UNCHANGED <<clocks, callerVars, request, reply, events, contextVars, replied,
                 progressAt, bounds, history>>

\* An end event enters the stream.
Emit(state) ==
  /\ events' = Append(events, CallEvent(TRUE, state))
  /\ firstEnd' = IF firstEnd = None THEN state ELSE firstEnd

EndPublished(p) ==
  /\ publishing[p] # None
  /\ Emit(publishing[p])
  /\ publishing' = [publishing EXCEPT ![p] = None]
  /\ finalized' = TRUE
  /\ IF p = "handler" THEN handler' = "exited" /\ doneAt' = now /\ progressAt' = 0
                      ELSE UNCHANGED <<handler, doneAt, progressAt>>
  /\ UNCHANGED <<clocks, callerVars, request, reply, answer, replied, failing, bounds,
                 startedAt, followedAt>>

\* The publication raises; the event may still have been delivered.
EndFails(p, delivered) ==
  /\ publishing[p] # None /\ noise + faults < MaxTrouble
  /\ faults' = faults + 1
  /\ IF delivered THEN Emit(publishing[p]) ELSE UNCHANGED <<events, firstEnd>>
  /\ publishing' = [publishing EXCEPT ![p] = None]
  /\ IF p = "handler" THEN Exit("exited")
                      ELSE UNCHANGED <<handler, doneAt, failing, progressAt>>
  /\ UNCHANGED <<clocks, callerVars, request, reply, contextVars, replied, noise,
                 startedAt, followedAt>>

\* The handler's task is canceled, perhaps with an end event on its way.
HandlerCanceled(delivered) ==
  /\ handler \in {"deciding", "working", "ending"} /\ noise + faults < MaxTrouble
  /\ faults' = faults + 1
  /\ Exit("canceled")
  /\ delivered => handler = "ending"
  /\ IF delivered THEN Emit(publishing["handler"]) ELSE UNCHANGED <<events, firstEnd>>
  /\ publishing' = [publishing EXCEPT !["handler"] = None]
  /\ UNCHANGED <<clocks, callerVars, request, reply, contextVars, replied, noise,
                 startedAt, followedAt>>

-----------------------------------------------------------------------------
(* The clock.                                                              *)

\* Something a live process does now.
Due ==
  \/ caller = "idle"
  \/ caller = "asking" /\ now >= sentAt + ReplyTimeout
  \/ caller = "following" /\ (queue # <<>> \/ now >= deadline)
  \/ events # <<>> /\ now >= Head(events).sentAt + Latency
  \/ ~replied /\ (answer # None \/ HandlerDone)
  \/ handler = "working" /\ now >= progressAt
  \/ failing /\ ~finalized
  \/ \E p \in Publishers : publishing[p] # None

Tick ==
  /\ ~Due /\ now < MaxTime
  /\ now' = now + 1
  /\ UNCHANGED <<skew, callerVars, request, reply, events, serverVars, bounds, history>>

-----------------------------------------------------------------------------
Init ==
  /\ now = 0 /\ skew \in -ReplyMargin..ReplyMargin
  /\ caller = "idle" /\ sentAt = 0 /\ timeout = 0 /\ deadline = 0 /\ queue = <<>>
  /\ request = FALSE /\ reply = None /\ events = <<>>
  /\ handler = "none" /\ answer = None /\ replied = FALSE /\ finalized = FALSE
  /\ failing = FALSE /\ publishing = [p \in Publishers |-> None] /\ progressAt = 0
  /\ noise = 0 /\ faults = 0
  /\ startedAt = None /\ firstEnd = None /\ doneAt = None /\ followedAt = None

Next ==
  \/ Deliver \/ \E state \in Ends \cup {"running"} : Noise(state)
  \/ Send \/ ReplyTimesOut \/ Accepted \/ Refused \/ ReplyLost
  \/ Skip \/ Continue \/ Resolve \/ EventsTimeOut \/ CallerCanceled
  \/ RequestLost \/ ArriveTooLate \/ StartHandler \/ Accept \/ Reject \/ SendReply
  \/ HandlerExits \/ Progress \/ ProgressFails
  \/ \E p \in Publishers, state \in Ends : BeginEnd(p, state)
  \/ \E p \in Publishers : EndPublished(p)
  \/ \E p \in Publishers, delivered \in BOOLEAN : EndFails(p, delivered)
  \/ \E delivered \in BOOLEAN : HandlerCanceled(delivered)
  \/ Tick

Spec == Init /\ [][Next]_vars

\* What the server's event loop has ready, it runs.
FairSpec ==
  /\ Spec
  /\ WF_vars(SendReply)
  /\ WF_vars(BeginEnd("abandoned", "failure"))
  /\ \A p \in Publishers :
       WF_vars(EndPublished(p) \/ \E delivered \in BOOLEAN : EndFails(p, delivered))

-----------------------------------------------------------------------------
(* Properties.                                                             *)

EventTypes ==
  [own : BOOLEAN, state : {"running"}, goodUntil : Int, sentAt : Nat]
    \cup [own : BOOLEAN, state : Ends, goodUntil : {None}, sentAt : Nat]

CallerTypes ==
  /\ now \in Nat /\ skew \in -ReplyMargin..ReplyMargin
  /\ caller \in {"idle", "asking", "following"} \cup Outcomes
  /\ sentAt \in Nat /\ timeout \in Int /\ deadline \in Int /\ queue \in Seq(EventTypes)

WayTypes ==
  /\ request \in BOOLEAN /\ reply \in {None, "accepted", "rejected", "failed"}
  /\ events \in Seq(EventTypes)

ServerTypes ==
  /\ handler \in {"none", "deciding", "working", "ending", "exited", "canceled"}
  /\ answer \in {None, "accepted", "rejected"}
  /\ replied \in BOOLEAN /\ finalized \in BOOLEAN /\ failing \in BOOLEAN
  /\ publishing \in [Publishers -> Ends \cup {None}] /\ progressAt \in Nat

CountTypes ==
  /\ noise \in 0..MaxTrouble /\ faults \in 0..MaxTrouble
  /\ startedAt \in Nat \cup {None} /\ firstEnd \in Ends \cup {None}
  /\ doneAt \in Nat \cup {None} /\ followedAt \in Nat \cup {None}

\* Every variable keeps its type: the protocol of request.py.
TypeOK == CallerTypes /\ WayTypes /\ ServerTypes /\ CountTypes

\* A handler is never started for a caller that has stopped waiting for the
\* reply, whatever the two clocks make of the age of the call
\* (CallHandler.__call__).
NoLateStart == startedAt # None => startedAt =< sentAt + ReplyTimeout

\* A caller that is told "rejected" or "failed" in the reply knows that no
\* accepted work runs, however the handler's answer and its exit race
\* (run_long_call).
RefusedNeverRuns == caller \in {"rejected", "errored"} => answer # "accepted"

\* The outcome a caller sees is the first end event that entered the stream,
\* with end events of other calls around and a handler, its task and the
\* abandoned-call failure racing for it (_await_response_events).
OutcomeIsFirstEnd ==
  /\ caller = "succeeded" => firstEnd = "success"
  /\ caller = "failed" => firstEnd = "failure"

\* What a caller is told of its call is what became of it.
AnswersAreTrue == RefusedNeverRuns /\ OutcomeIsFirstEnd

\* A caller that follows its call never gives up on it while all publications
\* succeed and the handler is not canceled: not for the order of reply and
\* events, the clocks, a handler that forgot to end the call, or other calls.
NoFalseAlarm == caller = "expired" => faults > 0

LaterOf(a, b) == IF a > b THEN a ELSE b

\* A caller notices within a bounded time that its handler has ended without
\* an end event, as long as nothing else is published on the stream
\* (CallContext.progress, _await_response_events).
DeadHandlerNoticed ==
  (caller = "following" /\ doneAt # None /\ noise = 0) =>
    now =< doneAt + LaterOf(Ttl + ReplyMargin, ReplyTimeout + FirstEventTimeout)

\* An accepted call whose handler exits gets an end event in the stream,
\* unless a publication failed (_fail_abandoned_call).
AbandonedIsReported ==
  (handler = "exited" /\ answer = "accepted") ~> (firstEnd # None \/ faults > 0)

\* LongCall.FIRST_EVENT_TIMEOUT: "Seconds a caller waits for the first event of
\* an accepted long-running call".
FirstEventBound ==
  (caller = "following" /\ followedAt # None) => now =< followedAt + FirstEventTimeout
=============================================================================
