---------------------------- MODULE EventManager ----------------------------
(***************************************************************************)
(* Event manager and subscriptions of messages/event_manager.go and        *)
(* messages/event_subscription.go.  A goroutine of the round holds at most *)
(* one subscription, so its name stands for the SubscriptionID.            *)
(*                                                                         *)
(* An event is a round.  It goes through notifyCh, the hands of runLoop,   *)
(* and outputCh, each of which holds one.                                  *)
(***************************************************************************)
EXTENDS Integers

CONSTANTS
    Listeners,      \* the goroutines that subscribe
    None

VARIABLE subscription   \* subscription[l], None when l has none

Channels == {"notifyCh", "hand", "outputCh"}

\* runLoop is started with the subscription.
AddSubscription(l, details) ==
    subscription' = [subscription EXCEPT ![l] =
        [details |-> details, event |-> [ch \in Channels |-> None]]]

\* close ends runLoop; an event on its way is lost with the channels.
CancelSubscription(l) == subscription' = [subscription EXCEPT ![l] = None]

EventSupported(details, type, h, r) ==
    /\ details.type = type
    /\ details.height = h
    /\ IF details.hasMinRound THEN r >= details.round ELSE r = details.round

BugPushEvent(s, type, h, r) ==
    IF EventSupported(s.details, type, h, r) /\ s.event["notifyCh"] = None
    THEN [s EXCEPT !.event["notifyCh"] = r + 1] ELSE s

\* Does not block: the event is dropped when notifyCh holds another one.
PushEvent(s, type, h, r) ==
    IF EventSupported(s.details, type, h, r) /\ s.event["notifyCh"] = None
    THEN [s EXCEPT !.event["notifyCh"] = r] ELSE s

\* To every subscription, under the read lock: none appears or goes meanwhile.
\* A caller that read numSubscriptions = 0 has none to push to, or one whose
\* owner has yet to look at the store.
SignalEvent(type, h, r) ==
    subscription' = [l \in Listeners |->
        IF subscription[l] = None THEN None
        ELSE PushEvent(subscription[l], type, h, r)]

\* l holds a subscription with an event in its channel ch.
HasEvent(l, ch) == subscription[l] # None /\ subscription[l].event[ch] # None

\* l's event goes from one channel to the next, or to the listener (None).
PassEvent(l, from, to) ==
    subscription' = [subscription EXCEPT ![l].event = [ch \in Channels |->
        IF ch = to THEN @[from] ELSE IF ch = from THEN None ELSE @[ch]]]

BugRunLoop(l) ==
    \/ HasEvent(l, "notifyCh") /\ ~HasEvent(l, "hand") /\ PassEvent(l, "notifyCh", "hand")
    \/ HasEvent(l, "hand") /\ HasEvent(l, "outputCh") /\ PassEvent(l, "hand", "outputCh")

\* runLoop: takes an event from notifyCh, then blocks in the send to outputCh.
RunLoop(l) ==
    \/ HasEvent(l, "notifyCh") /\ ~HasEvent(l, "hand") /\ PassEvent(l, "notifyCh", "hand")
    \/ HasEvent(l, "hand") /\ ~HasEvent(l, "outputCh") /\ PassEvent(l, "hand", "outputCh")

Receive(l) == HasEvent(l, "outputCh") /\ PassEvent(l, "outputCh", None)

Pending(l) == \E ch \in Channels : HasEvent(l, ch)
=============================================================================
