------------------------------- MODULE Sinks -------------------------------
(***************************************************************************)
(* The notification channels (src/notify): which sinks an event is offered *)
(* to, what each of the ten kinds sends and where, how it reads the answer *)
(* of the service behind it, and what a fan-out says in the end.  A        *)
(* request and its answer are two steps, so that the services, the answers *)
(* and other deliveries come in between.  A message is the set of the      *)
(* event's fields it carries; "" is a blank field.  The breakers, which    *)
(* may hold a delivery back at any time, are in module Digest.             *)
(***************************************************************************)
EXTENDS Naturals, FiniteSets, Sequences

CONSTANTS
    Setups,     \* sequences of channels that may be configured
    Events,     \* events the pipeline delivers
    TestEvent,  \* the event of POST /notifiers/test
    MaxSends    \* bound on the deliveries started

\* Channels are of the kinds below, and every event has a title.
ASSUME SinksAssumption ==
    /\ \A setup \in Setups : \A i \in DOMAIN setup :
         setup[i].kind \in {"slack", "slack_webhook", "telegram", "express", "webhook", "kafka",
                           "nats", "rabbitmq", "novu", "apprise", "smtp"}
    /\ \A event \in Events \cup {TestEvent} : event.title # ""

VARIABLES
    channels,   \* the configured channels
    sends,      \* the deliveries so far: what was asked, and each sink's phase
    inboxes,    \* what the services hold, as [sink, send]
    busy,       \* triggers Novu is still working on, as <<sink, send>>
    links,      \* sink -> "none", "up" or "cut": its broker connection
    odd         \* <<send, sink>> where an Ok is no word of the service: a broker that is
                \* not asked, a body that says nothing, a failure behind an answer

sinksVars == <<channels, sends, inboxes, busy, links, odd>>

Sink      == DOMAIN channels
Kind(i)   == channels[i].kind
EventOf(s) == sends[s].event

----------------------------------------------------------------------------
(* payload.rs: what is said.                                               *)

Fields(event) == {f \in {"title", "body", "url", "tag"} : event[f] # ""}

\* An unknown or blank placeholder renders as nothing.
render_template(template, event) == template \cap (Fields(event) \cup {"words"})

append_event_url(message, event) == message \cup (Fields(event) \cap {"url"})

default_chat_message(event) ==
    append_event_url(IF event.body = "" THEN {"title"} ELSE {"title", "body"}, event)

default_markdown_body(event) == append_event_url(Fields(event) \cap {"body"}, event)

EventPayload(event) == Fields(event)

render_template_or(template, event, fallback) ==
    IF template = {} THEN fallback ELSE render_template(template, event)

Message(channel, event) ==
    CASE channel.kind \in {"slack", "slack_webhook", "telegram", "express"} ->
            render_template_or(channel.text, event, default_chat_message(event))
      [] channel.kind \in {"webhook", "kafka", "nats", "rabbitmq"} ->
            render_template_or(channel.text, event, EventPayload(event))
      [] channel.kind = "novu" -> EventPayload(event)
      [] channel.kind = "apprise" -> {"title"} \cup append_event_url({"body"}, event)
      [] channel.kind = "smtp" ->
            {"title"} \cup render_template_or(channel.text, event,
                IF channel.markdown THEN default_markdown_body(event) ELSE default_chat_message(event))

\* An address is fixed, or a template of the routing tag.
Address(channel, event) == IF channel.to = "tag" THEN event.tag ELSE channel.to

\* Slack bots, Telegram and Novu look at the rendered address before they send.
ChecksAddress == {"slack", "telegram", "novu"}
Misaddressed(channel, event) == channel.kind \in ChecksAddress /\ Address(channel, event) = ""

----------------------------------------------------------------------------
(* mod.rs: who is asked.                                                   *)

Listens(i, event) == channels[i].tags = {} \/ (event.tag # "" /\ event.tag \in channels[i].tags)

matching_indices(event) == {i \in Sink : Listens(i, event)}

phase(op, event, i, shut) ==
    IF op # "test" /\ ~Listens(i, event) THEN "deaf"
    ELSE IF op # "test" /\ i \in shut THEN "open"
    ELSE IF Misaddressed(channels[i], event) THEN "error" ELSE "todo"

\* A test takes any sink, whatever its tags or its breaker say.
Ask(op, event, asked, shut) ==
    /\ Len(sends) < MaxSends
    /\ sends' = Append(sends, [op |-> op, event |-> event,
            at |-> [i \in Sink |-> IF i \in asked THEN phase(op, event, i, shut) ELSE "unasked"]])
    /\ UNCHANGED <<channels, inboxes, busy, links, odd>>

Notify(event) ==
    \E shut \in SUBSET Sink : Ask("notify", event, matching_indices(event), shut)
NotifyPartial(event, asked)  == \E shut \in SUBSET Sink : Ask("partial", event, asked, shut)
Test(asked)                  == Ask("test", TestEvent, asked, {})

Asked(s)    == {i \in Sink : sends[s].at[i] # "unasked"}
Pending     == {"todo", "linked", "waiting", "accepted", "refused", "ok_false", "conflict"}
Answered(s) == \A i \in Sink : sends[s].at[i] \notin Pending
Failed(s)   == {i \in Asked(s) : sends[s].at[i] \in {"error", "open"}}

\* Mutant: nobody to tell is no failure
Mut_outcome(s) == IF Failed(s) = {} THEN "ok" ELSE "fan_out"

outcome(s) ==
    IF Asked(s) = {} THEN "misconfigured" ELSE IF Failed(s) = {} THEN "ok" ELSE "fan_out"

----------------------------------------------------------------------------
(* The ten kinds: a request, what the service does with it, the answer.    *)

Becomes(s, i, p) == sends' = [sends EXCEPT ![s].at[i] = p]

transaction_id(s) == <<EventOf(s).source, EventOf(s).title, EventOf(s).url>>

Brokers == {"nats", "rabbitmq"}

\* NATS connects once and leaves the rest to its client; RabbitMQ opens a new
\* channel whenever the one it has is not connected.
Dial(s, i) ==
    /\ sends[s].at[i] = "todo" /\ Kind(i) \in Brokers
    /\ IF links[i] = "none" \/ (Kind(i) = "rabbitmq" /\ links[i] = "cut")
       THEN \/ Becomes(s, i, "linked") /\ links' = [links EXCEPT ![i] = "up"]
            \/ Becomes(s, i, "error") /\ UNCHANGED links
       ELSE Becomes(s, i, "linked") /\ UNCHANGED links
    /\ UNCHANGED <<channels, inboxes, busy, odd>>

Break(i) ==
    /\ links[i] = "up"
    /\ links' = [links EXCEPT ![i] = "cut"]
    /\ UNCHANGED <<channels, sends, inboxes, busy, odd>>

Mend(i) ==
    /\ links[i] = "cut" /\ Kind(i) = "nats"
    /\ links' = [links EXCEPT ![i] = "up"]
    /\ UNCHANGED <<channels, sends, inboxes, busy, odd>>

ReadyToSend(s, i) ==
    IF Kind(i) \in Brokers THEN sends[s].at[i] = "linked" ELSE sends[s].at[i] = "todo"

Unreachable(s, i) ==
    /\ ReadyToSend(s, i)
    /\ Becomes(s, i, "error")
    /\ UNCHANGED <<channels, inboxes, busy, links, odd>>

\* Behind the bot APIs' 200 the message may still be refused: "ok_false".
Refusals(i) == {"refused"} \cup (IF Kind(i) \in {"slack", "telegram"} THEN {"ok_false"} ELSE {})

Refuse(s, i) ==
    /\ ReadyToSend(s, i) /\ Kind(i) # "novu"
    /\ \E reply \in Refusals(i) : Becomes(s, i, reply)
    /\ UNCHANGED <<channels, inboxes, busy, links, odd>>

\* Neither broker is asked what became of the message: NATS's flush is a write to
\* the socket, and RabbitMQ's "confirmation" comes without confirm mode.
Accept(s, i) ==
    /\ ReadyToSend(s, i) /\ Kind(i) # "novu"
    /\ Kind(i) \in Brokers => links[i] = "up"
    /\ Becomes(s, i, "accepted")
    /\ \/ inboxes' = inboxes \cup {[sink |-> i, send |-> s]} /\ UNCHANGED odd
       \/ Kind(i) \in Brokers /\ odd' = odd \cup {<<s, i>>} /\ UNCHANGED inboxes
    /\ UNCHANGED <<channels, busy, links>>

Triggered(i) == {transaction_id(h.send) : h \in {g \in inboxes : g.sink = i}}
Working(i)   == {transaction_id(b[2]) : b \in {c \in busy : c[1] = i}}

\* Novu starts one workflow per transaction id: a repeated one is answered
\* as the first was, and 409 while that is still in hand.
Trigger(s, i) ==
    /\ ReadyToSend(s, i) /\ Kind(i) = "novu"
    /\ CASE transaction_id(s) \in Triggered(i) -> Becomes(s, i, "accepted") /\ UNCHANGED busy
         [] transaction_id(s) \in Working(i)   -> Becomes(s, i, "conflict") /\ UNCHANGED busy
         [] OTHER -> Becomes(s, i, "waiting") /\ busy' = busy \cup {<<i, s>>}
    /\ UNCHANGED <<channels, inboxes, links, odd>>

Twins(i, s) == {t \in DOMAIN sends : transaction_id(t) = transaction_id(s)}

Work(i, s) ==
    /\ <<i, s>> \in busy
    /\ busy' = busy \ {<<i, s>>}
    /\ \/ /\ inboxes' = inboxes \cup {[sink |-> i, send |-> s]}
          /\ sends' = IF sends[s].at[i] = "waiting" THEN [sends EXCEPT ![s].at[i] = "accepted"] ELSE sends
          /\ UNCHANGED odd
       \/ /\ sends' = IF sends[s].at[i] = "waiting" THEN [sends EXCEPT ![s].at[i] = "refused"] ELSE sends
          /\ odd' = odd \cup {<<t, i>> : t \in Twins(i, s) \ {s}}
          /\ UNCHANGED inboxes
    /\ UNCHANGED <<channels, links>>

reject_if_ok_false(reply) == IF reply = "ok_false" THEN "error" ELSE "ok"

\* Mutant: a 200 is a success
Mut_Verdict(i, reply) == IF reply = "refused" THEN "error" ELSE "ok"

Verdict(i, reply) ==
    CASE reply = "refused"  -> "error"
      [] reply = "conflict" -> "ok"
      [] OTHER -> IF Kind(i) \in {"slack", "telegram"} THEN reject_if_ok_false(reply) ELSE "ok"

\* The answer arrives, or is lost or late.
Responds(s, i) ==
    /\ sends[s].at[i] \in Pending \ {"todo", "linked"}
    /\ \/ sends[s].at[i] # "waiting" /\ Becomes(s, i, Verdict(i, sends[s].at[i]))
       \/ Becomes(s, i, "error")
    /\ UNCHANGED <<channels, inboxes, busy, links, odd>>

\* Only a JSON body with ok = false is read as a refusal: one that breaks off, is
\* no JSON (a proxy's page) or lacks the field counts as a success.
UnclearBody(s, i) ==
    /\ sends[s].at[i] = "ok_false"
    /\ Becomes(s, i, "ok")
    /\ odd' = odd \cup {<<s, i>>}
    /\ UNCHANGED <<channels, inboxes, busy, links>>

Deliver(s, i) ==
    Dial(s, i) \/ Unreachable(s, i) \/ Refuse(s, i) \/ Accept(s, i)
    \/ Trigger(s, i) \/ Work(i, s) \/ Responds(s, i) \/ UnclearBody(s, i)

SinksInit ==
    /\ channels \in Setups
    /\ sends = <<>> /\ inboxes = {} /\ busy = {} /\ odd = {}
    /\ links = [i \in Sink |-> "none"]

SinksNext ==
    \/ \E event \in Events : Notify(event) \/ \E asked \in SUBSET Sink : NotifyPartial(event, asked)
    \/ \E asked \in {Sink} \cup {{i} : i \in Sink} : Test(asked)
    \/ \E i \in Sink : Break(i) \/ Mend(i) \/ \E s \in DOMAIN sends : Deliver(s, i)

SinksSpec == SinksInit /\ [][SinksNext]_sinksVars

----------------------------------------------------------------------------
Reached(s, i) ==
    \/ [sink |-> i, send |-> s] \in inboxes
    \/ Kind(i) = "novu" /\ transaction_id(s) \in Triggered(i) \cup Working(i)

\* A notify that says Ok had somebody to tell, and everybody who listens was
\* told: the service holds the message, or (Novu) holds or works on one of the
\* same transaction id.  Named exceptions (odd): a broker's Ok, which is no more
\* than a write; a body that says nothing; a failure behind an answer.
OkMeansTold ==
    \A s \in DOMAIN sends :
        sends[s].op = "notify" /\ Answered(s) /\ outcome(s) = "ok" =>
            /\ matching_indices(EventOf(s)) # {}
            /\ \A i \in matching_indices(EventOf(s)) : Reached(s, i) \/ <<s, i>> \in odd

\* The same for every single sink, whoever asked: the outbox never asks again
\* what it has recorded as acknowledged.
AckedIsHeld ==
    \A s \in DOMAIN sends, i \in Sink :
        sends[s].at[i] = "ok" => Reached(s, i) \/ <<s, i>> \in odd

\* Only a test reaches the channel of a team the event is not for.
TeamsOnly ==
    \A h \in inboxes : sends[h.send].op = "test" \/ Listens(h.sink, EventOf(h.send))

\* However often an event is sent again, Novu starts its workflow once.
TriggersOnce ==
    \A g, h \in inboxes :
        g.sink = h.sink /\ Kind(g.sink) = "novu" /\ EventOf(g.send) = EventOf(h.send) => g = h

\* What arrives names the release: without a template of its own a channel
\* sends the title, and the link where there is one, to an address that is
\* not blank.
SaysWhat ==
    \A h \in inboxes :
        LET channel == channels[h.sink]
            message == Message(channel, EventOf(h.send))
        IN  /\ channel.text = {} => /\ "title" \in message
                                    /\ EventOf(h.send).url # "" => "url" \in message
            /\ channel.kind \in ChecksAddress => Address(channel, EventOf(h.send)) # ""

\* The rules above: what the fan-out reports about a sink is what its channel
\* has seen, and what the channel has seen is a message meant for it, once.
VerdictsAreTrue == OkMeansTold /\ AckedIsHeld /\ TeamsOnly /\ TriggersOnce /\ SaysWhat

\* Novu starts a workflow for every event it acknowledges.
EveryEventTriggers ==
    \A s \in DOMAIN sends, i \in Sink :
        Kind(i) = "novu" /\ sends[s].at[i] = "ok" /\ <<s, i>> \notin odd /\ busy = {} =>
            \E h \in inboxes : h.sink = i /\ EventOf(h.send) = EventOf(s)

=============================================================================
