------------------------------ MODULE Messaging -----------------------------
(***************************************************************************)
(* RabbitMQConsumer of libs/core: one queue of the broker and the process  *)
(* that consumes it.  The publisher is part of module Outbox; here the     *)
(* broker receives what it sends.                                          *)
(*                                                                         *)
(* Every connection has one channel.  The consumer remembers the latest in *)
(* this.channel and acknowledges on it whatever it is delivered; a         *)
(* delivery tag means something on its own channel only.  MessagingModule  *)
(* connects the consumer and its onModuleInit connects it again, so that a *)
(* service has two connections from the start.                             *)
(*                                                                         *)
(* An acknowledgement or a republished message is written and not waited   *)
(* for: from the moment a connection is broken the broker gets nothing of  *)
(* what is written on it, while the process goes on until it notices.      *)
(***************************************************************************)
EXTENDS Naturals, FiniteSets

CONSTANTS Messages,        \* messages the broker may receive
          Channels,        \* names for the channels alive at one time, 1 .. n
          ConsumerRetries, \* maxRetries
          ConsumerPrefetch, \* prefetchCount
          Connections,     \* how many connections a consumer may start with
          MaxMishaps       \* bound: broken connections, crashes, shutdowns, duplicates

ASSUME MessagingAssumption ==
  /\ {ConsumerRetries, ConsumerPrefetch, MaxMishaps} \subseteq Nat
  /\ Channels \subseteq Nat \ {0} /\ \A c \in Channels : 1 .. c \subseteq Channels
  /\ Connections \subseteq Channels

VARIABLES
  connects,      \* connections made at startup
  mishaps,       \* faults that may still happen
  unsent,        \* messages the broker has not received, or will receive again
  broker,        \* waiting: in the queue; unacked: delivered; dead: dead letters
  open,          \* channels that are open, as far as the process knows
  broken,        \* those of them whose connection is broken
  tags,          \* tags[c]: the last delivery tag of channel c
  consumers,     \* channels the queue is consumed on
  channel,       \* this.channel, or Null
  connected,     \* this.connected, of the consumer
  timers,        \* reconnections scheduled
  setting,       \* channels whose connect() awaits setupInfrastructure
  subscribed,    \* the queue is in this.subscriptions
  resubscribing, \* runs of resubscribeAll that hold the subscription
  ending,        \* isShuttingDown
  handlers,      \* deliveries being handled, or waiting for their retry
  done,          \* history: messages a handler returned for
  crossed,       \* history: a delivery was given another channel to answer on
  parted,        \* history: a retry was not republished on the channel that
                 \* acknowledged the original
  orphaned       \* history: a subscription was dropped by resubscribeAll

sending == <<connects, unsent>>
brokerVars == <<broker, open, broken, tags, consumers>>
linkVars == <<channel, connected, timers, setting, subscribed, resubscribing, ending>>
histories == <<done, crossed, parted, orphaned>>
messagingVars == <<mishaps, sending, brokerVars, linkVars, handlers, histories>>

Null == 0
Alive == open \ broken

Copy(x) == [msg |-> x.msg, tries |-> x.tries]

(* The broker takes back what was delivered on channels that close.        *)
Requeue(b, closing) ==
  LET back == {u \in b.unacked : u.on \in closing}
  IN [b EXCEPT !.unacked = @ \ back, !.waiting = @ \union {Copy(u) : u \in back}]

-----------------------------------------------------------------------------
MessagingInit ==
  /\ connects \in Connections /\ mishaps = MaxMishaps
  /\ unsent = Messages
  /\ broker = [waiting |-> {}, unacked |-> {}, dead |-> {}]
  /\ open = 1 .. connects /\ broken = {} /\ consumers = {connects}
  /\ tags = [c \in Channels |-> 0]
  /\ channel = connects /\ connected = TRUE
  /\ timers = 0 /\ setting = {} /\ subscribed = TRUE /\ resubscribing = 0
  /\ ending = FALSE /\ handlers = {}
  /\ done = {} /\ crossed = FALSE /\ parted = FALSE /\ orphaned = FALSE

Mishap == mishaps > 0 /\ mishaps' = mishaps - 1

(* The broker receives what an outbox worker publishes; some of it twice,  *)
(* as the worker publishes again what it counts as failed.                 *)
Receive(m) ==
  /\ m \in unsent
  /\ broker' = [broker EXCEPT !.waiting = @ \union {[msg |-> m, tries |-> 0]}]
  /\ \/ unsent' = unsent \ {m} /\ UNCHANGED mishaps
     \/ Mishap /\ UNCHANGED unsent
  /\ UNCHANGED <<connects, open, broken, tags, consumers, linkVars, handlers, histories>>

-----------------------------------------------------------------------------
(* The broker delivers a message on channel c; handleMessage takes         *)
(* this.channel, open or not, for its answer, and does nothing without one.*)
Deliver(c) ==
  LET tag == tags[c] + 1
  IN /\ c \in consumers /\ tags' = [tags EXCEPT ![c] = tag]
     /\ Cardinality({u \in broker.unacked : u.on = c}) < ConsumerPrefetch
     /\ \E w \in broker.waiting :
          LET delivery == [on |-> c, tag |-> tag, msg |-> w.msg, tries |-> w.tries]
              handler == [on |-> c, tag |-> tag, msg |-> w.msg, tries |-> w.tries,
                          via |-> channel, doing |-> "handling"]
          IN /\ broker' = [broker EXCEPT !.waiting = @ \ {w}, !.unacked = @ \union {delivery}]
             /\ handlers' = IF channel = Null THEN handlers ELSE handlers \union {handler}
     /\ crossed' = (crossed \/ channel \notin {c, Null})
     /\ UNCHANGED <<mishaps, sending, open, broken, consumers, linkVars, done, parted, orphaned>>

(* What the broker makes of b when handler h acknowledges or rejects its   *)
(* tag on channel h.via: nothing if the connection is broken; the delivery *)
(* with that tag is settled; a tag it does not know closes the channel.    *)
Answered(h, b, rejected) ==
  LET meant == {u \in b.unacked : u.on = h.via /\ u.tag = h.tag}
  IN IF meant = {} THEN Requeue(b, {h.via})
     ELSE [b EXCEPT !.unacked = @ \ meant,
                    !.dead = IF rejected THEN @ \union {u.msg : u \in meant} ELSE @]

Answer(h, b, rejected) ==
  LET known == \E u \in b.unacked : u.on = h.via /\ u.tag = h.tag
      refused == IF h.via \in broken \/ known THEN {} ELSE {h.via}
  IN /\ h.via \in open
     /\ broker' = IF h.via \in broken THEN b ELSE Answered(h, b, rejected)
     /\ open' = open \ refused /\ consumers' = consumers \ refused
     /\ UNCHANGED broken

(* The handler returns; an ack that throws is logged.                      *)
HandlerReturns(h) ==
  /\ h \in handlers /\ h.doing = "handling"
  /\ done' = done \union {h.msg}
  /\ handlers' = handlers \ {h}
  /\ \/ Answer(h, broker, FALSE)
     \/ h.via \notin open /\ UNCHANGED <<broker, open, broken, consumers>>
  /\ UNCHANGED <<mishaps, sending, tags, linkVars, crossed, parted, orphaned>>

HandlerThrows(h) ==
  /\ h \in handlers /\ h.doing = "handling" /\ h.tries < ConsumerRetries
  /\ handlers' = (handlers \ {h}) \union {[h EXCEPT !.doing = "backoff"]}
  /\ UNCHANGED <<mishaps, sending, brokerVars, linkVars, histories>>

(* The last attempt: reject, to the dead letter exchange.  Thrown in the   *)
(* catch block, a failing reject ends the process (see Exit).              *)
GivesUp(h) ==
  /\ h \in handlers /\ h.doing = "handling" /\ h.tries >= ConsumerRetries
  /\ handlers' = handlers \ {h}
  /\ Answer(h, broker, TRUE)
  /\ UNCHANGED <<mishaps, sending, tags, linkVars, histories>>

(* A slip this code could have had: the original is acknowledged and not   *)
(* republished.                                                            *)
FaultyRepublished(h) == broker

(* republishForRetry, on this.channel if there is one; the message is lost *)
(* with a broken connection.                                               *)
Republished(h) ==
  IF channel \notin Alive THEN broker
  ELSE [broker EXCEPT !.waiting = @ \union {[msg |-> h.msg, tries |-> h.tries + 1]}]

(* The retry timer: republish on this.channel, then acknowledge on the     *)
(* channel the handler has had from the beginning.                         *)
Retries(h) ==
  /\ h \in handlers /\ h.doing = "backoff"
  /\ channel \in open \union {Null}
  /\ handlers' = handlers \ {h}
  /\ parted' = (parted \/ channel # h.via)
  /\ UNCHANGED <<sending, tags, linkVars, done, crossed, orphaned>>

RetryTimer(h) ==
  /\ Retries(h)
  /\ Answer(h, Republished(h), FALSE)
  /\ UNCHANGED mishaps

(* The same, but the connection of h.via breaks after the message and      *)
(* before the acknowledgement: the broker has the message twice.           *)
RetryCutShort(h) ==
  /\ Retries(h) /\ Mishap
  /\ h.via \in Alive
  /\ broker' = Requeue(Republished(h), {h.via})
  /\ broken' = broken \union {h.via} /\ consumers' = consumers \ {h.via}
  /\ UNCHANGED open

-----------------------------------------------------------------------------
(* gracefulShutdown begins: disconnect cancels the consumer of             *)
(* this.channel.                                                           *)
ShutDown ==
  /\ ending' = TRUE
  /\ consumers' = IF ending THEN consumers ELSE consumers \ {channel}

(* It is told to.                                                          *)
Terminate ==
  /\ ~ending /\ Mishap
  /\ ShutDown
  /\ UNCHANGED <<sending, broker, open, broken, tags, channel, connected, timers, setting,
                 subscribed, resubscribing, handlers, histories>>

(* Or the timer meets a closed channel: publishing throws on this.channel, *)
(* or it succeeds and the acknowledgement throws on the one the message    *)
(* came from; so does a reject.                                            *)
Exit(h) ==
  /\ h \in handlers
  /\ \/ h.doing = "backoff" /\ (channel \notin open \union {Null} \/ h.via \notin open)
     \/ h.doing = "handling" /\ h.tries >= ConsumerRetries /\ h.via \notin open
  /\ broker' = IF h.doing = "backoff" THEN Republished(h) ELSE broker
  /\ handlers' = handlers \ {h}
  /\ ShutDown
  /\ UNCHANGED <<mishaps, sending, open, broken, tags, channel, connected, timers, setting,
                 subscribed, resubscribing, histories>>

(* disconnect: channel.close is answered, and this.channel set to null,    *)
(* when the broker has got all that was written on it before.  Other       *)
(* connections stay, their deliveries and the retry timers too.            *)
ChannelCloses ==
  /\ ending /\ channel \in Alive
  /\ open' = open \ {channel} /\ consumers' = consumers \ {channel}
  /\ broker' = Requeue(broker, {channel})
  /\ channel' = Null /\ connected' = FALSE
  /\ UNCHANGED <<mishaps, sending, broken, tags, timers, setting, subscribed, resubscribing,
                 ending, handlers, histories>>

(* The process is gone and is started again.                               *)
Restart ==
  /\ broker' = Requeue(broker, Channels)
  /\ open' = 1 .. connects /\ broken' = {} /\ consumers' = {connects}
  /\ tags' = [c \in Channels |-> 0]
  /\ channel' = connects /\ connected' = TRUE
  /\ timers' = 0 /\ setting' = {} /\ subscribed' = TRUE /\ resubscribing' = 0
  /\ ending' = FALSE /\ handlers' = {}
  /\ UNCHANGED <<sending, histories>>

(* The shutdown is over, or the time it may take.                          *)
Ends == ending /\ Restart /\ UNCHANGED mishaps

Crash == Mishap /\ Restart

-----------------------------------------------------------------------------
(* A connection breaks.                                                    *)
ConnectionBreaks(c) ==
  /\ c \in Alive /\ Mishap
  /\ broken' = broken \union {c} /\ consumers' = consumers \ {c}
  /\ broker' = Requeue(broker, {c})
  /\ UNCHANGED <<sending, open, tags, linkVars, handlers, histories>>

(* The process notices: the 'close' handler schedules a reconnection.      *)
ConnectionCloses(c) ==
  /\ c \in broken
  /\ open' = open \ {c} /\ broken' = broken \ {c}
  /\ connected' = FALSE /\ timers' = IF ending THEN timers ELSE timers + 1
  /\ UNCHANGED <<mishaps, sending, broker, tags, consumers, channel, setting, subscribed,
                 resubscribing, ending, handlers, histories>>

(* Five seconds later connect() opens a connection and a channel; when it  *)
(* fails the next attempt is scheduled, which is the same state.  One that *)
(* began before a shutdown may end during it.                              *)
Reconnect ==
  LET used == open \union setting \union {channel} \union {h.on : h \in handlers}
              \union {h.via : h \in handlers}
  IN /\ timers > 0 /\ Channels \ used # {}
     /\ LET new == CHOOSE c \in Channels \ used : TRUE
        IN /\ open' = open \union {new} /\ setting' = setting \union {new}
           /\ channel' = new /\ tags' = [tags EXCEPT ![new] = 0]
     /\ timers' = timers - 1 /\ connected' = TRUE
     /\ UNCHANGED <<mishaps, sending, broker, broken, consumers, subscribed, resubscribing,
                    ending, handlers, histories>>

(* setupInfrastructure ends: resubscribeAll takes the subscriptions out of *)
(* the map; or it fails, its connection being lost: connect() rejects.     *)
SetUp(c) ==
  /\ c \in setting \ broken /\ setting' = setting \ {c}
  /\ IF c \notin open THEN /\ timers' = IF ending THEN timers ELSE timers + 1
                          /\ UNCHANGED <<subscribed, resubscribing>>
     ELSE /\ subscribed' = FALSE
          /\ resubscribing' = IF subscribed THEN resubscribing + 1 ELSE resubscribing
          /\ UNCHANGED timers
  /\ UNCHANGED <<mishaps, sending, brokerVars, channel, connected, ending, handlers, histories>>

(* A slip this code could have had: the subscriptions are forgotten.       *)
FaultyResubscribe ==
  /\ resubscribing > 0 /\ resubscribing' = resubscribing - 1
  /\ UNCHANGED <<mishaps, sending, brokerVars, channel, connected, timers, setting, subscribed,
                 ending, handlers, histories>>

(* subscribe on this.channel; a failure is logged, and the subscription is *)
(* in the map no longer.  A broken connection gives no answer.             *)
Resubscribe ==
  /\ resubscribing > 0 /\ resubscribing' = resubscribing - 1
  /\ channel \notin broken
  /\ IF connected /\ channel \in open
     THEN subscribed' = TRUE /\ consumers' = consumers \union {channel} /\ UNCHANGED orphaned
     ELSE orphaned' = TRUE /\ UNCHANGED <<subscribed, consumers>>
  /\ UNCHANGED <<mishaps, sending, broker, open, broken, tags, channel, connected, timers, setting,
                 ending, handlers, done, crossed, parted>>

-----------------------------------------------------------------------------
(* What the process, its timers and the broker do by themselves.           *)
MessagingStep ==
  \/ \E c \in Channels : Deliver(c) \/ ConnectionCloses(c) \/ SetUp(c)
  \/ \E h \in handlers : \/ HandlerReturns(h) \/ HandlerThrows(h)
                         \/ GivesUp(h) \/ RetryTimer(h) \/ Exit(h)
  \/ ChannelCloses \/ Ends
  \/ Reconnect \/ Resubscribe

MessagingNext ==
  \/ MessagingStep
  \/ \E m \in Messages : Receive(m)
  \/ \E c \in Channels : ConnectionBreaks(c)
  \/ \E h \in handlers : RetryCutShort(h)
  \/ Terminate \/ Crash

MessagingFairness == WF_messagingVars(MessagingStep)

MessagingSpec == MessagingInit /\ [][MessagingNext]_messagingVars /\ MessagingFairness

-----------------------------------------------------------------------------
MessagingTypeOK ==
  /\ unsent \subseteq Messages /\ done \subseteq Messages /\ broker.dead \subseteq Messages
  /\ \A c \in broker.waiting \union broker.unacked \union handlers :
       c.msg \in Messages /\ c.tries \in 0 .. ConsumerRetries
  /\ open \subseteq Channels /\ broken \subseteq open /\ consumers \subseteq Alive
  /\ setting \subseteq Channels /\ channel \in Channels \union {Null}
  /\ timers \in Nat /\ resubscribing \in Nat
  /\ {connected, subscribed, ending, crossed, parted, orphaned} \subseteq BOOLEAN

Kept(m) ==
  \/ m \in unsent \union done \union broker.dead
  \/ \E c \in broker.waiting \union broker.unacked : c.msg = m

(* rabbitmq-consumer.ts:343 acknowledges a "Message processed              *)
(* successfully": one the broker has dropped was handled, or it is among   *)
(* the dead letters.                                                       *)
AckedWasProcessed == \A m \in Messages : Kept(m)

(* Retries, broken connections, reconnections, shutdowns and restarts lose *)
(* no message the broker has received, as long as every delivery is        *)
(* answered on the channel it came from and every retry is published on    *)
(* the channel that acknowledges the original: then the broker gets both   *)
(* or, at worst, only the message.  With two connections it may get only   *)
(* the acknowledgement.                                                    *)
NoMessageIsLost == ~crossed /\ ~parted => AckedWasProcessed

Settled == broker.waiting = {} /\ broker.unacked = {}

(* After a lost connection the consumer comes back and works off its       *)
(* queue, unless answers went to the wrong channel or resubscribeAll       *)
(* failed.                                                                 *)
QueueIsWorkedOff == ~Settled ~> (Settled \/ crossed \/ orphaned)
=============================================================================
