-------------------------------- MODULE Stream --------------------------------
(***************************************************************************)
(* The realtime stream of one server process: connections that subscribe    *)
(* to their channels one after the other (apps/web/app/api/stream/route.ts) *)
(* and the table of handlers between them and the one Redis subscriber      *)
(* (subscribe and the message listener of lib/server/redis.ts).             *)
(*                                                                          *)
(* A set of handlers is an object: who holds a reference to it keeps it     *)
(* after the table has lost it.  It is named by the stream that created it. *)
(* Redis does the commands of a channel in their order, at any time or,     *)
(* while it is down, not at all; ioredis repeats them after a reconnect.    *)
(* Microtasks (answered, next) run before the next timer or request.  What  *)
(* an event says, and to whom, does not matter: any of the streams that     *)
(* hear it may write it out.                                                *)
(***************************************************************************)
EXTENDS Naturals, Sequences, FiniteSets

CONSTANTS
  Nobody,
  Stream,     \* connections at a time
  Channel,
  Channels,   \* the channels a stream subscribes to, in their order
  Threshold   \* sseDegradeThreshold

ASSUME ChannelsAreSequences == Channels \in [Stream -> Seq(Channel)]
ASSUME NobodyIsNoStream == Nobody \notin Stream
ASSUME ThresholdIsNatural == Threshold \in Nat

VARIABLES
  handlers,   \* the table: by channel its set, or Nobody
  member,     \* by stream and channel the set that holds the handler, or Nobody
  stream,     \* where each stream is
  here,       \* streams whose client is still there
  wire,       \* by channel the commands that Redis has not done yet
  heard,      \* channels whose events Redis sends
  torn,       \* history: streams torn down before they had all their subscriptions
  deaf        \* history: <<s, ch>> whose set was taken out of the table by somebody else

streamVars == <<handlers, member, stream, here, wire, heard, torn, deaf>>

Place == [pc : {"away", "refused", "next", "waiting", "answered", "open"},
          n : Nat \ {0}, offs : SUBSET Channel, closed : BOOLEAN]
Away == [pc |-> "away", n |-> 1, offs |-> {}, closed |-> FALSE]

Members(ch, set) == {s \in Stream : member[s][ch] = set}
Listeners(ch) == IF handlers[ch] = Nobody THEN {} ELSE Members(ch, handlers[ch])

TotalListeners == Cardinality({p \in Stream \X Channel : p[1] \in Listeners(p[2])})

Subscription(s) == [cmd |-> "SUBSCRIBE", by |-> s]
Unsubscription == [cmd |-> "UNSUBSCRIBE", by |-> Nobody]
Command == [cmd : {"SUBSCRIBE", "UNSUBSCRIBE"}, by : Stream \cup {Nobody}]

At(s, pc) == stream[s].pc = pc
Now(s) == Channels[s][stream[s].n]

\* Wrong on purpose: the unsubscriber is not kept.
OnwardWithout(s, offs) == stream' = [stream EXCEPT ![s].pc = "next", ![s].n = @ + 1]
Onward(s, offs) == stream' = [stream EXCEPT ![s].pc = "next", ![s].n = @ + 1, ![s].offs = offs]

NoMicrotask == \A s \in Stream : ~At(s, "next")
Quiet == NoMicrotask /\ \A s \in Stream : ~At(s, "answered")

\* The stream that created the set of a channel and has not added its handler.
Subscribing(s) == At(s, "waiting") \/ At(s, "answered")
Awaiting(ch) == {s \in Stream : handlers[ch] = s /\ Subscribing(s) /\ Now(s) = ch}

-----------------------------------------------------------------------------
(* GET, and start of the ReadableStream.                                    *)

\* The threshold is compared and start begins without an await in between.
Open(s) ==
  /\ Quiet /\ At(s, "away")
  /\ \E pc \in {"refused", "next"} :
       /\ pc = "refused" <=> TotalListeners >= Threshold
       /\ stream' = [stream EXCEPT ![s].pc = pc]
  /\ UNCHANGED <<handlers, member, here, wire, heard, torn, deaf>>

\* subscribe, for a channel nobody here listens to ...
Create(s) ==
  /\ At(s, "next") /\ stream[s].n <= Len(Channels[s]) /\ handlers[Now(s)] = Nobody
  /\ handlers' = [handlers EXCEPT ![Now(s)] = s]
  /\ wire' = [wire EXCEPT ![Now(s)] = Append(@, Subscription(s))]
  /\ stream' = [stream EXCEPT ![s].pc = "waiting"]
  /\ UNCHANGED <<member, here, heard, torn, deaf>>

\* ... or for one that has a set, which is not awaited.
Add(s, set) ==
  /\ member' = [member EXCEPT ![s][Now(s)] = set]
  /\ Onward(s, stream[s].offs \cup {Now(s)})
  /\ UNCHANGED <<handlers, here, wire, heard, torn, deaf>>
Join(s) == /\ At(s, "next") /\ stream[s].n <= Len(Channels[s]) /\ handlers[Now(s)] # Nobody
           /\ Add(s, handlers[Now(s)])

\* Redis has done the subscription: into the set that was created for it.
Subscribed(s) == At(s, "answered") /\ Add(s, s)

\* After three seconds: handlers.delete(channel), whichever set is there by now.
TimeOut(s) ==
  LET ch == Now(s) IN
  /\ Quiet /\ At(s, "waiting")
  /\ handlers' = [handlers EXCEPT ![ch] = Nobody]
  /\ deaf' = deaf \cup (Listeners(ch) \cup (Awaiting(ch) \ {s})) \X {ch}
  /\ Onward(s, stream[s].offs)
  /\ UNCHANGED <<member, here, wire, heard, torn>>

\* The end of start: heartbeat, deadline and abort listener.
Started(s) ==
  /\ At(s, "next") /\ stream[s].n > Len(Channels[s])
  /\ stream' = [stream EXCEPT ![s].pc = "open"]
  /\ UNCHANGED <<handlers, member, here, wire, heard, torn, deaf>>

-----------------------------------------------------------------------------
(* teardown, with the unsubscribers that were collected so far.             *)

\* Wrong on purpose: who leaves does not look whether others remain.
EmptiesAny(S, ch) == handlers[ch] # Nobody /\ \E s \in S : ch \in stream[s].offs

\* The set in the table is taken out with its last handler, also while its creator
\* has not added one yet.
Leavers(S, ch) == {s \in S : ch \in stream[s].offs}
Empties(S, ch) == /\ handlers[ch] # Nobody /\ Leavers(S, ch) # {}
                  /\ Listeners(ch) \subseteq Leavers(S, ch)

Teardown(S) ==
  /\ member' = [s \in Stream |-> [ch \in Channel |->
        IF s \in Leavers(S, ch) THEN Nobody ELSE member[s][ch]]]
  /\ handlers' = [ch \in Channel |-> IF Empties(S, ch) THEN Nobody ELSE handlers[ch]]
  /\ wire' = [ch \in Channel |->
        IF Empties(S, ch) THEN Append(wire[ch], Unsubscription) ELSE wire[ch]]
  /\ stream' = [s \in Stream |-> [stream[s] EXCEPT !.closed = @ \/ s \in S]]
  /\ torn' = torn \cup {s \in S : ~At(s, "open")}
  /\ deaf' = deaf \cup UNION {Awaiting(ch) \X {ch} : ch \in {c \in Channel : Empties(S, c)}}

\* The client goes.
Vanish(s) == /\ s \in here /\ stream[s].pc \notin {"away", "refused"}
             /\ here' = here \ {s}
             /\ UNCHANGED <<handlers, member, stream, wire, heard, torn, deaf>>

\* The abort listener, a heartbeat that cannot be written, or the deadline.
End(s) == /\ Quiet /\ At(s, "open") /\ ~stream[s].closed
          /\ Teardown({s}) /\ UNCHANGED <<here, heard>>

\* Redis does the next command of a channel, and says so.
Answer(ch) ==
  /\ NoMicrotask /\ wire[ch] # <<>>
  /\ LET c == Head(wire[ch]) IN
     /\ heard' = IF c.cmd = "SUBSCRIBE" THEN heard \cup {ch} ELSE heard \ {ch}
     /\ stream' = [s \in Stream |->
           IF c = Subscription(s) /\ At(s, "waiting") /\ Now(s) = ch
             THEN [stream[s] EXCEPT !.pc = "answered"] ELSE stream[s]]
  /\ wire' = [wire EXCEPT ![ch] = Tail(@)]
  /\ UNCHANGED <<handlers, member, here, torn, deaf>>

\* An event: those who write it for a client that is gone tear themselves down.
Message(ch) ==
  /\ NoMicrotask /\ ch \in heard
  /\ \E W \in SUBSET {s \in Listeners(ch) : ~stream[s].closed /\ s \notin here} :
        Teardown(W)
  /\ UNCHANGED <<here, heard>>

\* The client comes back, as a new stream.
Reconnect(s) ==
  /\ Quiet /\ (At(s, "refused") \/ (At(s, "open") /\ stream[s].closed))
  /\ \A ch \in Channel : /\ member[s][ch] = Nobody /\ handlers[ch] # s /\ Members(ch, s) = {}
                         /\ \A i \in 1..Len(wire[ch]) : wire[ch][i] # Subscription(s)
  /\ stream' = [stream EXCEPT ![s] = Away] /\ here' = here \cup {s}
  /\ torn' = torn \ {s} /\ deaf' = {p \in deaf : p[1] # s}
  /\ UNCHANGED <<handlers, member, wire, heard>>
-----------------------------------------------------------------------------
StreamInit ==
  /\ handlers = [ch \in Channel |-> Nobody]
  /\ member = [s \in Stream |-> [ch \in Channel |-> Nobody]]
  /\ stream = [s \in Stream |-> Away] /\ here = Stream
  /\ wire = [ch \in Channel |-> <<>>] /\ heard = {}
  /\ torn = {} /\ deaf = {}

StreamNext ==
  \/ \E s \in Stream : \/ Open(s) \/ Create(s) \/ Join(s) \/ Subscribed(s) \/ TimeOut(s)
                       \/ Started(s) \/ Vanish(s) \/ End(s) \/ Reconnect(s)
  \/ \E ch \in Channel : Answer(ch) \/ Message(ch)

\* Microtasks run at once, and a timer goes off when nothing else is running, which
\* is again and again.  Redis, its events and the clients owe nothing.
StreamFairness ==
  \A s \in Stream : /\ WF_streamVars(Create(s) \/ Join(s) \/ Subscribed(s) \/ Started(s))
                    /\ SF_streamVars(TimeOut(s)) /\ SF_streamVars(End(s))

StreamSpec == StreamInit /\ [][StreamNext]_streamVars /\ StreamFairness

-----------------------------------------------------------------------------
(* Properties.                                                              *)

\* The table, the streams and the commands have their shapes, and a stream keeps the
\* unsubscribers of the handlers it has added and awaits only channels of its own.
StreamTypeOK ==
  /\ handlers \in [Channel -> Stream \cup {Nobody}]
  /\ member \in [Stream -> [Channel -> Stream \cup {Nobody}]]
  /\ stream \in [Stream -> Place]
  /\ here \subseteq Stream /\ heard \subseteq Channel /\ torn \subseteq Stream
  /\ wire \in [Channel -> Seq(Command)]
  /\ deaf \subseteq Stream \X Channel
  /\ \A s \in Stream : Subscribing(s) => stream[s].n \in DOMAIN Channels[s]
  /\ \A s \in Stream, ch \in Channel : member[s][ch] # Nobody => ch \in stream[s].offs

\* One subscription serves all streams of a channel (redis.ts:119-122): whoever has
\* added a handler hears the channel's events as soon as Redis has caught up, however
\* the others come, go and time out; except when somebody else's time-out or leave
\* took the set out of the table, which hits those who are in it or await it.
ListenersAreReached ==
  \A s \in Stream, ch \in Channel : (member[s][ch] # Nobody /\ <<s, ch>> \notin deaf) =>
    /\ handlers[ch] = member[s][ch]
    /\ wire[ch] = <<>> => ch \in heard

\* "Whatever goes wrong, every connection is gone within four minutes" (route.ts
\* 70-71): again and again a stream is over, and none of its handlers remains; except
\* of one that was torn down before it had all its subscriptions.
Over(s) == \/ stream[s].pc \in {"away", "refused"}
           \/ At(s, "open") /\ stream[s].closed /\ \A ch \in Channel : member[s][ch] = Nobody
EveryConnectionGoes == \A s \in Stream : []<>(Over(s) \/ s \in torn)

-----------------------------------------------------------------------------
(* What the code's comments say, and the code does not keep.                *)

\* "Every subscription, unconditionally.  A missed unsubscribe here is a leak that
\* survives the socket" (route.ts:162-164): a stream that is closed and has done all
\* its subscribing has no handler left.
ClosedStreamsLetGo ==
  \A s \in Stream, ch \in Channel :
    (At(s, "open") /\ stream[s].closed) => member[s][ch] = Nobody

\* "The Redis UNSUBSCRIBE only goes out when the last listener for a channel leaves"
\* (redis.ts:169-170): nobody else is cut off.
OnlyTheLastUnsubscribes == deaf = {}
=============================================================================
