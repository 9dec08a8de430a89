-------------------------------- MODULE Hub ---------------------------------
(***************************************************************************)
(* The live-progress hub of internal/ws: hub.go's Subscribe, Unsubscribe   *)
(* and Publish, and the connection handler of handler.go.                  *)
(*                                                                         *)
(* The hub keeps its maps per job and shares nothing but the mutex between *)
(* jobs, so this is the slice of one job.  The events of one job come from *)
(* one goroutine after the other (module JobQueue: EventOrder), so there   *)
(* is one publisher.  A critical section of h.mu is one action; Publish    *)
(* sends after it has released the mutex, and Unsubscribe closes the       *)
(* channel after it has.                                                   *)
(***************************************************************************)
EXTENDS Naturals, Sequences, FiniteSets

CONSTANTS
  Subs,        \* the connections that may subscribe to the job
  MaxEvents,   \* how many events the job publishes (at most 8 in the code)
  ReplaySize,  \* h.replaySize (32 in the code)
  SendCap      \* the capacity of Subscriber.Send (32 in the code)

ASSUME HubAssumption ==
  /\ IsFiniteSet(Subs)
  /\ MaxEvents \in Nat
  /\ ReplaySize \in Nat \ {0}
  /\ SendCap \in Nat \ {0}

VARIABLES
  published,    \* every event published so far (history)
  replay,       \* h.replay[job]; empty also stands for no entry
  subscribers,  \* h.subscribers[job]
  send,         \* Subscriber.Send of each connection
  closed,       \* the connections whose Send channel is closed
  recipients,   \* the snapshot Publish still has to send to
  process,      \* "up", or "crashed" by a panic in a goroutine nobody recovers
  hpc,          \* program point of each connection's handler
  gone,         \* the connections whose client has disconnected
  received,     \* the events written to each client
  joined,       \* how many events were published when it subscribed (history)
  dropped       \* the connections that lost an event to a full buffer (history)

vars == <<published, replay, subscribers, send, closed, recipients, process,
          hpc, gone, received, joined, dropped>>

\* Events are numbered; only the terminal kind ("completed" or "failed")
\* means something to the hub.
EventValues == [seq : 1..MaxEvents, terminal : BOOLEAN]
HandlerPoints == {"new", "rejected", "loop", "leaving", "unsubscribed", "closed"}

\* The types, and the limits of the two buffers: the replay of a job never holds
\* more than replaySize events and a send channel never more than its capacity
\* (hub.go:81-103, 129-134, 142-147).
TypeOK ==
  /\ published \in Seq(EventValues)
  /\ replay \in Seq(EventValues)
  /\ Len(replay) <= ReplaySize
  /\ subscribers \in SUBSET Subs
  /\ send \in [Subs -> Seq(EventValues)]
  /\ \A s \in Subs : Len(send[s]) <= SendCap
  /\ closed \in SUBSET Subs
  /\ recipients \in SUBSET Subs
  /\ process \in {"up", "crashed"}
  /\ hpc \in [Subs -> HandlerPoints]
  /\ gone \in SUBSET Subs
  /\ received \in [Subs -> Seq(EventValues)]
  /\ joined \in [Subs -> 0..MaxEvents]
  /\ dropped \in SUBSET Subs

Init ==
  /\ published = <<>>
  /\ replay = <<>>
  /\ subscribers = {}
  /\ send = [s \in Subs |-> <<>>]
  /\ closed = {}
  /\ recipients = {}
  /\ process = "up"
  /\ hpc = [s \in Subs |-> "new"]
  /\ gone = {}
  /\ received = [s \in Subs |-> <<>>]
  /\ joined = [s \in Subs |-> 0]
  /\ dropped = {}

-----------------------------------------------------------------------------
(* Publish *)

Last(seq) == seq[Len(seq)]
Ended == published # <<>> /\ Last(published).terminal

\* Mutant: the replay buffer is trimmed one event too late.
NewestAndOneMore(seq, n) ==
  IF Len(seq) > n + 1 THEN SubSeq(seq, Len(seq) - n, Len(seq)) ELSE seq

\* Mutant: the replay buffer keeps the oldest events.
NewestKeepsOldest(seq, n) == IF Len(seq) > n THEN SubSeq(seq, 1, n) ELSE seq

\* The newest n elements.
Newest(seq, n) == IF Len(seq) > n THEN SubSeq(seq, Len(seq) - n + 1, Len(seq)) ELSE seq

\* The critical section: record for late joiners, snapshot the recipients.
\* The job publishes nothing after its terminal event, and its next event only
\* when the sends of this one are done.
PublishRecord(terminal) ==
  LET ev == [seq |-> Len(published) + 1, terminal |-> terminal] IN
  /\ process = "up"
  /\ recipients = {}
  /\ Len(published) < MaxEvents /\ ~Ended
  /\ published' = Append(published, ev)
  /\ replay' = Newest(Append(replay, ev), ReplaySize)
  /\ recipients' = subscribers
  /\ UNCHANGED <<subscribers, send, closed, process, hpc, gone, received, joined,
                 dropped>>

\* A send without the mutex: dropped if the buffer is full, and a panic if the
\* channel was closed since the snapshot.
PublishSend(s) ==
  /\ process = "up"
  /\ s \in recipients
  /\ process' = IF s \in closed THEN "crashed" ELSE "up"
  /\ IF s \in closed \/ Len(send[s]) = SendCap
       THEN /\ dropped' = dropped \union {s}
            /\ UNCHANGED send
       ELSE /\ send' = [send EXCEPT ![s] = Append(@, Last(published))]
            /\ UNCHANGED dropped
  /\ recipients' = recipients \ {s}
  /\ UNCHANGED <<published, replay, subscribers, closed, hpc, gone, received, joined>>

-----------------------------------------------------------------------------
(* HandleScanWS *)

\* A bad job id, a bad token or a failed upgrade: no subscription.
Reject(s) ==
  /\ process = "up"
  /\ hpc[s] = "new"
  /\ hpc' = [hpc EXCEPT ![s] = "rejected"]
  /\ UNCHANGED <<published, replay, subscribers, send, closed, recipients, process,
                 gone, received, joined, dropped>>

\* The first n elements: what fits into a channel of capacity n.
Oldest(seq, n) == IF Len(seq) > n THEN SubSeq(seq, 1, n) ELSE seq

\* Mutant: the subscriber is registered and nothing is replayed.
SubscribeWithoutReplay(s) ==
  /\ process = "up"
  /\ hpc[s] = "new"
  /\ subscribers' = subscribers \union {s}
  /\ joined' = [joined EXCEPT ![s] = Len(published)]
  /\ hpc' = [hpc EXCEPT ![s] = "loop"]
  /\ UNCHANGED <<published, replay, send, closed, recipients, process, gone,
                 received, dropped>>

\* Registration and replay are one critical section.
Subscribe(s) ==
  /\ process = "up"
  /\ hpc[s] = "new"
  /\ subscribers' = subscribers \union {s}
  /\ send' = [send EXCEPT ![s] = Oldest(replay, SendCap)]
  /\ dropped' = IF Len(replay) > SendCap THEN dropped \union {s} ELSE dropped
  /\ joined' = [joined EXCEPT ![s] = Len(published)]
  /\ hpc' = [hpc EXCEPT ![s] = "loop"]
  /\ UNCHANGED <<published, replay, closed, recipients, process, gone, received>>

\* The read pump fails: the client closed, or let its read deadline pass.
ClientGone(s) ==
  /\ process = "up"
  /\ hpc[s] = "loop" /\ s \notin gone
  /\ gone' = gone \union {s}
  /\ UNCHANGED <<published, replay, subscribers, send, closed, recipients, process,
                 hpc, received, joined, dropped>>

\* Mutant: the write pump goes on after a terminal event.
HandlerWriteGoesOn(s) ==
  /\ process = "up"
  /\ hpc[s] = "loop" /\ send[s] # <<>> /\ s \notin gone
  /\ send' = [send EXCEPT ![s] = Tail(@)]
  /\ received' = [received EXCEPT ![s] = Append(@, Head(send[s]))]
  /\ UNCHANGED <<published, replay, subscribers, closed, recipients, process, hpc,
                 gone, joined, dropped>>

\* The write pump takes an event and writes it; a terminal event ends the stream.
HandlerWrite(s) ==
  /\ process = "up"
  /\ hpc[s] = "loop" /\ send[s] # <<>> /\ s \notin gone
  /\ send' = [send EXCEPT ![s] = Tail(@)]
  /\ received' = [received EXCEPT ![s] = Append(@, Head(send[s]))]
  /\ hpc' = [hpc EXCEPT ![s] = IF Head(send[s]).terminal THEN "leaving" ELSE "loop"]
  /\ UNCHANGED <<published, replay, subscribers, closed, recipients, process, gone, joined,
                 dropped>>

\* clientGone is closed, or a write or a ping to the lost client fails.
HandlerLeaves(s) ==
  /\ process = "up"
  /\ hpc[s] = "loop" /\ s \in gone
  /\ hpc' = [hpc EXCEPT ![s] = "leaving"]
  /\ UNCHANGED <<published, replay, subscribers, send, closed, recipients, process,
                 gone, received, joined, dropped>>

\* The ten minute timer, which runs from the start of the stream.
HandlerTimeout(s) ==
  /\ process = "up"
  /\ hpc[s] = "loop"
  /\ hpc' = [hpc EXCEPT ![s] = "leaving"]
  /\ UNCHANGED <<published, replay, subscribers, send, closed, recipients, process,
                 gone, received, joined, dropped>>

\* The deferred Unsubscribe: its critical section, then closeOnce.
Unsubscribe(s) ==
  /\ process = "up"
  /\ hpc[s] = "leaving"
  /\ subscribers' = subscribers \ {s}
  /\ replay' = IF subscribers = {s} THEN <<>> ELSE replay
  /\ hpc' = [hpc EXCEPT ![s] = "unsubscribed"]
  /\ UNCHANGED <<published, send, closed, recipients, process, gone, received, joined,
                 dropped>>

CloseSend(s) ==
  /\ process = "up"
  /\ hpc[s] = "unsubscribed"
  /\ closed' = closed \union {s}
  /\ hpc' = [hpc EXCEPT ![s] = "closed"]
  /\ UNCHANGED <<published, replay, subscribers, send, recipients, process, gone,
                 received, joined, dropped>>

HandlerStep(s) ==
  HandlerWrite(s) \/ HandlerLeaves(s) \/ Unsubscribe(s) \/ CloseSend(s)

Next ==
  \/ \E terminal \in BOOLEAN : PublishRecord(terminal)
  \/ \E s \in Subs :
       \/ PublishSend(s)
       \/ Reject(s) \/ Subscribe(s) \/ ClientGone(s) \/ HandlerTimeout(s)
       \/ HandlerStep(s)

Spec == Init /\ [][Next]_vars

\* Goroutines that can run do run: a Publish that began sends, a handler serves
\* its select.  Nobody has to connect, disconnect, time out or publish.
Fairness ==
  /\ WF_vars(\E s \in Subs : PublishSend(s))
  /\ \A s \in Subs : WF_vars(HandlerStep(s))

FairSpec == Spec /\ Fairness

-----------------------------------------------------------------------------
(* Properties *)

\* What a connection has got, has waiting, and is about to be sent.
Stream(s) ==
  received[s] \o send[s] \o (IF s \in recipients THEN <<Last(published)>> ELSE <<>>)

\* A subscriber's stream is a run of the published events that reaches up to
\* the newest one: no gap, no duplicate, no reordering, whether an event comes
\* from the replay or live, unless its buffer was full when it was sent one
\* (hub.go:81-103, 123-148).
StreamIsSuffix ==
  \A s \in subscribers \ dropped :
    \E k \in 1..(Len(published) + 1) :
      Stream(s) = SubSeq(published, k, Len(published))

\* What a client that subscribes now is owed: the newest ReplaySize events
\* from before, and everything after.
Owed(s) ==
  SubSeq(published,
         (IF joined[s] > ReplaySize THEN joined[s] - ReplaySize ELSE 0) + 1,
         Len(published))

\* As long as no subscriber of the job has left, every subscriber gets what it
\* is owed (hub.go:81-103, 123-148).  The last one to leave takes the replay
\* buffer with it (hub.go:111-114), so a client that comes, or comes back,
\* after that may find nothing to catch up with.
FirstListenersSeeReplay ==
  (\A s \in Subs : hpc[s] \in {"new", "rejected", "loop", "leaving"}) =>
    \A s \in subscribers \ dropped : Stream(s) = Owed(s)

\* The handler ends its stream after a terminal event that reached it, and
\* cleans up after a client that is gone (handler.go:103-135).
StreamEnds ==
  \A s \in Subs :
    (hpc[s] = "loop" /\ (s \in gone \/ \E i \in DOMAIN send[s] : send[s][i].terminal))
      ~> (hpc[s] = "closed" \/ process = "crashed")

\* "Hub.Publish is no-op if nobody is listening, so this is safe even without
\* subscribers" (queue.go:262-263); "Non-blocking: drops the event if a
\* subscriber's send channel is full" (hub.go:121-122): Publish is safe to call
\* from a worker at any time.  It panics when a subscriber of the snapshot
\* closes its channel before the send, and the panic ends the process.
PublishNeverPanics == process = "up"
=============================================================================
