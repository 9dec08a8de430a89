----------------------------- MODULE HubProofs ------------------------------
(***************************************************************************)
(* What a subscriber is sent, for any number of connections and events and *)
(* any sizes of the buffers.                                               *)
(***************************************************************************)
EXTENDS Hub, SequenceTheorems, TLAPS

(***************************************************************************)
(* Runs of a sequence that reach up to its end.                            *)
(***************************************************************************)
From(seq, k) == SubSeq(seq, k, Len(seq))

LEMMA FromElements ==
  ASSUME NEW S, NEW seq \in Seq(S), NEW k \in 1..(Len(seq) + 1)
  PROVE  /\ From(seq, k) \in Seq(S)
         /\ Len(From(seq, k)) = Len(seq) + 1 - k
         /\ \A i \in 1..(Len(seq) + 1 - k) : From(seq, k)[i] = seq[k + i - 1]
<1>1. Len(seq) \in Nat
  OBVIOUS
<1> QED
  BY <1>1 DEF From

\* An event more lengthens every run by that event.
LEMMA FromAppended ==
  ASSUME NEW S, NEW seq \in Seq(S), NEW e \in S, NEW k \in 1..(Len(seq) + 1)
  PROVE  From(Append(seq, e), k) = Append(From(seq, k), e)
<1> DEFINE more == Append(seq, e)
           a == From(more, k)
           b == Append(From(seq, k), e)
           n == Len(seq) + 2 - k
<1>1. /\ Len(seq) \in Nat /\ more \in Seq(S) /\ Len(more) = Len(seq) + 1
      /\ \A i \in 1..Len(seq) : more[i] = seq[i]
      /\ more[Len(seq) + 1] = e
  OBVIOUS
<1>2. From(seq, k) \in Seq(S) /\ Len(From(seq, k)) = Len(seq) + 1 - k
      /\ \A i \in 1..(Len(seq) + 1 - k) : From(seq, k)[i] = seq[k + i - 1]
  BY FromElements
<1> HIDE DEF more
<1>3. a \in Seq(S) /\ Len(a) = n /\ \A i \in 1..n : a[i] = more[k + i - 1]
  BY <1>1, FromElements
<1>4. b \in Seq(S) /\ Len(b) = n /\ b[n] = e /\ \A i \in 1..(n - 1) : b[i] = From(seq, k)[i]
  BY <1>1, <1>2
<1> HIDE DEF a, b
<1>5. ASSUME NEW i \in 1..n PROVE a[i] = b[i]
  <2>1. CASE i = n
    <3>1. k + i - 1 = Len(seq) + 1
      BY <1>1, <2>1
    <3>2. a[i] = more[k + i - 1]
      BY <1>3
    <3>3. b[i] = e
      BY <1>4, <2>1
    <3> QED
      BY <1>1, <3>1, <3>2, <3>3
  <2>2. CASE i # n
    <3>1. i \in 1..(n - 1) /\ i \in 1..(Len(seq) + 1 - k) /\ k + i - 1 \in 1..Len(seq)
      BY <1>1, <2>2
    <3>2. a[i] = more[k + i - 1] /\ more[k + i - 1] = seq[k + i - 1]
      BY <1>1, <1>3, <3>1
    <3>3. b[i] = From(seq, k)[i] /\ From(seq, k)[i] = seq[k + i - 1]
      BY <1>2, <1>4, <3>1
    <3> QED
      BY <3>2, <3>3
  <2> QED
    BY <2>1, <2>2
<1> HIDE DEF n
<1>6. a = b
  BY <1>3, <1>4, <1>5, SeqEqual
<1> QED
  BY <1>6 DEF a, b, more

LEMMA FromFirst == ASSUME NEW S, NEW seq \in Seq(S) PROVE From(seq, 1) = seq
<1> DEFINE a == From(seq, 1)
<1>1. Len(seq) \in Nat
  OBVIOUS
<1>2. a \in Seq(S) /\ Len(a) = Len(seq) /\ \A i \in 1..Len(seq) : a[i] = seq[i]
  BY <1>1, FromElements
<1> HIDE DEF a
<1>3. a = seq
  BY <1>2, SeqEqual
<1> QED
  BY <1>3 DEF a

\* A run of a run.
LEMMA FromFrom ==
  ASSUME NEW S, NEW seq \in Seq(S), NEW k \in 1..(Len(seq) + 1),
         NEW j \in 1..(Len(seq) + 2 - k)
  PROVE  From(From(seq, k), j) = From(seq, k + j - 1)
<1> DEFINE m == From(seq, k)
           a == From(m, j)
           b == From(seq, k + j - 1)
           n == Len(seq) + 2 - k - j
<1>1. Len(seq) \in Nat
  OBVIOUS
<1>2. m \in Seq(S) /\ Len(m) = Len(seq) + 1 - k
      /\ \A i \in 1..(Len(seq) + 1 - k) : m[i] = seq[k + i - 1]
  BY FromElements
<1> HIDE DEF m
<1>3. a \in Seq(S) /\ Len(a) = n /\ \A i \in 1..n : a[i] = m[j + i - 1]
  <2>1. j \in 1..(Len(m) + 1) /\ Len(m) + 1 - j = n
    BY <1>1, <1>2
  <2> QED
    BY <1>2, <2>1, FromElements
<1>4. b \in Seq(S) /\ Len(b) = n /\ \A i \in 1..n : b[i] = seq[k + j - 1 + i - 1]
  <2> DEFINE l == k + j - 1
  <2>1. l \in 1..(Len(seq) + 1) /\ Len(seq) + 1 - l = n
    BY <1>1
  <2> HIDE DEF l
  <2>2. From(seq, l) \in Seq(S) /\ Len(From(seq, l)) = n
        /\ \A i \in 1..n : From(seq, l)[i] = seq[l + i - 1]
    BY <2>1, FromElements
  <2> QED
    BY <2>2 DEF l
<1>5. ASSUME NEW i \in 1..n PROVE a[i] = b[i]
  <2>1. j + i - 1 \in 1..(Len(seq) + 1 - k) /\ k + (j + i - 1) - 1 = k + j - 1 + i - 1
    BY <1>1
  <2> QED
    BY <1>2, <1>3, <1>4, <2>1
<1> HIDE DEF a, b, n
<1>6. a = b
  BY <1>3, <1>4, <1>5, SeqEqual
<1> QED
  BY <1>6 DEF a, b, m

-----------------------------------------------------------------------------
(***************************************************************************)
(* Newest n elements are a run.                                            *)
(***************************************************************************)
NewestFrom(seq, n) == (IF Len(seq) > n THEN Len(seq) - n ELSE 0) + 1

LEMMA NewestIsFrom ==
  ASSUME NEW S, NEW seq \in Seq(S), NEW n \in Nat
  PROVE  /\ NewestFrom(seq, n) \in 1..(Len(seq) + 1)
         /\ Newest(seq, n) = From(seq, NewestFrom(seq, n))
         /\ Newest(seq, n) \in Seq(S)
         /\ Len(Newest(seq, n)) <= n
<1>1. Len(seq) \in Nat
  OBVIOUS
<1>2. NewestFrom(seq, n) \in 1..(Len(seq) + 1)
  BY <1>1 DEF NewestFrom
<1>3. Newest(seq, n) = From(seq, NewestFrom(seq, n))
  <2>1. CASE Len(seq) > n
    BY <2>1 DEF Newest, NewestFrom, From
  <2>2. CASE ~(Len(seq) > n)
    BY <2>2, FromFirst DEF Newest, NewestFrom
  <2> QED
    BY <2>1, <2>2
<1>4. Newest(seq, n) \in Seq(S) /\ Len(Newest(seq, n)) = Len(seq) + 1 - NewestFrom(seq, n)
  BY <1>2, <1>3, FromElements
<1>5. Len(Newest(seq, n)) <= n
  BY <1>1, <1>4 DEF NewestFrom
<1> QED
  BY <1>2, <1>3, <1>4, <1>5

\* Keeping the newest n events one at a time keeps the newest n of all.
LEMMA NewestAppended ==
  ASSUME NEW S, NEW seq \in Seq(S), NEW e \in S, NEW n \in Nat \ {0}
  PROVE  Newest(Append(Newest(seq, n), e), n) = Newest(Append(seq, e), n)
<1> DEFINE all == Append(seq, e)
           k == NewestFrom(seq, n)
           some == Append(Newest(seq, n), e)
<1>1. Len(seq) \in Nat /\ all \in Seq(S) /\ Len(all) = Len(seq) + 1
  OBVIOUS
<1>2. k \in 1..(Len(seq) + 1)
  BY NewestIsFrom
<1>3. some = From(all, k)
  <2>1. Newest(seq, n) = From(seq, k)
    BY NewestIsFrom
  <2> HIDE DEF k
  <2> QED
    BY <1>2, <2>1, FromAppended
<1> HIDE DEF all
<1>4. k \in 1..(Len(all) + 1) /\ some \in Seq(S) /\ Len(some) = Len(all) + 1 - k
  BY <1>1, <1>2, <1>3, FromElements
<1> DEFINE j == NewestFrom(some, n)
<1>5. j \in 1..(Len(some) + 1) /\ Newest(some, n) = From(some, j)
  BY <1>4, NewestIsFrom
<1> HIDE DEF some
<1>6. j \in 1..(Len(all) + 2 - k)
  BY <1>1, <1>2, <1>4, <1>5
<1>7. From(some, j) = From(all, k + j - 1)
  BY <1>1, <1>3, <1>4, <1>6, FromFrom
<1>8. k + j - 1 = NewestFrom(all, n)
  <2>1. CASE Len(seq) > n
    <3>1. k = Len(seq) - n + 1 /\ Len(some) = n + 1
      BY <1>1, <1>4, <2>1 DEF NewestFrom
    <3> QED
      BY <1>1, <2>1, <3>1 DEF NewestFrom
  <2>2. CASE ~(Len(seq) > n)
    <3>1. k = 1 /\ Len(some) = Len(all)
      BY <1>1, <1>4, <2>2 DEF NewestFrom
    <3> QED
      BY <1>1, <2>2, <3>1 DEF NewestFrom
  <2> QED
    BY <2>1, <2>2
<1>9. Newest(all, n) = From(all, NewestFrom(all, n))
  BY <1>1, NewestIsFrom
<1> QED
  BY <1>5, <1>7, <1>8, <1>9 DEF all, some

-----------------------------------------------------------------------------
(***************************************************************************)
(* The three ways an event moves along a stream r \o q \o x: it is         *)
(* published, it is sent, and it is written to the client.                 *)
(***************************************************************************)
LEMMA EventPublished ==
  ASSUME NEW S, NEW p \in Seq(S), NEW e \in S, NEW x \in Seq(S),
         NEW k \in 1..(Len(p) + 1), x = From(p, k)
  PROVE  x \o <<e>> = From(Append(p, e), k)
<1>1. Append(x, e) = x \o <<e>>
  BY AppendIsConcat
<1> QED
  BY <1>1, FromAppended

LEMMA EventSent ==
  ASSUME NEW S, NEW e \in S, NEW r \in Seq(S), NEW q \in Seq(S)
  PROVE  r \o Append(q, e) \o <<>> = r \o q \o <<e>>
<1>1. <<e>> \in Seq(S) /\ Append(q, e) \in Seq(S)
  BY AppendProperties
<1>2. Append(q, e) = q \o <<e>>
  BY AppendIsConcat
<1>3. r \o Append(q, e) \in Seq(S)
  BY <1>1, ConcatProperties
<1>4. r \o Append(q, e) \o <<>> = r \o Append(q, e)
  BY <1>3, ConcatEmptySeq
<1>5. r \o (q \o <<e>>) = r \o q \o <<e>>
  BY <1>1, ConcatAssociative
<1> QED
  BY <1>2, <1>4, <1>5, Zenon

LEMMA EventWritten ==
  ASSUME NEW S, NEW r \in Seq(S), NEW q \in Seq(S), q # <<>>
  PROVE  Append(r, Head(q)) \o Tail(q) = r \o q
<1>1. Head(q) \in S /\ Tail(q) \in Seq(S) /\ <<Head(q)>> \in Seq(S)
  BY HeadTailProperties
<1>2. Append(r, Head(q)) = r \o <<Head(q)>>
  BY <1>1, AppendIsConcat
<1>3. (r \o <<Head(q)>>) \o Tail(q) = r \o (<<Head(q)>> \o Tail(q))
  BY <1>1, ConcatAssociative
<1>4. <<Head(q)>> \o Tail(q) = q
  <2> DEFINE h == <<Head(q)>>
             t == Tail(q)
             a == h \o t
  <2>1. Len(q) \in Nat \ {0} /\ Len(t) = Len(q) - 1 /\ h \in Seq(S) /\ Len(h) = 1
        /\ h[1] = q[1] /\ t \in Seq(S) /\ \A i \in 1..Len(t) : t[i] = q[i + 1]
    BY <1>1, EmptySeq, HeadTailProperties
  <2> HIDE DEF h, t
  <2>2. a \in Seq(S) /\ Len(a) = Len(h) + Len(t)
        /\ \A i \in 1..(Len(h) + Len(t)) : a[i] = IF i <= Len(h) THEN h[i] ELSE t[i - Len(h)]
    BY <2>1, ConcatProperties
  <2> HIDE DEF a
  <2>3. Len(a) = Len(q)
    BY <2>1, <2>2
  <2>4. ASSUME NEW i \in 1..Len(q) PROVE a[i] = q[i]
    <3>1. CASE i = 1
      BY <2>1, <2>2, <3>1
    <3>2. CASE i # 1
      <4>1. i - 1 \in 1..Len(t) /\ ~(i <= Len(h)) /\ i \in 1..(Len(h) + Len(t)) /\ (i - 1) + 1 = i
        BY <2>1, <3>2
      <4>2. a[i] = t[i - 1]
        BY <2>1, <2>2, <4>1
      <4>3. t[i - 1] = q[(i - 1) + 1]
        BY <2>1, <4>1
      <4> QED
        BY <4>1, <4>2, <4>3
    <3> QED
      BY <3>1, <3>2
  <2>5. a = q
    BY <2>2, <2>3, <2>4, SeqEqual
  <2> QED
    BY <2>5 DEF a, h, t
<1> QED
  BY <1>2, <1>3, <1>4, Zenon

-----------------------------------------------------------------------------
(***************************************************************************)
(* Types.  There is an event to send while there are recipients, and a     *)
(* connection that has not subscribed has not been sent anything.          *)
(***************************************************************************)
Connections ==
  /\ Len(published) <= MaxEvents
  /\ recipients # {} => published # <<>>
  /\ \A s \in subscribers : hpc[s] \in {"loop", "leaving"} /\ joined[s] <= Len(published)
  /\ \A s \in Subs : hpc[s] = "new" => received[s] = <<>> /\ s \notin recipients

HubInv == TypeOK /\ Connections

NobodyLeft == \A s \in Subs : hpc[s] \in {"new", "rejected", "loop", "leaving"}

\* What a client that subscribes now finds.
ReplayIsRecent ==
  /\ \E k \in 1..(Len(published) + 1) : replay = From(published, k)
  /\ NobodyLeft => replay = Newest(published, ReplaySize)

StreamInv == ReplayIsRecent /\ StreamIsSuffix /\ FirstListenersSeeReplay

LEMMA HubInvInit == Init => HubInv
<1> SUFFICES ASSUME Init PROVE HubInv
  OBVIOUS
<1>1. TypeOK
  BY HubAssumption DEF Init, TypeOK, HubAssumption, HandlerPoints
<1>2. Connections
  BY HubAssumption DEF Init, Connections, HubAssumption
<1> QED
  BY <1>1, <1>2 DEF HubInv

LEMMA HubInvPublish ==
  ASSUME HubInv, NEW terminal \in BOOLEAN, PublishRecord(terminal)
  PROVE  HubInv'
<1> DEFINE ev == [seq |-> Len(published) + 1, terminal |-> terminal]
<1>1. /\ published \in Seq(EventValues) /\ replay \in Seq(EventValues) /\ Len(published) \in Nat
      /\ Len(published) < MaxEvents
  BY DEF HubInv, TypeOK, PublishRecord
<1>2. ev \in EventValues
  BY <1>1, HubAssumption DEF EventValues, HubAssumption
<1>3. /\ published' = Append(published, ev)
      /\ replay' = Newest(Append(replay, ev), ReplaySize)
      /\ recipients' = subscribers
      /\ UNCHANGED <<subscribers, send, closed, process, hpc, gone, received, joined, dropped>>
  BY DEF PublishRecord
<1> HIDE DEF ev
<1>4. /\ published' \in Seq(EventValues) /\ Len(published') = Len(published) + 1
      /\ published' # <<>>
  BY <1>1, <1>2, <1>3, AppendProperties
<1>5. replay' \in Seq(EventValues) /\ Len(replay') <= ReplaySize
  BY <1>1, <1>2, <1>3, AppendProperties, NewestIsFrom, HubAssumption DEF HubAssumption
<1>6. TypeOK'
  BY <1>3, <1>4, <1>5 DEF HubInv, TypeOK
<1>7. Connections'
  <2>1. \A s \in subscribers : joined[s] \in Nat /\ joined[s] <= Len(published)
    BY HubAssumption DEF HubInv, TypeOK, Connections, HubAssumption
  <2>2. \A s \in subscribers : joined[s] <= Len(published')
    BY <1>1, <1>4, <2>1
  <2>3. Len(published') <= MaxEvents
    BY <1>1, <1>4, HubAssumption DEF HubAssumption
  <2>4. \A s \in Subs : hpc[s] = "new" => s \notin subscribers
    BY DEF HubInv, Connections
  <2> QED
    BY <1>3, <1>4, <2>2, <2>3, <2>4 DEF HubInv, Connections
<1> QED
  BY <1>6, <1>7 DEF HubInv

LEMMA HubInvSend ==
  ASSUME HubInv, NEW s \in Subs, PublishSend(s)
  PROVE  HubInv'
<1>1. s \in recipients /\ published # <<>> /\ published \in Seq(EventValues)
  BY DEF PublishSend, HubInv, Connections, TypeOK
<1>2. Last(published) \in EventValues
  BY <1>1, EmptySeq DEF Last
<1>3. /\ send \in [Subs -> Seq(EventValues)] /\ process' \in {"up", "crashed"}
      /\ dropped' \in SUBSET Subs /\ recipients' = recipients \ {s}
      /\ UNCHANGED <<published, replay, subscribers, closed, hpc, gone, received, joined>>
  BY DEF HubInv, TypeOK, PublishSend
<1>4. send' \in [Subs -> Seq(EventValues)] /\ \A t \in Subs : Len(send'[t]) <= SendCap
  <2>1. send[s] \in Seq(EventValues) /\ \A t \in Subs : Len(send[t]) <= SendCap
    BY <1>3 DEF HubInv, TypeOK
  <2>2. /\ Append(send[s], Last(published)) \in Seq(EventValues)
        /\ Len(Append(send[s], Last(published))) = Len(send[s]) + 1
    BY <1>2, <2>1, AppendProperties
  <2>3. CASE send' = send
    BY <1>3, <2>1, <2>3
  <2>4. CASE send' # send
    <3>1. /\ Len(send[s]) # SendCap
          /\ send' = [send EXCEPT ![s] = Append(send[s], Last(published))]
      BY <2>4 DEF PublishSend
    <3>2. Len(send[s]) + 1 <= SendCap
      BY <2>1, <3>1, HubAssumption DEF HubAssumption
    <3> QED
      BY <1>3, <2>1, <2>2, <3>1, <3>2
  <2> QED
    BY <2>3, <2>4
<1>5. TypeOK'
  BY <1>3, <1>4 DEF HubInv, TypeOK
<1>6. Connections'
  BY <1>1, <1>3 DEF HubInv, Connections
<1> QED
  BY <1>5, <1>6 DEF HubInv

LEMMA HubInvSubscribe ==
  ASSUME HubInv, NEW s \in Subs, Subscribe(s)
  PROVE  HubInv'
<1>1. /\ replay \in Seq(EventValues) /\ hpc \in [Subs -> HandlerPoints]
      /\ send \in [Subs -> Seq(EventValues)] /\ joined \in [Subs -> 0..MaxEvents]
      /\ published \in Seq(EventValues)
  BY DEF HubInv, TypeOK
<1>2. Oldest(replay, SendCap) \in Seq(EventValues) /\ Len(Oldest(replay, SendCap)) <= SendCap
  <2>1. CASE Len(replay) > SendCap
    <3>1. Len(replay) \in Nat /\ SendCap \in 1..Len(replay)
      BY <1>1, <2>1, HubAssumption DEF HubAssumption
    <3>2. /\ SubSeq(replay, 1, SendCap) \in Seq(EventValues)
          /\ Len(SubSeq(replay, 1, SendCap)) = SendCap
      BY <1>1, <3>1
    <3>3. SendCap <= SendCap
      BY HubAssumption DEF HubAssumption
    <3> QED
      BY <2>1, <3>2, <3>3 DEF Oldest
  <2>2. CASE ~(Len(replay) > SendCap)
    <3>1. Len(replay) \in Nat /\ Len(replay) <= SendCap
      BY <1>1, <2>2, HubAssumption DEF HubAssumption
    <3> QED
      BY <1>1, <2>2, <3>1 DEF Oldest
  <2> QED
    BY <2>1, <2>2
<1>3. Len(published) \in 0..MaxEvents
  BY <1>1, HubAssumption DEF HubInv, Connections, HubAssumption
<1>4. /\ hpc[s] = "new" /\ subscribers' = subscribers \union {s}
      /\ send' = [send EXCEPT ![s] = Oldest(replay, SendCap)]
      /\ dropped' \in {dropped, dropped \union {s}}
      /\ joined' = [joined EXCEPT ![s] = Len(published)]
      /\ hpc' = [hpc EXCEPT ![s] = "loop"]
      /\ UNCHANGED <<published, replay, closed, recipients, process, gone, received>>
  BY DEF Subscribe
<1>5. TypeOK'
  BY <1>1, <1>2, <1>3, <1>4 DEF HubInv, TypeOK, HandlerPoints
<1>6. /\ hpc'[s] = "loop" /\ joined'[s] = Len(published)
      /\ \A t \in Subs \ {s} : hpc'[t] = hpc[t] /\ joined'[t] = joined[t]
  BY <1>1, <1>4
<1>7. Len(published) <= Len(published)
  BY <1>3
<1>8. Connections'
  BY <1>4, <1>6, <1>7 DEF HubInv, TypeOK, Connections
<1> QED
  BY <1>5, <1>8 DEF HubInv

\* A handler that goes to another point.
LEMMA HubInvHandler ==
  ASSUME HubInv, NEW s \in Subs,
         \/ Reject(s) \/ ClientGone(s) \/ HandlerTimeout(s) \/ HandlerLeaves(s)
         \/ Unsubscribe(s) \/ CloseSend(s)
  PROVE  HubInv'
<1>1. /\ hpc \in [Subs -> HandlerPoints] /\ published \in Seq(EventValues)
      /\ replay \in Seq(EventValues) /\ TypeOK
  BY DEF HubInv, TypeOK
<1>2. /\ UNCHANGED <<published, send, recipients, process, received, joined, dropped>>
      /\ replay' \in {replay, <<>>} /\ subscribers' \subseteq subscribers
      /\ closed' \in {closed, closed \union {s}} /\ gone' \in {gone, gone \union {s}}
  BY DEF Reject, ClientGone, HandlerTimeout, HandlerLeaves, Unsubscribe, CloseSend
<1>3. /\ hpc' \in [Subs -> HandlerPoints]
      /\ \A t \in Subs \ {s} : hpc'[t] = hpc[t]
      /\ hpc'[s] = "new" => hpc[s] = "new"
      /\ s \in subscribers' => hpc'[s] \in {"loop", "leaving"}
  <2>1. CASE Reject(s)
    BY <1>1, <2>1 DEF Reject, HandlerPoints, HubInv, Connections
  <2>2. CASE ClientGone(s)
    BY <1>1, <2>2 DEF ClientGone, HubInv, Connections
  <2>3. CASE HandlerTimeout(s) \/ HandlerLeaves(s)
    BY <1>1, <2>3 DEF HandlerTimeout, HandlerLeaves, HandlerPoints
  <2>4. CASE Unsubscribe(s)
    BY <1>1, <2>4 DEF Unsubscribe, HandlerPoints
  <2>5. CASE CloseSend(s)
    BY <1>1, <2>5 DEF CloseSend, HandlerPoints, HubInv, Connections
  <2> QED
    BY <2>1, <2>2, <2>3, <2>4, <2>5
<1>4. replay' \in Seq(EventValues) /\ Len(replay') <= ReplaySize
  <2>1. Len(replay) <= ReplaySize /\ 0 <= ReplaySize
    BY <1>1, HubAssumption DEF TypeOK, HubAssumption
  <2> QED
    BY <1>1, <1>2, <2>1, EmptySeq
<1>5. TypeOK'
  BY <1>1, <1>2, <1>3, <1>4 DEF TypeOK
<1>6. Connections'
  BY <1>1, <1>2, <1>3 DEF HubInv, TypeOK, Connections
<1> QED
  BY <1>5, <1>6 DEF HubInv

LEMMA HubInvWrite ==
  ASSUME HubInv, NEW s \in Subs, HandlerWrite(s)
  PROVE  HubInv'
<1>1. /\ hpc \in [Subs -> HandlerPoints] /\ send \in [Subs -> Seq(EventValues)]
      /\ received \in [Subs -> Seq(EventValues)] /\ TypeOK
  BY DEF HubInv, TypeOK
<1>2. /\ hpc[s] = "loop" /\ send[s] # <<>>
      /\ send' = [send EXCEPT ![s] = Tail(send[s])]
      /\ received' = [received EXCEPT ![s] = Append(received[s], Head(send[s]))]
      /\ hpc' = [hpc EXCEPT ![s] = IF Head(send[s]).terminal THEN "leaving" ELSE "loop"]
      /\ UNCHANGED <<published, replay, subscribers, closed, recipients, process, gone, joined,
                     dropped>>
  BY <1>1 DEF HandlerWrite
<1>3. Tail(send[s]) \in Seq(EventValues) /\ Head(send[s]) \in EventValues
  BY <1>1, <1>2, HeadTailProperties
<1>4. Append(received[s], Head(send[s])) \in Seq(EventValues)
  BY <1>1, <1>3, AppendProperties
<1>5. /\ send' \in [Subs -> Seq(EventValues)] /\ received' \in [Subs -> Seq(EventValues)]
      /\ \A t \in Subs : Len(send'[t]) <= SendCap
  <2>1. \A t \in Subs : Len(send[t]) <= SendCap
    BY <1>1 DEF TypeOK
  <2>2. Len(Tail(send[s])) <= SendCap
    <3>1. Len(Tail(send[s])) = Len(send[s]) - 1 /\ Len(send[s]) \in Nat
      BY <1>1, <1>2, HeadTailProperties
    <3> QED
      BY <2>1, <3>1, HubAssumption DEF HubAssumption
  <2> QED
    BY <1>1, <1>2, <1>3, <1>4, <2>1, <2>2
<1>6. /\ hpc' \in [Subs -> HandlerPoints] /\ hpc'[s] \in {"loop", "leaving"}
      /\ \A t \in Subs \ {s} : hpc'[t] = hpc[t] /\ received'[t] = received[t]
  BY <1>1, <1>2 DEF HandlerPoints
<1>7. TypeOK'
  BY <1>1, <1>2, <1>5, <1>6 DEF TypeOK
<1>8. Connections'
  BY <1>1, <1>2, <1>6 DEF HubInv, TypeOK, Connections
<1> QED
  BY <1>7, <1>8 DEF HubInv

LEMMA HubInvNext == HubInv /\ [Next]_vars => HubInv'
<1> SUFFICES ASSUME HubInv, [Next]_vars PROVE HubInv'
  OBVIOUS
<1>1. CASE \E terminal \in BOOLEAN : PublishRecord(terminal)
  BY <1>1, HubInvPublish
<1>2. ASSUME NEW s \in Subs,
             \/ PublishSend(s)
             \/ Reject(s) \/ Subscribe(s) \/ ClientGone(s) \/ HandlerTimeout(s)
             \/ HandlerStep(s)
      PROVE  HubInv'
  BY <1>2, HubInvSend, HubInvSubscribe, HubInvHandler, HubInvWrite DEF HandlerStep
<1>3. CASE UNCHANGED vars
  BY <1>3 DEF HubInv, TypeOK, Connections, vars
<1> QED
  BY <1>1, <1>2, <1>3 DEF Next

LEMMA HubInvariant == Spec => []HubInv
BY HubInvInit, HubInvNext, PTL DEF Spec

(***************************************************************************)
(* Every variable keeps its type, the replay buffer holds at most          *)
(* replaySize events and every send channel at most its capacity           *)
(* (hub.go:81-103, 129-134, 142-147).                                      *)
(***************************************************************************)
THEOREM HubTypeCorrect == Spec => []TypeOK
<1>1. HubInv => TypeOK
  BY DEF HubInv
<1> QED
  BY <1>1, HubInvariant, PTL

-----------------------------------------------------------------------------
(***************************************************************************)
(* The streams.  Any step but its own Subscribe leaves the stream of a     *)
(* connection where it starts and keeps it up to date.                     *)
(***************************************************************************)
\* The events on their way to a connection.
Coming(s) == IF s \in recipients THEN <<Last(published)>> ELSE <<>>

LEMMA StreamParts ==
  ASSUME HubInv, NEW s \in Subs
  PROVE  /\ Stream(s) = received[s] \o send[s] \o Coming(s)
         /\ received[s] \in Seq(EventValues) /\ send[s] \in Seq(EventValues)
         /\ published \in Seq(EventValues) /\ Len(published) \in Nat
BY DEF Stream, Coming, HubInv, TypeOK

LEMMA StreamPublished ==
  ASSUME HubInv, NEW terminal \in BOOLEAN, PublishRecord(terminal),
         NEW s \in subscribers, NEW k \in 1..(Len(published) + 1),
         Stream(s) = From(published, k)
  PROVE  Stream(s)' = From(published', k)
<1> DEFINE ev == [seq |-> Len(published) + 1, terminal |-> terminal]
<1>1. s \in Subs /\ Len(published) < MaxEvents
  BY DEF HubInv, TypeOK, PublishRecord
<1>2. /\ published \in Seq(EventValues) /\ Len(published) \in Nat
      /\ received[s] \in Seq(EventValues) /\ send[s] \in Seq(EventValues)
      /\ Stream(s) = received[s] \o send[s] \o Coming(s)
  BY <1>1, StreamParts
<1>3. ev \in EventValues
  BY <1>1, <1>2, HubAssumption DEF EventValues, HubAssumption
<1>4. /\ published' = Append(published, ev) /\ recipients = {} /\ recipients' = subscribers
      /\ received' = received /\ send' = send
  BY DEF PublishRecord
<1> HIDE DEF ev
<1>5. Last(published') = ev
  BY <1>2, <1>3, <1>4, AppendProperties DEF Last
<1>6. Stream(s)' = received[s] \o send[s] \o <<ev>>
  BY <1>4, <1>5 DEF Stream
<1> DEFINE x == received[s] \o send[s]
<1>7. x \in Seq(EventValues) /\ x \o <<>> = From(published, k)
  BY <1>2, <1>4, ConcatProperties DEF Coming
<1> HIDE DEF x
<1>8. x = From(published, k)
  BY <1>7, ConcatEmptySeq
<1>9. x \o <<ev>> = From(Append(published, ev), k)
  BY <1>2, <1>3, <1>7, <1>8, EventPublished
<1> QED
  BY <1>4, <1>6, <1>9, Zenon DEF x

LEMMA StreamSent ==
  ASSUME HubInv, NEW t \in Subs, PublishSend(t), NEW s \in subscribers \ dropped'
  PROVE  Stream(s)' = Stream(s) /\ published' = published
<1>1. s \in Subs /\ published # <<>> /\ t \in recipients
  BY DEF HubInv, TypeOK, Connections, PublishSend
<1>2. /\ published \in Seq(EventValues) /\ Len(published) \in Nat
      /\ received[s] \in Seq(EventValues) /\ send[s] \in Seq(EventValues)
      /\ Stream(s) = received[s] \o send[s] \o Coming(s)
  BY <1>1, StreamParts
<1>3. /\ published' = published /\ received' = received /\ recipients' = recipients \ {t}
      /\ send' = send \/ send' = [send EXCEPT ![t] = Append(send[t], Last(published))]
  BY DEF PublishSend
<1>4. CASE s # t
  <2>1. send'[s] = send[s] /\ (s \in recipients' <=> s \in recipients)
    BY <1>1, <1>3, <1>4 DEF HubInv, TypeOK
  <2> QED
    BY <1>3, <2>1 DEF Stream
<1>5. CASE s = t
  <2>1. send'[s] = Append(send[s], Last(published)) /\ s \notin recipients' /\ s \in recipients
    BY <1>1, <1>5 DEF PublishSend, HubInv, TypeOK
  <2>2. Last(published) \in EventValues
    BY <1>1, <1>2, EmptySeq DEF Last
  <2>3. Stream(s)' = received[s] \o Append(send[s], Last(published)) \o <<>>
    BY <1>3, <2>1 DEF Stream
  <2>4. Stream(s) = received[s] \o send[s] \o <<Last(published)>>
    BY <1>2, <2>1 DEF Coming
  <2>5. received[s] \o Append(send[s], Last(published)) \o <<>>
          = received[s] \o send[s] \o <<Last(published)>>
    BY <1>2, <2>2, EventSent, Zenon
  <2> QED
    BY <1>3, <2>3, <2>4, <2>5, Zenon
<1> QED
  BY <1>4, <1>5

LEMMA StreamWritten ==
  ASSUME HubInv, NEW t \in Subs, HandlerWrite(t), NEW s \in subscribers
  PROVE  Stream(s)' = Stream(s) /\ published' = published
<1>1. s \in Subs
  BY DEF HubInv, TypeOK
<1>2. /\ received[s] \in Seq(EventValues) /\ send[s] \in Seq(EventValues)
      /\ Stream(s) = received[s] \o send[s] \o Coming(s)
  BY <1>1, StreamParts
<1>3. /\ published' = published /\ recipients' = recipients /\ send[t] # <<>>
      /\ send' = [send EXCEPT ![t] = Tail(send[t])]
      /\ received' = [received EXCEPT ![t] = Append(received[t], Head(send[t]))]
  BY DEF HandlerWrite, HubInv, TypeOK
<1>4. CASE s # t
  <2>1. send'[s] = send[s] /\ received'[s] = received[s]
    BY <1>1, <1>3, <1>4 DEF HubInv, TypeOK
  <2> QED
    BY <1>3, <2>1 DEF Stream
<1>5. CASE s = t
  <2>1. send'[s] = Tail(send[s]) /\ received'[s] = Append(received[s], Head(send[s]))
    BY <1>1, <1>3, <1>5 DEF HubInv, TypeOK
  <2>2. received'[s] \o send'[s] = received[s] \o send[s]
    <3>1. send[s] # <<>>
      BY <1>3, <1>5
    <3>2. Append(received[s], Head(send[s])) \o Tail(send[s]) = received[s] \o send[s]
      BY <1>2, <3>1, EventWritten, Zenon
    <3> QED
      BY <2>1, <3>2, Zenon
  <2>3. Stream(s)' = received'[s] \o send'[s] \o Coming(s)
    BY <1>3 DEF Stream, Coming
  <2> QED
    BY <1>2, <1>3, <2>2, <2>3
<1> QED
  BY <1>4, <1>5

LEMMA StreamGoesOn ==
  ASSUME HubInv, [Next]_vars, NEW s \in Subs, ~Subscribe(s), s \in subscribers' \ dropped'
  PROVE  /\ s \in subscribers \ dropped
         /\ joined'[s] = joined[s]
         /\ \A k \in 1..(Len(published) + 1) : Stream(s) = From(published, k) =>
              k \in 1..(Len(published') + 1) /\ Stream(s)' = From(published', k)
<1>0. published \in Seq(EventValues) /\ Len(published) \in Nat
  BY StreamParts
<1>1. ASSUME NEW terminal \in BOOLEAN, PublishRecord(terminal)
      PROVE  /\ s \in subscribers \ dropped
             /\ joined'[s] = joined[s]
             /\ \A k \in 1..(Len(published) + 1) : Stream(s) = From(published, k) =>
                  k \in 1..(Len(published') + 1) /\ Stream(s)' = From(published', k)
  <2>1. s \in subscribers \ dropped /\ joined'[s] = joined[s]
    BY <1>1 DEF PublishRecord
  <2>2. Len(published') = Len(published) + 1
    BY <1>0, <1>1 DEF PublishRecord
  <2>3. \A k \in 1..(Len(published) + 1) : k \in 1..(Len(published') + 1)
    BY <1>0, <2>2
  <2> QED
    BY <1>1, <2>1, <2>3, StreamPublished
<1>2. ASSUME s \in subscribers \ dropped, joined'[s] = joined[s],
             Stream(s)' = Stream(s), published' = published
      PROVE  /\ s \in subscribers \ dropped
             /\ joined'[s] = joined[s]
             /\ \A k \in 1..(Len(published) + 1) : Stream(s) = From(published, k) =>
                  k \in 1..(Len(published') + 1) /\ Stream(s)' = From(published', k)
  BY <1>2
<1>3. ASSUME NEW t \in Subs, PublishSend(t)
      PROVE  s \in subscribers \ dropped /\ joined'[s] = joined[s]
  BY <1>3 DEF PublishSend
<1>4. ASSUME NEW t \in Subs, HandlerWrite(t)
      PROVE  s \in subscribers \ dropped /\ joined'[s] = joined[s]
  BY <1>4 DEF HandlerWrite
<1>5. ASSUME NEW t \in Subs, t # s, Subscribe(t)
      PROVE  /\ s \in subscribers \ dropped /\ joined'[s] = joined[s]
             /\ Stream(s)' = Stream(s) /\ published' = published
  <2>1. s \in subscribers \ dropped /\ UNCHANGED <<published, received, recipients>>
    BY <1>5 DEF Subscribe
  <2>2. joined'[s] = joined[s] /\ send'[s] = send[s]
    BY <1>5 DEF Subscribe, HubInv, TypeOK
  <2> QED
    BY <2>1, <2>2 DEF Stream
<1>6. ASSUME NEW t \in Subs,
             \/ Reject(t) \/ ClientGone(t) \/ HandlerTimeout(t) \/ HandlerLeaves(t)
             \/ Unsubscribe(t) \/ CloseSend(t)
      PROVE  /\ s \in subscribers \ dropped /\ joined'[s] = joined[s]
             /\ Stream(s)' = Stream(s) /\ published' = published
  <2>1. /\ UNCHANGED <<published, send, recipients, received, joined, dropped>>
        /\ subscribers' \subseteq subscribers
    BY <1>6 DEF Reject, ClientGone, HandlerTimeout, HandlerLeaves, Unsubscribe, CloseSend
  <2> QED
    BY <2>1 DEF Stream
<1>7. CASE UNCHANGED vars
  <2>1. UNCHANGED <<published, send, recipients, received, joined, dropped, subscribers>>
    BY <1>7 DEF vars
  <2> QED
    BY <1>2, <2>1 DEF Stream
<1>8. ASSUME NEW t \in Subs,
             \/ PublishSend(t)
             \/ Reject(t) \/ Subscribe(t) \/ ClientGone(t) \/ HandlerTimeout(t)
             \/ HandlerStep(t)
      PROVE  /\ s \in subscribers \ dropped /\ joined'[s] = joined[s]
             /\ Stream(s)' = Stream(s) /\ published' = published
  <2>1. CASE PublishSend(t)
    BY <1>3, <2>1, StreamSent
  <2>2. CASE HandlerWrite(t)
    BY <1>4, <2>2, StreamWritten
  <2>3. CASE Subscribe(t)
    BY <1>5, <2>3
  <2> QED
    BY <1>6, <1>8, <2>1, <2>2, <2>3 DEF HandlerStep
<1> QED
  BY <1>1, <1>2, <1>7, <1>8 DEF Next

-----------------------------------------------------------------------------

\* Owed(s) is a run from where the client came in.
OwedFrom(s) == (IF joined[s] > ReplaySize THEN joined[s] - ReplaySize ELSE 0) + 1

LEMMA OwedIsFrom ==
  ASSUME HubInv, NEW s \in subscribers
  PROVE  Owed(s) = From(published, OwedFrom(s)) /\ OwedFrom(s) \in 1..(Len(published) + 1)
<1>1. joined[s] \in Nat /\ joined[s] <= Len(published) /\ Len(published) \in Nat
  BY HubAssumption DEF HubInv, TypeOK, Connections, HubAssumption
<1> QED
  BY <1>1, HubAssumption DEF Owed, From, OwedFrom, HubAssumption

LEMMA StreamInvInit == Init => StreamInv
<1> SUFFICES ASSUME Init PROVE StreamInv
  OBVIOUS
<1>1. published = <<>> /\ replay = <<>> /\ subscribers = {}
  BY DEF Init
<1>2. /\ Len(published) = 0 /\ 1 \in 1..(Len(published) + 1) /\ From(published, 1) = <<>>
      /\ Newest(published, ReplaySize) = <<>>
  <2>1. published \in Seq(EventValues) /\ Len(published) = 0
    BY <1>1, EmptySeq
  <2>2. From(published, 1) = published
    BY <2>1, FromFirst
  <2>3. ~(0 > ReplaySize)
    BY HubAssumption DEF HubAssumption
  <2> QED
    BY <1>1, <2>1, <2>2, <2>3 DEF Newest
<1> QED
  BY <1>1, <1>2 DEF StreamInv, ReplayIsRecent, StreamIsSuffix, FirstListenersSeeReplay

LEMMA ReplayNext ==
  ASSUME HubInv, ReplayIsRecent, [Next]_vars
  PROVE  ReplayIsRecent'
<1>0. published \in Seq(EventValues) /\ Len(published) \in Nat /\ replay \in Seq(EventValues)
  BY DEF HubInv, TypeOK
<1>1. ASSUME NEW terminal \in BOOLEAN, PublishRecord(terminal)
      PROVE  ReplayIsRecent'
  <2> DEFINE ev == [seq |-> Len(published) + 1, terminal |-> terminal]
  <2>1. Len(published) < MaxEvents
    BY <1>1 DEF PublishRecord
  <2>2. ev \in EventValues
    BY <1>0, <2>1, HubAssumption DEF EventValues, HubAssumption
  <2>3. /\ published' = Append(published, ev) /\ hpc' = hpc
        /\ replay' = Newest(Append(replay, ev), ReplaySize)
    BY <1>1 DEF PublishRecord
  <2> HIDE DEF ev
  <2>4. published' \in Seq(EventValues) /\ Len(published') = Len(published) + 1
    BY <1>0, <2>2, <2>3, AppendProperties
  <2>5. PICK k \in 1..(Len(published) + 1) : replay = From(published, k)
    BY DEF ReplayIsRecent
  <2>6. Append(replay, ev) = From(published', k)
    BY <1>0, <2>2, <2>3, <2>5, FromAppended
  <2>7. k \in 1..(Len(published') + 1)
    BY <1>0, <2>4
  <2> DEFINE more == From(published', k)
             j == NewestFrom(more, ReplaySize)
  <2>8. more \in Seq(EventValues) /\ Len(more) = Len(published') + 1 - k
    BY <2>4, <2>7, FromElements
  <2>9. j \in 1..(Len(more) + 1) /\ Newest(more, ReplaySize) = From(more, j)
    BY <2>8, NewestIsFrom, HubAssumption DEF HubAssumption
  <2> HIDE DEF j
  <2>10. j \in 1..(Len(published') + 2 - k) /\ k + j - 1 \in 1..(Len(published') + 1)
    BY <1>0, <2>4, <2>8, <2>9
  <2>11. From(more, j) = From(published', k + j - 1)
    BY <2>4, <2>7, <2>10, FromFrom
  <2>12. replay' = From(published', k + j - 1)
    BY <2>3, <2>6, <2>9, <2>11
  <2>13. NobodyLeft' => replay' = Newest(published', ReplaySize)
    <3> SUFFICES ASSUME NobodyLeft' PROVE replay' = Newest(published', ReplaySize)
      OBVIOUS
    <3>1. replay = Newest(published, ReplaySize)
      BY <2>3 DEF ReplayIsRecent, NobodyLeft
    <3> QED
      BY <1>0, <2>2, <2>3, <3>1, NewestAppended, HubAssumption DEF HubAssumption
  <2> QED
    BY <2>10, <2>12, <2>13 DEF ReplayIsRecent
<1>2. ASSUME NEW s \in Subs, Unsubscribe(s)
      PROVE  ReplayIsRecent'
  <2>1. published' = published /\ replay' \in {replay, <<>>} /\ ~NobodyLeft'
    BY <1>2 DEF Unsubscribe, NobodyLeft, HubInv, TypeOK
  <2>2. /\ Len(published) + 1 \in 1..(Len(published) + 1)
        /\ From(published, Len(published) + 1) = <<>>
    BY <1>0, SubSeqEmpty DEF From
  <2> QED
    BY <2>1, <2>2 DEF ReplayIsRecent
<1>3. ASSUME UNCHANGED <<published, replay>>, NobodyLeft' => NobodyLeft
      PROVE  ReplayIsRecent'
  BY <1>3 DEF ReplayIsRecent
<1>4. ASSUME NEW s \in Subs,
             \/ PublishSend(s) \/ Reject(s) \/ Subscribe(s) \/ ClientGone(s)
             \/ HandlerTimeout(s) \/ HandlerWrite(s) \/ HandlerLeaves(s) \/ CloseSend(s)
      PROVE  UNCHANGED <<published, replay>> /\ (NobodyLeft' => NobodyLeft)
  <2>1. UNCHANGED <<published, replay>> /\ hpc \in [Subs -> HandlerPoints]
    BY <1>4 DEF HubInv, TypeOK, PublishSend, Reject, Subscribe, ClientGone, HandlerTimeout,
                HandlerWrite, HandlerLeaves, CloseSend
  <2>2. CASE PublishSend(s) \/ ClientGone(s)
    BY <2>1, <2>2 DEF PublishSend, ClientGone, NobodyLeft
  <2>3. CASE Reject(s) \/ Subscribe(s) \/ HandlerTimeout(s) \/ HandlerWrite(s) \/ HandlerLeaves(s)
    <3>1. /\ hpc[s] \in {"new", "loop"}
          /\ \A t \in Subs \ {s} : hpc'[t] = hpc[t]
      BY <2>1, <2>3 DEF Reject, Subscribe, HandlerTimeout, HandlerWrite, HandlerLeaves
    <3> QED
      BY <2>1, <3>1 DEF NobodyLeft
  <2>4. CASE CloseSend(s)
    BY <2>1, <2>4 DEF CloseSend, NobodyLeft
  <2> QED
    BY <1>4, <2>2, <2>3, <2>4
<1>5. CASE UNCHANGED vars
  BY <1>3, <1>5 DEF vars, NobodyLeft
<1> QED
  BY <1>1, <1>2, <1>3, <1>4, <1>5 DEF Next, HandlerStep

\* A client that subscribes is replayed a run of the events, the newest ones
\* as long as nobody has left.
LEMMA StreamBegins ==
  ASSUME HubInv, ReplayIsRecent, NEW s \in Subs, Subscribe(s), s \notin dropped'
  PROVE  /\ \E k \in 1..(Len(published') + 1) : Stream(s)' = From(published', k)
         /\ NobodyLeft => Stream(s)' = From(published', OwedFrom(s)')
<1>1. /\ replay \in Seq(EventValues) /\ received[s] = <<>> /\ s \notin recipients
      /\ send \in [Subs -> Seq(EventValues)] /\ joined \in [Subs -> 0..MaxEvents]
      /\ published \in Seq(EventValues)
  BY DEF HubInv, TypeOK, Connections, Subscribe
<1>2. /\ UNCHANGED <<published, received, recipients>> /\ ~(Len(replay) > SendCap)
      /\ send' = [send EXCEPT ![s] = Oldest(replay, SendCap)]
      /\ joined' = [joined EXCEPT ![s] = Len(published)]
  BY DEF Subscribe
<1>3. send'[s] = replay /\ joined'[s] = Len(published)
  BY <1>1, <1>2 DEF Oldest
<1>4. Stream(s)' = <<>> \o replay \o <<>>
  BY <1>1, <1>2, <1>3 DEF Stream
<1>5. <<>> \o replay = replay /\ replay \o <<>> = replay
  BY <1>1, ConcatEmptySeq
<1>6. Stream(s)' = replay
  BY <1>4, <1>5, Zenon
<1>7. \E k \in 1..(Len(published') + 1) : Stream(s)' = From(published', k)
  BY <1>2, <1>6 DEF ReplayIsRecent
<1>8. OwedFrom(s)' = NewestFrom(published, ReplaySize)
  BY <1>3 DEF OwedFrom, NewestFrom
<1>9. ASSUME NobodyLeft PROVE Stream(s)' = From(published', OwedFrom(s)')
  <2>1. replay = Newest(published, ReplaySize)
    BY <1>9 DEF ReplayIsRecent
  <2>2. Newest(published, ReplaySize) = From(published, NewestFrom(published, ReplaySize))
    BY <1>1, NewestIsFrom, HubAssumption DEF HubAssumption
  <2> QED
    BY <1>2, <1>6, <1>8, <2>1, <2>2, Zenon
<1> QED
  BY <1>7, <1>9

LEMMA NobodyLeftBefore ==
  ASSUME HubInv, [Next]_vars, NobodyLeft' PROVE NobodyLeft
<1>1. hpc \in [Subs -> HandlerPoints]
  BY DEF HubInv, TypeOK
<1>2. ASSUME NEW s \in Subs, hpc[s] \in {"unsubscribed", "closed"}
      PROVE  hpc'[s] \in {"unsubscribed", "closed"}
  <2>1. CASE hpc' = hpc
    BY <1>2, <2>1
  <2>2. ASSUME NEW t \in Subs,
               \/ Reject(t) \/ Subscribe(t) \/ HandlerTimeout(t) \/ HandlerWrite(t)
               \/ HandlerLeaves(t) \/ Unsubscribe(t)
        PROVE  hpc'[s] = hpc[s]
    <3>1. hpc[t] \in {"new", "loop", "leaving"} /\ \A r \in Subs \ {t} : hpc'[r] = hpc[r]
      BY <1>1, <2>2 DEF Reject, Subscribe, HandlerTimeout, HandlerWrite, HandlerLeaves, Unsubscribe
    <3> QED
      BY <1>2, <3>1
  <2>3. ASSUME NEW t \in Subs, CloseSend(t)
        PROVE  hpc'[s] \in {"unsubscribed", "closed"}
    BY <1>1, <1>2, <2>3 DEF CloseSend
  <2> QED
    BY <1>2, <2>1, <2>2, <2>3
       DEF Next, PublishRecord, PublishSend, ClientGone, HandlerStep, vars
<1> QED
  BY <1>1, <1>2 DEF NobodyLeft, HandlerPoints

LEMMA StreamInvNext == HubInv /\ StreamInv /\ [Next]_vars => StreamInv'
<1> SUFFICES ASSUME HubInv, StreamInv, [Next]_vars PROVE StreamInv'
  OBVIOUS
<1>0. ReplayIsRecent /\ HubInv' /\ subscribers' \subseteq Subs
  BY HubInvNext DEF StreamInv, HubInv, TypeOK
<1>1. ReplayIsRecent'
  BY <1>0, ReplayNext
<1>2. StreamIsSuffix'
  <2> SUFFICES ASSUME NEW s \in Subs, s \in subscribers' \ dropped'
               PROVE  \E k \in 1..(Len(published') + 1) : Stream(s)' = From(published', k)
    BY <1>0 DEF StreamIsSuffix, From
  <2>1. CASE Subscribe(s)
    BY <1>0, <2>1, StreamBegins
  <2>2. CASE ~Subscribe(s)
    <3>1. s \in subscribers \ dropped
      BY <2>2, StreamGoesOn
    <3>2. PICK k \in 1..(Len(published) + 1) : Stream(s) = From(published, k)
      BY <3>1 DEF StreamInv, StreamIsSuffix, From
    <3> QED
      BY <2>2, <3>2, StreamGoesOn
  <2> QED
    BY <2>1, <2>2
<1>3. FirstListenersSeeReplay'
  <2> SUFFICES ASSUME NobodyLeft', NEW s \in Subs, s \in subscribers' \ dropped'
               PROVE  Stream(s)' = Owed(s)'
    BY <1>0 DEF FirstListenersSeeReplay, NobodyLeft
  <2>0. NobodyLeft
    BY NobodyLeftBefore
  <2>1. Owed(s)' = From(published', OwedFrom(s)')
    BY DEF Owed, From, OwedFrom
  <2>2. CASE Subscribe(s)
    BY <1>0, <2>0, <2>1, <2>2, StreamBegins
  <2>3. CASE ~Subscribe(s)
    <3>1. s \in subscribers \ dropped /\ joined'[s] = joined[s]
      BY <2>3, StreamGoesOn
    <3>2. /\ Stream(s) = From(published, OwedFrom(s))
          /\ OwedFrom(s) \in 1..(Len(published) + 1)
      BY <2>0, <3>1, OwedIsFrom DEF StreamInv, FirstListenersSeeReplay, NobodyLeft
    <3>3. Stream(s)' = From(published', OwedFrom(s))
      BY <2>3, <3>2, StreamGoesOn
    <3>4. OwedFrom(s)' = OwedFrom(s)
      BY <3>1 DEF OwedFrom
    <3> QED
      BY <2>1, <3>3, <3>4
  <2> QED
    BY <2>2, <2>3
<1> QED
  BY <1>1, <1>2, <1>3 DEF StreamInv

LEMMA StreamInvariant == Spec => []StreamInv
BY StreamInvInit, StreamInvNext, HubInvariant, PTL DEF Spec

(***************************************************************************)
(* No gap, no duplicate, no reordering: what a subscriber has, has waiting *)
(* and is about to be sent is a run of the published events up to the      *)
(* newest, unless its buffer was full.                                     *)
(***************************************************************************)
THEOREM StreamsAreSuffixes == Spec => []StreamIsSuffix
<1>1. StreamInv => StreamIsSuffix
  BY DEF StreamInv
<1> QED
  BY <1>1, StreamInvariant, PTL

(***************************************************************************)
(* Until a subscriber of the job leaves, each one gets the newest          *)
(* ReplaySize events from before it came and all that follow.              *)
(***************************************************************************)
THEOREM FirstListenersGetReplay == Spec => []FirstListenersSeeReplay
<1>1. StreamInv => FirstListenersSeeReplay
  BY DEF StreamInv
<1> QED
  BY <1>1, StreamInvariant, PTL
=============================================================================
