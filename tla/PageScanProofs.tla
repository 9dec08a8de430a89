--------------------------- MODULE PageScanProofs ---------------------------
(***************************************************************************)
(* Proofs about PageScan: its types, that a scan that returns has a whole  *)
(* result, and that the loops of PageAnalysis compute what their reference *)
(* definitions say, for any pages, texts, caps, record types, endpoints    *)
(* and fingerprints.                                                       *)
(***************************************************************************)
EXTENDS PageScan, FiniteSetTheorems, SequenceTheorems, WellFoundedInduction, TLAPS

-----------------------------------------------------------------------------
(***************************************************************************)
(* The enrichment.  Every record type is in one place: its query is at an  *)
(* endpoint, or its answer is in the channel, or it has been received.     *)
(***************************************************************************)
Asked(t) == endpoint[t] > 0
Sent(t) == \E i \in DOMAIN resCh : resCh[i].type = t
Got(t) == \E a \in received : a.type = t

EnrichTyped ==
  /\ endpoint \in [Types -> 0..Endpoints]
  /\ resCh \in Seq(Answer)
  /\ received \in SUBSET Answer
  /\ epc \in {"idle", "dns", "whois", "end"}
  /\ spc \in {"idle", "dial", "end"}
  /\ dns \in Fields /\ whois \in Fields /\ ssl \in Fields

OncePerType ==
  /\ \A i, j \in DOMAIN resCh : resCh[i].type = resCh[j].type => i = j
  /\ \A a, b \in received : a.type = b.type => a = b
  /\ \A t \in Types : /\ ~(Asked(t) /\ Sent(t))
                      /\ ~(Asked(t) /\ Got(t))
                      /\ ~(Sent(t) /\ Got(t))

\* The outcome of QueryDNS, once every type has been received.
Outcome == IF \A a \in received : ~a.ok THEN "error" ELSE "ok"

EnrichProgress ==
  /\ point \notin {"wait", "returned"} => epc = "idle" /\ spc = "idle"
  /\ point = "wait" => page.host /\ epc # "idle" /\ spc # "idle"
  /\ point = "returned" /\ page.host => epc = "end" /\ spc = "end"
  /\ point = "returned" /\ ~page.host => epc = "idle" /\ spc = "idle"
  /\ epc = "idle" => (\A t \in Types : ~Asked(t)) /\ resCh = <<>> /\ received = {}
  /\ epc = "dns" => \A t \in Types : Asked(t) \/ Sent(t) \/ Got(t)
  /\ epc \in {"whois", "end"} => (\A t \in Types : Got(t)) /\ dns = Outcome
  /\ epc = "end" => whois # "nil"
  /\ spc = "end" => ssl # "nil"

EnrichInv == EnrichTyped /\ OncePerType /\ EnrichProgress

-----------------------------------------------------------------------------
(* Steps of the enrichment *)

LEMMA AnswerFields ==
  ASSUME NEW t \in Types, NEW ok \in BOOLEAN
  PROVE  /\ [type |-> t, ok |-> ok] \in Answer
         /\ [type |-> t, ok |-> ok].type = t
BY DEF Answer

\* A query of one type ends: its answer goes to the end of the channel.
LEMMA QueryEnds ==
  ASSUME EnrichInv, NEW t \in Types, NEW ok \in BOOLEAN, Asked(t),
         endpoint' = [endpoint EXCEPT ![t] = 0],
         resCh' = Append(resCh, [type |-> t, ok |-> ok]),
         UNCHANGED <<Scanned, received, epc, spc, dns, whois, ssl>>
  PROVE  EnrichInv'
<1> DEFINE a == [type |-> t, ok |-> ok]
           n == Len(resCh)
<1>0. a \in Answer /\ a.type = t
  BY AnswerFields
<1>1. resCh' = Append(resCh, a)
  OBVIOUS
<1> HIDE DEF a
<1>2. EnrichTyped'
  <2>1. resCh' \in Seq(Answer)
    BY <1>0, <1>1 DEF EnrichInv, EnrichTyped
  <2>2. endpoint' \in [Types -> 0..Endpoints]
    BY PageScanAssumption DEF EnrichInv, EnrichTyped, PageScanAssumption
  <2> QED
    BY <2>1, <2>2 DEF EnrichInv, EnrichTyped
<1>3. /\ resCh \in Seq(Answer) /\ n \in Nat /\ DOMAIN resCh = 1..n
      /\ DOMAIN resCh' = 1..(n + 1) /\ resCh'[n + 1] = a
      /\ \A i \in 1..n : resCh'[i] = resCh[i]
  BY <1>0, <1>1 DEF EnrichInv, EnrichTyped
<1> HIDE DEF n
<1>4. \A u \in Types : Sent(u)' <=> Sent(u) \/ u = t
  BY <1>0, <1>3 DEF Sent
<1>5. \A u \in Types : Asked(u)' <=> Asked(u) /\ u # t
  BY DEF EnrichInv, EnrichTyped, Asked
<1>6. \A u \in Types : Got(u)' <=> Got(u)
  BY DEF Got
<1>7. ~Sent(t) /\ ~Got(t) /\ epc = "dns"
  BY DEF EnrichInv, OncePerType, EnrichProgress, EnrichTyped, Asked
<1>8. \A i, j \in DOMAIN resCh' : resCh'[i].type = resCh'[j].type => i = j
  <2>1. ASSUME NEW i \in 1..n PROVE resCh'[i].type # t
    BY <1>3, <1>7, <2>1 DEF Sent
  <2>2. \A i, j \in 1..n : resCh'[i].type = resCh'[j].type => i = j
    BY <1>3 DEF EnrichInv, OncePerType
  <2>3. \A i \in DOMAIN resCh' : i \in 1..n \/ i = n + 1
    BY <1>3
  <2> QED
    BY <1>0, <1>3, <2>1, <2>2, <2>3
<1>9. OncePerType'
  BY <1>4, <1>5, <1>6, <1>7, <1>8 DEF EnrichInv, OncePerType
<1>10. EnrichProgress'
  BY <1>4, <1>5, <1>6, <1>7 DEF EnrichInv, EnrichProgress, Scanned
<1> QED
  BY <1>2, <1>9, <1>10 DEF EnrichInv

\* A query goes to its next endpoint.
LEMMA QueryGoesOn ==
  ASSUME EnrichInv, NEW t \in Types, QueryNextEndpoint(t)
  PROVE  EnrichInv'
<1>1. /\ endpoint \in [Types -> 0..Endpoints] /\ Endpoints \in Nat
      /\ endpoint[t] \in 1..(Endpoints - 1)
      /\ endpoint' = [endpoint EXCEPT ![t] = @ + 1]
      /\ UNCHANGED <<Scanned, resCh, received, epc, spc, dns, whois, ssl>>
  BY PageScanAssumption
  DEF QueryNextEndpoint, EnrichInv, EnrichTyped, PageScanAssumption
<1>2. endpoint' \in [Types -> 0..Endpoints]
  BY <1>1
<1>3. \A u \in Types : Asked(u)' <=> Asked(u)
  BY <1>1 DEF Asked
<1>4. \A u \in Types : (Sent(u)' <=> Sent(u)) /\ (Got(u)' <=> Got(u))
  BY <1>1 DEF Sent, Got
<1>5. EnrichTyped'
  BY <1>1, <1>2 DEF EnrichInv, EnrichTyped
<1>6. OncePerType'
  BY <1>1, <1>3, <1>4 DEF EnrichInv, OncePerType
<1>7. Outcome' = Outcome
  BY <1>1 DEF Outcome
<1>8. EnrichProgress'
  BY <1>1, <1>3, <1>4, <1>7 DEF EnrichInv, EnrichProgress, Scanned
<1> QED
  BY <1>5, <1>6, <1>8 DEF EnrichInv

\* QueryDNS takes the first answer from the channel.
LEMMA AnswerReceived ==
  ASSUME EnrichInv, DnsReceive
  PROVE  EnrichInv'
<1> DEFINE a == Head(resCh)
           n == Len(resCh)
<1>1. /\ epc = "dns" /\ resCh # <<>> /\ resCh \in Seq(Answer)
      /\ received' = received \union {a} /\ resCh' = Tail(resCh)
      /\ UNCHANGED <<Scanned, endpoint, epc, spc, dns, whois, ssl>>
  BY DEF DnsReceive, EnrichInv, EnrichTyped
<1>2. /\ n \in Nat /\ n > 0 /\ DOMAIN resCh = 1..n /\ resCh[1] = a /\ a \in Answer
      /\ resCh' \in Seq(Answer) /\ DOMAIN resCh' = 1..(n - 1)
      /\ \A i \in 1..(n - 1) : resCh'[i] = resCh[i + 1]
  BY <1>1
<1> HIDE DEF a, n
<1>3. EnrichTyped'
  BY <1>1, <1>2 DEF EnrichInv, EnrichTyped
<1>4. /\ \A i, j \in 1..n : resCh[i].type = resCh[j].type => i = j
      /\ \A b, c \in received : b.type = c.type => b = c
      /\ a.type \in Types /\ Sent(a.type) /\ ~Got(a.type) /\ ~Asked(a.type)
  BY <1>2 DEF EnrichInv, OncePerType, Answer, Sent
<1>5. \A u \in Types : Sent(u)' <=> Sent(u) /\ u # a.type
  <2>1. ASSUME NEW u \in Types, Sent(u)' PROVE Sent(u) /\ u # a.type
    <3>1. PICK i \in 1..(n - 1) : resCh'[i].type = u
      BY <1>2, <2>1 DEF Sent
    <3>2. i + 1 \in 1..n /\ i + 1 # 1 /\ resCh[i + 1].type = u /\ 1 \in 1..n
      BY <1>2, <3>1
    <3> QED
      BY <1>2, <1>4, <3>2 DEF Sent
  <2>2. ASSUME NEW u \in Types, Sent(u), u # a.type PROVE Sent(u)'
    <3>1. PICK i \in 1..n : resCh[i].type = u
      BY <1>2, <2>2 DEF Sent
    <3>2. i # 1
      BY <1>2, <2>2, <3>1
    <3>3. i - 1 \in 1..(n - 1) /\ (i - 1) + 1 = i
      BY <1>2, <3>1, <3>2
    <3>4. resCh'[i - 1] = resCh[i]
      BY <1>2, <3>3
    <3> QED
      BY <1>2, <3>1, <3>3, <3>4 DEF Sent
  <2> QED
    BY <2>1, <2>2
<1>6. \A u \in Types : Got(u)' <=> Got(u) \/ u = a.type
  BY <1>1 DEF Got
<1>7. \A u \in Types : Asked(u)' <=> Asked(u)
  BY <1>1 DEF Asked
<1>8. \A i, j \in DOMAIN resCh' : resCh'[i].type = resCh'[j].type => i = j
  <2> SUFFICES ASSUME NEW i \in 1..(n - 1), NEW j \in 1..(n - 1),
                      resCh'[i].type = resCh'[j].type
               PROVE  i = j
    BY <1>2
  <2>1. i + 1 \in 1..n /\ j + 1 \in 1..n /\ resCh[i + 1].type = resCh[j + 1].type
    BY <1>2
  <2>2. i + 1 = j + 1
    BY <1>4, <2>1
  <2> QED
    BY <2>2
<1>9. \A b, c \in received' : b.type = c.type => b = c
  <2>1. \A b \in received : b.type # a.type
    BY <1>4 DEF Got
  <2> QED
    BY <1>1, <1>4, <2>1
<1>10. OncePerType'
  BY <1>4, <1>5, <1>6, <1>7, <1>8, <1>9 DEF EnrichInv, OncePerType
<1>11. EnrichProgress'
  BY <1>1, <1>5, <1>6, <1>7 DEF EnrichInv, EnrichProgress, Scanned
<1> QED
  BY <1>3, <1>10, <1>11 DEF EnrichInv

\* As many answers as types, and no two of one type: every type has one.
LEMMA AllReceived ==
  ASSUME EnrichInv, Cardinality(received) = Cardinality(Types)
  PROVE  \A t \in Types : Got(t)
<1> DEFINE f == [a \in received |-> a.type]
<1>1. received \in SUBSET Answer /\ \A a, b \in received : a.type = b.type => a = b
  BY DEF EnrichInv, EnrichTyped, OncePerType
<1>2. IsFiniteSet(Types) /\ Cardinality(Types) \in Nat
  BY PageScanAssumption, FS_CardinalityType DEF PageScanAssumption
<1>3. f \in Injection(received, Types)
  BY <1>1 DEF Injection, IsInjective, Answer
<1>4. f \in Surjection(received, Types)
  <2> HIDE DEF f
  <2> QED
    BY <1>2, <1>3, FS_Injection
<1> QED
  BY <1>4 DEF Got, Surjection

\* QueryDNS has its results; then WHOIS ends, and beside them the TLS query.
LEMMA EnrichEnds ==
  ASSUME EnrichInv, DnsDone \/ WhoisDone \/ SslDone
  PROVE  EnrichInv'
<1>1. /\ UNCHANGED <<endpoint, resCh, received>>
      /\ UNCHANGED <<point, page>>
  BY DEF DnsDone, WhoisDone, SslDone, Scanned
<1>2. \A u \in Types : /\ Asked(u)' <=> Asked(u)
                       /\ Sent(u)' <=> Sent(u)
                       /\ Got(u)' <=> Got(u)
  BY <1>1 DEF Asked, Sent, Got
<1>3. Outcome' = Outcome
  BY <1>1 DEF Outcome
<1>4. OncePerType'
  BY <1>1, <1>2 DEF EnrichInv, OncePerType
<1>5. EnrichTyped /\ EnrichProgress
  BY DEF EnrichInv
<1>6. CASE DnsDone
  <2>1. /\ epc = "dns" /\ epc' = "whois" /\ dns' = Outcome
        /\ UNCHANGED <<spc, whois, ssl>>
    BY <1>6 DEF DnsDone, Outcome
  <2>2. \A t \in Types : Got(t)
    BY <1>6, AllReceived DEF DnsDone
  <2>3. EnrichTyped'
    BY <1>1, <1>5, <2>1 DEF EnrichTyped, Outcome, Fields
  <2>4. EnrichProgress'
    BY <1>1, <1>2, <1>3, <1>5, <2>1, <2>2 DEF EnrichProgress
  <2> QED
    BY <1>4, <2>3, <2>4 DEF EnrichInv
<1>7. CASE WhoisDone
  <2>1. /\ epc = "whois" /\ epc' = "end" /\ whois' \in {"ok", "error"}
        /\ UNCHANGED <<spc, dns, ssl>>
    BY <1>7 DEF WhoisDone
  <2>3. EnrichTyped'
    BY <1>1, <1>5, <2>1 DEF EnrichTyped, Fields
  <2>4. EnrichProgress'
    BY <1>1, <1>2, <1>3, <1>5, <2>1 DEF EnrichProgress
  <2> QED
    BY <1>4, <2>3, <2>4 DEF EnrichInv
<1>8. CASE SslDone
  <2>1. /\ spc = "dial" /\ spc' = "end" /\ ssl' \in {"ok", "error"}
        /\ UNCHANGED <<epc, dns, whois>>
    BY <1>8 DEF SslDone
  <2>3. EnrichTyped'
    BY <1>1, <1>5, <2>1 DEF EnrichTyped, Fields
  <2>4. EnrichProgress'
    BY <1>1, <1>2, <1>3, <1>5, <2>1 DEF EnrichProgress
  <2> QED
    BY <1>4, <2>3, <2>4 DEF EnrichInv
<1> QED
  BY <1>6, <1>7, <1>8

\* enrichResult starts both goroutines and a query of each type.
LEMMA EnrichStarts ==
  ASSUME EnrichInv, Enrich
  PROVE  EnrichInv'
<1>1. /\ point = "enrich" /\ page.host /\ point' = "wait" /\ page' = page
      /\ endpoint' = [t \in Types |-> 1] /\ epc' = "dns" /\ spc' = "dial"
      /\ UNCHANGED <<resCh, received, dns, whois, ssl>>
  BY DEF Enrich
<1>2. EnrichTyped /\ OncePerType /\ EnrichProgress
  BY DEF EnrichInv
<1>3. resCh = <<>> /\ received = {}
  BY <1>1, <1>2 DEF EnrichProgress
<1>4. \A u \in Types : Asked(u)' /\ ~Sent(u)' /\ ~Got(u)'
  BY <1>1, <1>3 DEF Asked, Sent, Got
<1>5. EnrichTyped'
  BY <1>1, <1>2, PageScanAssumption DEF EnrichTyped, PageScanAssumption
<1>6. OncePerType'
  BY <1>1, <1>2, <1>4 DEF OncePerType
<1>7. EnrichProgress'
  BY <1>1, <1>4 DEF EnrichProgress
<1> QED
  BY <1>5, <1>6, <1>7 DEF EnrichInv

\* The steps of ScanURL that leave the enrichment alone.
LEMMA EnrichElsewhere ==
  ASSUME EnrichInv, UNCHANGED enrichVars,
         \/ UNCHANGED <<point, page>>
         \/ point \notin {"wait", "returned"} /\ point' \notin {"wait", "returned"}
         \/ EnrichNothing
         \/ EnrichJoin
  PROVE  EnrichInv'
<1>1. UNCHANGED <<endpoint, resCh, received, epc, spc, dns, whois, ssl>>
  BY DEF enrichVars
<1>2. EnrichTyped /\ OncePerType /\ EnrichProgress
  BY DEF EnrichInv
<1>3. \A u \in Types : /\ Asked(u)' <=> Asked(u)
                       /\ Sent(u)' <=> Sent(u)
                       /\ Got(u)' <=> Got(u)
  BY <1>1 DEF Asked, Sent, Got
<1>4. Outcome' = Outcome
  BY <1>1 DEF Outcome
<1>5. EnrichTyped'
  BY <1>1, <1>2 DEF EnrichTyped
<1>6. OncePerType'
  BY <1>1, <1>2, <1>3 DEF OncePerType
<1>7. CASE UNCHANGED <<point, page>>
  <2>1. EnrichProgress'
    BY <1>1, <1>2, <1>3, <1>4, <1>7 DEF EnrichProgress
  <2> QED
    BY <1>5, <1>6, <2>1 DEF EnrichInv
<1>8. CASE point \notin {"wait", "returned"} /\ point' \notin {"wait", "returned"}
  <2>1. EnrichProgress'
    BY <1>1, <1>2, <1>3, <1>4, <1>8 DEF EnrichProgress
  <2> QED
    BY <1>5, <1>6, <2>1 DEF EnrichInv
<1>9. CASE EnrichNothing
  <2>1. point = "enrich" /\ point' = "returned" /\ ~page.host /\ page' = page
    BY <1>9 DEF EnrichNothing
  <2>2. EnrichProgress'
    BY <1>1, <1>2, <1>3, <1>4, <2>1 DEF EnrichProgress
  <2> QED
    BY <1>5, <1>6, <2>2 DEF EnrichInv
<1>10. CASE EnrichJoin
  <2>1. /\ point = "wait" /\ point' = "returned" /\ page' = page
        /\ epc = "end" /\ spc = "end"
    BY <1>10 DEF EnrichJoin
  <2>2. EnrichProgress'
    BY <1>1, <1>2, <1>3, <1>4, <2>1 DEF EnrichProgress
  <2> QED
    BY <1>5, <1>6, <2>2 DEF EnrichInv
<1> QED
  BY <1>7, <1>8, <1>9, <1>10

\* Before the first step nothing has been asked.
LEMMA EnrichInvInit == Init => EnrichInv
<1> SUFFICES ASSUME Init PROVE EnrichInv
  OBVIOUS
<1>1. /\ point = "load" /\ epc = "idle" /\ spc = "idle"
      /\ endpoint = [t \in Types |-> 0] /\ resCh = <<>> /\ received = {}
      /\ dns = "nil" /\ whois = "nil" /\ ssl = "nil"
  BY DEF Init
<1>2. \A u \in Types : ~Asked(u) /\ ~Sent(u) /\ ~Got(u)
  BY <1>1 DEF Asked, Sent, Got
<1>3. EnrichTyped
  BY <1>1, PageScanAssumption DEF EnrichTyped, PageScanAssumption, Fields
<1>4. OncePerType
  BY <1>1, <1>2 DEF OncePerType
<1>5. EnrichProgress
  BY <1>1, <1>2 DEF EnrichProgress
<1> QED
  BY <1>3, <1>4, <1>5 DEF EnrichInv

\* Every step keeps the invariant of the enrichment.
LEMMA EnrichInvNext == EnrichInv /\ [Next]_vars => EnrichInv'
<1> SUFFICES ASSUME EnrichInv, [Next]_vars PROVE EnrichInv'
  OBVIOUS
<1>1. CASE UNCHANGED vars
  BY <1>1, EnrichElsewhere DEF vars
<1>2. CASE MainStep
  <2>1. CASE Enrich
    BY <2>1, EnrichStarts
  <2>2. CASE EnrichNothing \/ EnrichJoin
    BY <2>2, EnrichElsewhere DEF EnrichNothing, EnrichJoin
  <2>3. CASE \/ \E p \in Pages : Load(p)
             \/ LoadFails \/ Detect \/ MainEmails \/ CrawlEnds \/ CrawlPage \/ CrawlJoin
    <3>1. UNCHANGED enrichVars
      BY <2>3 DEF Load, LoadFails, Detect, MainEmails, CrawlEnds, CrawlPage, CrawlJoin
    <3>2. point \notin {"wait", "returned"} /\ point' \notin {"wait", "returned"}
      BY <2>3 DEF Load, LoadFails, Detect, MainEmails, CrawlEnds, CrawlPage, CrawlJoin
    <3> QED
      BY <3>1, <3>2, EnrichElsewhere
  <2> QED
    BY <1>2, <2>1, <2>2, <2>3 DEF MainStep
<1>3. CASE \E g \in Strategies : CrawlStep(g)
  <2>1. PICK g \in Strategies : CrawlStep(g)
    BY <1>3
  <2>2. UNCHANGED Unshared
    BY <2>1 DEF CrawlStep, Fetched, FetchFails, MergeSkips, MergeChecked, AppendLoad,
                AppendStore, Appended, MergeEnds
  <2> QED
    BY <2>2, EnrichElsewhere DEF Unshared
<1>4. CASE \E t \in Types : QueryStep(t)
  <2>1. PICK t \in Types : QueryStep(t)
    BY <1>4
  <2>2. endpoint \in [Types -> 0..Endpoints] /\ Endpoints \in Nat \ {0}
    BY PageScanAssumption DEF EnrichInv, EnrichTyped, PageScanAssumption
  <2>3. CASE QueryAnswered(t)
    BY <2>2, <2>3, QueryEnds DEF QueryAnswered, Asked
  <2>4. CASE QueryNextEndpoint(t)
    BY <2>4, QueryGoesOn
  <2>5. CASE QueryFails(t)
    <3>1. /\ Asked(t)
          /\ endpoint' = [endpoint EXCEPT ![t] = 0]
          /\ resCh' = Append(resCh, [type |-> t, ok |-> FALSE])
          /\ UNCHANGED <<Scanned, received, epc, spc, dns, whois, ssl>>
      BY <2>2, <2>5 DEF QueryFails, Asked
    <3> QED
      BY <3>1, QueryEnds
  <2> QED
    BY <2>1, <2>3, <2>4, <2>5 DEF QueryStep
<1>5. CASE DnsReceive
  BY <1>5, AnswerReceived
<1>6. CASE DnsDone \/ WhoisDone \/ SslDone
  BY <1>6, EnrichEnds
<1> QED
  BY <1>1, <1>2, <1>3, <1>4, <1>5, <1>6 DEF Next, EnrichStep

-----------------------------------------------------------------------------
(***************************************************************************)
(* The crawl.                                                              *)
(***************************************************************************)
Found == UNION Texts
Appending == {"append", "store", "storing"}

CrawlTyped ==
  /\ page \in Pages \union {NoPage}
  /\ point \in {"load", "detect", "emails", "crawl", "join", "enrich", "wait",
                "returned", "failed"}
  /\ emails \in Seq(Found \union page.text)
  /\ gpc \in [Strategies -> {"fetch", "merge", "append", "store", "storing", "end"}]
  /\ todo \in [Strategies -> Seq(Found)]
  /\ copy \in [Strategies -> Seq(Found)]
  /\ torn \in BOOLEAN

CrawlProgress ==
  /\ point \in {"load", "detect", "emails"} => emails = <<>>
  /\ point # "join" => \A g \in Strategies : gpc[g] = "end"
  /\ point = "join" => emails \in Seq(Found)
  /\ \A g \in Strategies :
       /\ IsInjective(todo[g]) /\ Len(todo[g]) <= MaxEmails
       /\ gpc[g] \in {"fetch", "end"} => todo[g] = <<>>
       /\ gpc[g] \in Appending => todo[g] # <<>>

CrawlInv == CrawlTyped /\ CrawlProgress

-----------------------------------------------------------------------------
(***************************************************************************)
(* The addresses of a text, sorted.  A finite set of numbers has an        *)
(* ascending order: every element has its place, the number of elements    *)
(* up to it, and the places are all those from one to the size of the set. *)
(***************************************************************************)
LEMMA PlacesAreTaken ==
  ASSUME NEW S \in SUBSET Nat, IsFiniteSet(S)
  PROVE  \E place \in Surjection(S, 1..Cardinality(S)) :
           \A e, f \in S : e < f => place[e] < place[f]
<1> DEFINE UpTo(e) == {f \in S : f <= e}
           place == [e \in S |-> Cardinality(UpTo(e))]
           n == Cardinality(S)
<1>1. n \in Nat /\ IsFiniteSet(1..n) /\ Cardinality(1..n) = n
  BY FS_CardinalityType, FS_Interval
<1>2. ASSUME NEW e \in S
      PROVE  /\ IsFiniteSet(UpTo(e)) /\ Cardinality(UpTo(e)) \in Nat
             /\ Cardinality(UpTo(e)) \in 1..n
  <2>1. UpTo(e) \in SUBSET S /\ UpTo(e) # {}
    OBVIOUS
  <2> HIDE DEF UpTo
  <2>2. IsFiniteSet(UpTo(e)) /\ Cardinality(UpTo(e)) <= n
    BY <2>1, FS_Subset
  <2>3. Cardinality(UpTo(e)) \in Nat /\ Cardinality(UpTo(e)) # 0
    BY <2>1, <2>2, FS_CardinalityType, FS_EmptySet
  <2> QED
    BY <1>1, <2>2, <2>3
<1>3. ASSUME NEW e \in S, NEW f \in S, e < f
      PROVE  Cardinality(UpTo(e)) < Cardinality(UpTo(f))
  <2>0. e \in Nat /\ f \in Nat
    OBVIOUS
  <2>1. UpTo(e) \in SUBSET UpTo(f) /\ f \in UpTo(f) /\ f \notin UpTo(e)
    <3>1. \A x \in Nat : x <= e => x <= f
      BY <1>3, <2>0
    <3>2. f <= f /\ ~(f <= e)
      BY <1>3, <2>0
    <3> QED
      BY <3>1, <3>2
  <2> HIDE DEF UpTo
  <2>2. IsFiniteSet(UpTo(f)) /\ Cardinality(UpTo(e)) \in Nat /\ Cardinality(UpTo(f)) \in Nat
    BY <1>2
  <2>3. /\ Cardinality(UpTo(e)) <= Cardinality(UpTo(f))
        /\ Cardinality(UpTo(f)) = Cardinality(UpTo(e)) => UpTo(f) = UpTo(e)
    BY <2>1, <2>2, FS_Subset
  <2> QED
    BY <2>1, <2>2, <2>3
<1>4. place \in [S -> 1..n]
  BY <1>2
<1>5. \A e, f \in S : e < f => place[e] < place[f]
  BY <1>3
<1> HIDE DEF place, n, UpTo
<1>6. place \in Injection(S, 1..n)
  <2>1. \A e, f \in S : place[e] = place[f] => e = f
    <3> SUFFICES ASSUME NEW e \in S, NEW f \in S, e # f PROVE place[e] # place[f]
      OBVIOUS
    <3>1. e \in Nat /\ f \in Nat /\ place[e] \in 1..n /\ place[f] \in 1..n
      BY <1>4
    <3>2. e < f \/ f < e
      BY <3>1
    <3>3. place[e] < place[f] \/ place[f] < place[e]
      BY <1>5, <3>2
    <3> QED
      BY <1>1, <3>1, <3>3
  <2> QED
    BY <1>4, <2>1 DEF Injection, IsInjective
<1>7. place \in Surjection(S, 1..n)
  <2>1. Cardinality(S) = Cardinality(1..n)
    BY <1>1 DEF n
  <2> QED
    BY <1>1, <1>6, <2>1, FS_Injection
<1> QED
  BY <1>5, <1>7 DEF n

\* What sort.Strings returns: the elements of the set, each once, ascending.
LEMMA SortedIsAscending ==
  ASSUME NEW S \in SUBSET Nat, IsFiniteSet(S)
  PROVE  /\ Sorted(S) \in [1..Cardinality(S) -> S]
         /\ \A i, j \in 1..Cardinality(S) : i < j => Sorted(S)[i] < Sorted(S)[j]
<1> DEFINE n == Cardinality(S)
<1>1. PICK place \in Surjection(S, 1..n) : \A e, f \in S : e < f => place[e] < place[f]
  BY PlacesAreTaken
<1>2. /\ place \in [S -> 1..n]
      /\ \A i \in 1..n : \E e \in S : place[e] = i
      /\ n \in Nat
  BY FS_CardinalityType DEF Surjection
<1> DEFINE seq == [i \in 1..n |-> CHOOSE e \in S : place[e] = i]
<1> HIDE DEF n
<1>3. \A i \in 1..n : seq[i] \in S /\ place[seq[i]] = i
  BY <1>2
<1>4. seq \in [1..n -> S]
  BY <1>3
<1> HIDE DEF seq
<1>5. ASSUME NEW i \in 1..n, NEW j \in 1..n, i < j PROVE seq[i] < seq[j]
  <2>1. seq[i] \in Nat /\ seq[j] \in Nat
    BY <1>3
  <2>2. seq[i] # seq[j]
    BY <1>2, <1>3, <1>5
  <2>3. ~(seq[j] < seq[i])
    <3> SUFFICES ASSUME seq[j] < seq[i] PROVE FALSE
      OBVIOUS
    <3>1. place[seq[j]] < place[seq[i]]
      BY <1>1, <1>3
    <3> QED
      BY <1>2, <1>3, <1>5, <3>1
  <2> QED
    BY <2>1, <2>2, <2>3
<1>6. DOMAIN seq = 1..n
  BY <1>4
<1>7. \E s \in [1..n -> S] : \A i, j \in DOMAIN s : i < j => s[i] < s[j]
  BY <1>4, <1>5, <1>6
<1>8. /\ Sorted(S) \in [1..n -> S]
      /\ \A i, j \in DOMAIN Sorted(S) : i < j => Sorted(S)[i] < Sorted(S)[j]
  BY <1>7 DEF Sorted, n
<1> QED
  BY <1>8 DEF n

\* What ExtractEmails returns: addresses of the text, each once, up to the cap.
LEMMA ExtractedAddresses ==
  ASSUME NEW text \in SUBSET Nat, IsFiniteSet(text)
  PROVE  /\ ExtractEmails(text) \in Seq(text)
         /\ IsInjective(ExtractEmails(text))
         /\ Len(ExtractEmails(text)) <= MaxEmails
<1> DEFINE S == text \ Noise
           n == Cardinality(S)
           sorted == Sorted(S)
           m == IF n > MaxEmails THEN MaxEmails ELSE n
<1>1. MaxEmails \in Nat
  BY PageAnalysisAssumption DEF PageAnalysisAssumption
<1>2. S \in SUBSET Nat /\ S \in SUBSET text /\ IsFiniteSet(S)
  BY FS_Subset
<1> HIDE DEF S
<1>3. n \in Nat /\ m \in 0..n /\ m <= MaxEmails
  BY <1>1, <1>2, FS_CardinalityType
<1>4. /\ sorted \in [1..n -> S]
      /\ \A i, j \in 1..n : i < j => sorted[i] < sorted[j]
  BY <1>2, SortedIsAscending
<1>5. sorted \in Seq(S) /\ Len(sorted) = n
  BY <1>3, <1>4, IsASeq
<1>6. ExtractEmails(text) = SubSeq(sorted, 1, m)
  BY <1>5 DEF ExtractEmails, S
<1> HIDE DEF sorted, n, m
<1>7. ASSUME NEW i \in 1..n, NEW j \in 1..n, sorted[i] = sorted[j] PROVE i = j
  <2>1. i \in Nat /\ j \in Nat /\ sorted[i] \in S /\ sorted[j] \in S
    BY <1>3, <1>4
  <2>2. (i < j => sorted[i] < sorted[j]) /\ (j < i => sorted[j] < sorted[i])
    BY <1>4
  <2>3. sorted[i] \in Nat /\ sorted[j] \in Nat
    BY <1>2, <2>1
  <2>4. ~(sorted[i] < sorted[j]) /\ ~(sorted[j] < sorted[i])
    BY <1>7, <2>3
  <2> QED
    BY <2>1, <2>2, <2>4
<1> DEFINE top == SubSeq(sorted, 1, m)
<1>8. /\ top \in Seq(S) /\ Len(top) = m /\ DOMAIN top = 1..m
      /\ \A i \in 1..m : top[i] = sorted[i]
  <2>1. top = [i \in 1..m |-> sorted[i]]
    BY <1>3, <1>5 DEF SubSeq
  <2>2. \A i \in 1..m : sorted[i] \in S
    BY <1>3, <1>4
  <2>3. top \in [1..m -> S]
    BY <2>1, <2>2
  <2> HIDE DEF top
  <2>4. top \in Seq(S) /\ Len(top) = m /\ m \in Nat
    BY <1>3, <2>3, IsASeq
  <2> QED
    BY <2>1, <2>3, <2>4
<1> HIDE DEF top
<1>9. IsInjective(top)
  <2>1. \A i \in 1..m : i \in 1..n
    BY <1>3
  <2> QED
    BY <1>7, <1>8, <2>1 DEF IsInjective
<1>10. top \in Seq(text)
  BY <1>2, <1>8, SeqMonotonic
<1>11. ExtractEmails(text) = top
  BY <1>6 DEF top
<1> QED
  BY <1>3, <1>8, <1>9, <1>10, <1>11

\* Taking the first address from a list without repetitions.
LEMMA InjectiveTail ==
  ASSUME NEW S, NEW seq \in Seq(S), seq # <<>>, IsInjective(seq)
  PROVE  /\ Head(seq) \in S
         /\ Tail(seq) \in Seq(S) /\ IsInjective(Tail(seq))
         /\ Len(Tail(seq)) <= Len(seq)
<1> DEFINE n == Len(seq)
           rest == Tail(seq)
<1>1. /\ n \in Nat \ {0} /\ DOMAIN seq = 1..n /\ 1 \in 1..n
      /\ Head(seq) = seq[1] /\ seq[1] \in S
      /\ rest \in Seq(S) /\ DOMAIN rest = 1..(n - 1)
      /\ \A i \in 1..(n - 1) : rest[i] = seq[i + 1]
  OBVIOUS
<1> HIDE DEF n, rest
<1>2. \A i \in 1..(n - 1) : i + 1 \in 1..n /\ i + 1 # 1
  BY <1>1
<1>4. \A i, j \in 1..n : seq[i] = seq[j] => i = j
  BY <1>1 DEF IsInjective
<1>5. IsInjective(rest)
  <2> SUFFICES ASSUME NEW i \in 1..(n - 1), NEW j \in 1..(n - 1), rest[i] = rest[j]
               PROVE  i = j
    BY <1>1 DEF IsInjective
  <2>1. i + 1 = j + 1
    BY <1>1, <1>2, <1>4
  <2> QED
    BY <2>1
<1>6. Len(rest) <= n
  BY <1>1
<1> QED
  BY <1>1, <1>5, <1>6 DEF rest, n

-----------------------------------------------------------------------------
(* Steps of the crawl *)

\* Addresses are numbers, and every text has finitely many.
LEMMA TextsOfNumbers ==
  /\ Found \in SUBSET Nat
  /\ \A text \in Texts : text \in SUBSET Nat /\ IsFiniteSet(text) /\ text \in SUBSET Found
  /\ \A p \in Pages \union {NoPage} : p.text \in SUBSET Nat /\ IsFiniteSet(p.text)
<1>1. /\ \A text \in Texts : text \in SUBSET Nat /\ IsFiniteSet(text)
      /\ \A p \in Pages : p.text \in SUBSET Nat /\ IsFiniteSet(p.text)
  BY PageScanAssumption DEF PageScanAssumption
<1>2. NoPage.text = {} /\ IsFiniteSet({})
  BY FS_EmptySet DEF NoPage
<1>3. \A p \in Pages \union {NoPage} : p.text \in SUBSET Nat /\ IsFiniteSet(p.text)
  BY <1>1, <1>2
<1> QED
  BY <1>1, <1>3 DEF Found

\* The steps of ScanURL and of the enrichment that leave the list of addresses and
\* the goroutines of the crawl alone.
LEMMA CrawlElsewhere ==
  ASSUME CrawlInv, UNCHANGED <<emails, gpc, todo, copy, torn>>,
         page' \in Pages \union {NoPage}, page' = page \/ emails = <<>>,
         point' \in {"load", "detect", "emails", "crawl", "join", "enrich", "wait",
                     "returned", "failed"},
         point' \in {"load", "detect", "emails"} => emails = <<>>,
         point' # "join" => \A g \in Strategies : gpc[g] = "end",
         point' = "join" => point = "join"
  PROVE  CrawlInv'
<1>1. CrawlTyped /\ CrawlProgress
  BY DEF CrawlInv
<1>2. emails' \in Seq(Found \union page.text)'
  <2>1. CASE page' = page
    BY <1>1, <2>1 DEF CrawlTyped, Found
  <2>2. CASE emails = <<>>
    BY <2>2
  <2> QED
    BY <2>1, <2>2
<1>3. CrawlTyped'
  BY <1>1, <1>2 DEF CrawlTyped
<1>4. CrawlProgress'
  BY <1>1 DEF CrawlProgress
<1> QED
  BY <1>3, <1>4 DEF CrawlInv

\* The addresses of the page itself.
LEMMA CrawlMainEmails ==
  ASSUME CrawlInv, MainEmails
  PROVE  CrawlInv'
<1>1. CrawlTyped /\ CrawlProgress
  BY DEF CrawlInv
<1>2. /\ point = "emails" /\ point' = "crawl" /\ UNCHANGED <<page, gpc, todo, copy, torn>>
      /\ emails' = ExtractEmails(page.text)
  BY DEF MainEmails
<1>3. page.text \in SUBSET Nat /\ IsFiniteSet(page.text)
  BY <1>1, TextsOfNumbers DEF CrawlTyped
<1>4. emails' \in Seq(page.text)
  BY <1>2, <1>3, ExtractedAddresses
<1>6. \A g \in Strategies : gpc'[g] = "end" /\ todo'[g] = <<>>
  BY <1>1, <1>2 DEF CrawlProgress
<1>7. CrawlTyped'
  <2>1. emails' \in Seq(Found \union page.text)
    BY <1>4, SeqMonotonic
  <2> QED
    BY <1>1, <1>2, <2>1 DEF CrawlTyped, Found
<1>8. CrawlProgress'
  BY <1>1, <1>2, <1>6 DEF CrawlProgress, Appending
<1> QED
  BY <1>7, <1>8 DEF CrawlInv

\* Both goroutines begin with a page, and no address has been found.
LEMMA CrawlBegins ==
  ASSUME CrawlInv, CrawlPage
  PROVE  CrawlInv'
<1>1. CrawlTyped /\ CrawlProgress
  BY DEF CrawlInv
<1>2. /\ point = "crawl" /\ point' = "join" /\ UNCHANGED <<page, emails, todo, copy, torn>>
      /\ emails = <<>> /\ gpc' = [g \in Strategies |-> "fetch"]
  BY DEF CrawlPage
<1>3. \A g \in Strategies : gpc'[g] = "fetch" /\ todo'[g] = <<>>
  BY <1>1, <1>2 DEF CrawlProgress
<1>4. CrawlTyped'
  BY <1>1, <1>2 DEF CrawlTyped, Found
<1>5. CrawlProgress'
  BY <1>1, <1>2, <1>3 DEF CrawlProgress, Appending
<1> QED
  BY <1>4, <1>5 DEF CrawlInv

\* A goroutine that has not ended runs while ScanURL waits for it.
LEMMA CrawlRuns ==
  ASSUME CrawlInv, NEW g \in Strategies, gpc[g] # "end"
  PROVE  point = "join" /\ emails \in Seq(Found)
BY DEF CrawlInv, CrawlProgress

\* The steps of a goroutine that store nothing and take no copy of the list.
LEMMA CrawlQuiet ==
  ASSUME CrawlInv, NEW g \in Strategies,
         UNCHANGED <<Unshared, emails, copy>>, torn' \in BOOLEAN,
         NEW to \in {"merge", "append", "storing", "end"},
         gpc[g] # "end", gpc' = [gpc EXCEPT ![g] = to],
         NEW left \in Seq(Found), todo' = [todo EXCEPT ![g] = left],
         IsInjective(left), Len(left) <= MaxEmails,
         to = "end" => left = <<>>,
         to \in Appending => left # <<>>
  PROVE  CrawlInv'
<1>1. CrawlTyped /\ CrawlProgress
  BY DEF CrawlInv
<1>2. point = "join" /\ emails \in Seq(Found)
  BY CrawlRuns
<1>3. UNCHANGED <<point, page, emails, copy>>
  BY DEF Unshared
<1>4. /\ gpc'[g] = to /\ todo'[g] = left
      /\ \A h \in Strategies \ {g} : gpc'[h] = gpc[h] /\ todo'[h] = todo[h]
  BY <1>1 DEF CrawlTyped
<1>5. CrawlTyped'
  <2>1. /\ gpc' \in [Strategies -> {"fetch", "merge", "append", "store", "storing", "end"}]
        /\ todo' \in [Strategies -> Seq(Found)]
    BY <1>1 DEF CrawlTyped
  <2> QED
    BY <1>1, <1>3, <2>1 DEF CrawlTyped, Found
<1>6. CrawlProgress'
  <2>1. /\ IsInjective(todo'[g]) /\ Len(todo'[g]) <= MaxEmails
        /\ gpc'[g] \in {"fetch", "end"} => todo'[g] = <<>>
        /\ gpc'[g] \in Appending => todo'[g] # <<>>
    BY <1>4
  <2>2. ASSUME NEW h \in Strategies \ {g}
        PROVE  /\ IsInjective(todo'[h]) /\ Len(todo'[h]) <= MaxEmails
               /\ gpc'[h] \in {"fetch", "end"} => todo'[h] = <<>>
               /\ gpc'[h] \in Appending => todo'[h] # <<>>
    BY <1>1, <1>4 DEF CrawlProgress
  <2>3. point' = "join" /\ emails' \in Seq(Found)
    BY <1>2, <1>3
  <2> QED
    BY <2>1, <2>2, <2>3 DEF CrawlProgress, Found
<1> QED
  BY <1>5, <1>6 DEF CrawlInv

\* append reads the slice.
LEMMA CrawlCopies ==
  ASSUME CrawlInv, NEW g \in Strategies, AppendLoad(g)
  PROVE  CrawlInv'
<1>1. CrawlTyped /\ CrawlProgress
  BY DEF CrawlInv
<1>2. /\ gpc[g] = "append" /\ gpc' = [gpc EXCEPT ![g] = "store"]
      /\ copy' = [copy EXCEPT ![g] = emails]
      /\ UNCHANGED <<point, page, emails, todo>> /\ torn' \in BOOLEAN
  BY <1>1 DEF AppendLoad, Move, Unshared, CrawlTyped
<1>3. point = "join" /\ emails \in Seq(Found)
  BY <1>2, CrawlRuns
<1>4. /\ gpc'[g] = "store" /\ copy'[g] = emails
      /\ \A h \in Strategies \ {g} : gpc'[h] = gpc[h] /\ copy'[h] = copy[h]
  BY <1>1, <1>2 DEF CrawlTyped
<1>5. CrawlTyped'
  <2>1. /\ gpc' \in [Strategies -> {"fetch", "merge", "append", "store", "storing", "end"}]
        /\ copy' \in [Strategies -> Seq(Found)]
    BY <1>1, <1>2, <1>3 DEF CrawlTyped
  <2> QED
    BY <1>1, <1>2, <2>1 DEF CrawlTyped, Found
<1>6. CrawlProgress'
  <2>1. point' = "join" /\ emails' \in Seq(Found)
    BY <1>2, <1>3
  <2>2. \A h \in Strategies :
          /\ gpc'[h] \in {"fetch", "end"} => gpc[h] \in {"fetch", "end"}
          /\ gpc'[h] \in Appending => gpc[h] \in Appending
    BY <1>2, <1>4 DEF Appending
  <2> QED
    BY <1>1, <1>2, <2>1, <2>2 DEF CrawlProgress, Found
<1> QED
  BY <1>5, <1>6 DEF CrawlInv

\* append has stored its copy of the list with one address more.
LEMMA CrawlStores ==
  ASSUME CrawlInv, NEW g \in Strategies, Appended(g)
  PROVE  CrawlInv'
<1> DEFINE address == Head(todo[g])
           left == Tail(todo[g])
<1>1. CrawlTyped /\ CrawlProgress
  BY DEF CrawlInv
<1>2. /\ gpc[g] = "storing" /\ gpc' = [gpc EXCEPT ![g] = "merge"]
      /\ emails' = Append(copy[g], address) /\ todo' = [todo EXCEPT ![g] = left]
      /\ UNCHANGED <<point, page, copy, torn>>
  BY <1>1 DEF Appended, Move, Unshared, CrawlTyped
<1>3. point = "join"
  BY <1>2, CrawlRuns
<1>4. /\ todo[g] \in Seq(Found) /\ todo[g] # <<>> /\ IsInjective(todo[g])
      /\ Len(todo[g]) <= MaxEmails /\ copy[g] \in Seq(Found)
  BY <1>1, <1>2 DEF CrawlTyped, CrawlProgress, Appending
<1>5. /\ address \in Found
      /\ left \in Seq(Found) /\ IsInjective(left) /\ Len(left) <= MaxEmails
  <2>1. /\ address \in Found
        /\ left \in Seq(Found) /\ IsInjective(left) /\ Len(left) <= Len(todo[g])
    BY <1>4, InjectiveTail
  <2>2. Len(left) \in Nat /\ Len(todo[g]) \in Nat /\ MaxEmails \in Nat
    BY <1>4, <2>1, PageAnalysisAssumption DEF PageAnalysisAssumption
  <2> QED
    BY <1>4, <2>1, <2>2
<1> HIDE DEF address, left
<1>6. emails' \in Seq(Found)
  BY <1>2, <1>4, <1>5
<1>7. /\ gpc'[g] = "merge" /\ todo'[g] = left
      /\ \A h \in Strategies \ {g} : gpc'[h] = gpc[h] /\ todo'[h] = todo[h]
  BY <1>1, <1>2 DEF CrawlTyped
<1>8. CrawlTyped'
  <2>1. /\ gpc' \in [Strategies -> {"fetch", "merge", "append", "store", "storing", "end"}]
        /\ todo' \in [Strategies -> Seq(Found)]
    BY <1>1, <1>2, <1>5 DEF CrawlTyped
  <2>2. emails' \in Seq(Found \union page.text)
    BY <1>6, SeqMonotonic
  <2> QED
    BY <1>1, <1>2, <2>1, <2>2 DEF CrawlTyped, Found
<1>9. CrawlProgress'
  <2>1. point' = "join" /\ emails' \in Seq(Found)
    BY <1>2, <1>3, <1>6
  <2>2. ASSUME NEW h \in Strategies
        PROVE  /\ IsInjective(todo'[h]) /\ Len(todo'[h]) <= MaxEmails
               /\ gpc'[h] \in {"fetch", "end"} => todo'[h] = <<>>
               /\ gpc'[h] \in Appending => todo'[h] # <<>>
    <3>1. CASE h = g
      BY <1>5, <1>7, <3>1 DEF Appending
    <3>2. CASE h # g
      BY <1>1, <1>7, <3>2 DEF CrawlProgress
    <3> QED
      BY <3>1, <3>2
  <2> QED
    BY <2>1, <2>2 DEF CrawlProgress, Found
<1> QED
  BY <1>8, <1>9 DEF CrawlInv

\* Before the first step there is no address.
LEMMA CrawlInvInit == Init => CrawlInv
<1> SUFFICES ASSUME Init PROVE CrawlInv
  OBVIOUS
<1>1. /\ point = "load" /\ page = NoPage /\ emails = <<>> /\ torn = FALSE
      /\ gpc = [g \in Strategies |-> "end"]
      /\ todo = [g \in Strategies |-> <<>>] /\ copy = [g \in Strategies |-> <<>>]
  BY DEF Init
<1>2. \A g \in Strategies : gpc[g] = "end" /\ todo[g] = <<>>
  BY <1>1
<1>3. CrawlTyped
  <2>1. emails \in Seq(Found \union page.text) /\ <<>> \in Seq(Found)
    BY <1>1
  <2>2. /\ gpc \in [Strategies -> {"fetch", "merge", "append", "store", "storing", "end"}]
        /\ todo \in [Strategies -> Seq(Found)] /\ copy \in [Strategies -> Seq(Found)]
    BY <1>1, <2>1
  <2>3. page \in Pages \union {NoPage} /\ torn \in BOOLEAN /\ point = "load"
    BY <1>1
  <2> QED
    BY <2>1, <2>2, <2>3 DEF CrawlTyped
<1>4. CrawlProgress
  <2>1. Len(<<>>) = 0 /\ MaxEmails \in Nat
    BY PageAnalysisAssumption DEF PageAnalysisAssumption
  <2> QED
    BY <1>1, <1>2, <2>1 DEF CrawlProgress, Appending, IsInjective
<1> QED
  BY <1>3, <1>4 DEF CrawlInv

\* Every step of a goroutine of the crawl keeps the invariant.
LEMMA CrawlInvGoroutine ==
  ASSUME CrawlInv, NEW g \in Strategies, CrawlStep(g)
  PROVE  CrawlInv'
<1>1. CrawlTyped /\ CrawlProgress
  BY DEF CrawlInv
<1>2. /\ todo \in [Strategies -> Seq(Found)] /\ todo[g] \in Seq(Found) /\ IsInjective(todo[g])
      /\ Len(todo[g]) <= MaxEmails /\ Len(todo[g]) \in Nat /\ MaxEmails \in Nat
      /\ torn \in BOOLEAN /\ \A h \in Strategies : Overlap(h) \in BOOLEAN
      /\ todo = [todo EXCEPT ![g] = todo[g]]
  BY <1>1, PageAnalysisAssumption
  DEF CrawlTyped, CrawlProgress, Overlap, PageAnalysisAssumption
<1>3. CASE \E text \in Texts : Fetched(g, text)
  <2>1. PICK text \in Texts : Fetched(g, text)
    BY <1>3
  <2> DEFINE left == ExtractEmails(text)
  <2>2. /\ left \in Seq(text) /\ IsInjective(left) /\ Len(left) <= MaxEmails
        /\ text \in SUBSET Found
    BY TextsOfNumbers, ExtractedAddresses
  <2> HIDE DEF left
  <2>3. left \in Seq(Found)
    BY <2>2, SeqMonotonic
  <2>4. /\ gpc[g] = "fetch" /\ gpc' = [gpc EXCEPT ![g] = "merge"]
        /\ todo' = [todo EXCEPT ![g] = left]
        /\ UNCHANGED <<Unshared, emails, copy>> /\ torn' \in BOOLEAN
    BY <1>2, <2>1 DEF Fetched, Move, left
  <2> QED
    BY <2>2, <2>3, <2>4, CrawlQuiet DEF Appending
<1>4. CASE FetchFails(g)
  <2>1. /\ gpc[g] = "fetch" /\ gpc' = [gpc EXCEPT ![g] = "end"] /\ todo' = todo
        /\ UNCHANGED <<Unshared, emails, copy>> /\ torn' \in BOOLEAN
    BY <1>2, <1>4 DEF FetchFails, Move
  <2>2. todo[g] = <<>>
    BY <1>1, <2>1 DEF CrawlProgress
  <2> QED
    BY <1>2, <2>1, <2>2, CrawlQuiet DEF Appending
<1>5. CASE MergeSkips(g)
  <2> DEFINE left == Tail(todo[g])
  <2>1. /\ gpc[g] = "merge" /\ gpc' = [gpc EXCEPT ![g] = "merge"]
        /\ todo[g] # <<>> /\ todo' = [todo EXCEPT ![g] = left]
        /\ UNCHANGED <<Unshared, emails, copy>> /\ torn' \in BOOLEAN
    BY <1>2, <1>5 DEF MergeSkips, Move
  <2>2. left \in Seq(Found) /\ IsInjective(left) /\ Len(left) <= Len(todo[g])
    BY <1>2, <2>1, InjectiveTail
  <2> HIDE DEF left
  <2>3. Len(left) <= MaxEmails
    <3>1. Len(left) \in Nat
      BY <2>2
    <3> QED
      BY <1>2, <2>2, <3>1
  <2> QED
    BY <2>1, <2>2, <2>3, CrawlQuiet DEF Appending
<1>6. CASE MergeChecked(g)
  <2>1. /\ gpc[g] = "merge" /\ gpc' = [gpc EXCEPT ![g] = "append"]
        /\ todo[g] # <<>> /\ todo' = todo
        /\ UNCHANGED <<Unshared, emails, copy>> /\ torn' \in BOOLEAN
    BY <1>2, <1>6 DEF MergeChecked, Move
  <2> QED
    BY <1>2, <2>1, CrawlQuiet
<1>7. CASE AppendLoad(g)
  BY <1>7, CrawlCopies
<1>8. CASE AppendStore(g)
  <2>1. /\ gpc[g] = "store" /\ gpc' = [gpc EXCEPT ![g] = "storing"] /\ todo' = todo
        /\ UNCHANGED <<Unshared, emails, copy>> /\ torn' \in BOOLEAN
    BY <1>2, <1>8 DEF AppendStore, Move
  <2>2. todo[g] # <<>>
    BY <1>1, <2>1 DEF CrawlProgress, Appending
  <2> QED
    BY <1>2, <2>1, <2>2, CrawlQuiet
<1>9. CASE Appended(g)
  BY <1>9, CrawlStores
<1>10. CASE MergeEnds(g)
  <2>1. /\ gpc[g] = "merge" /\ gpc' = [gpc EXCEPT ![g] = "end"] /\ todo' = todo
        /\ todo[g] = <<>> /\ UNCHANGED <<Unshared, emails, copy>> /\ torn' \in BOOLEAN
    BY <1>2, <1>10 DEF MergeEnds, Move
  <2> QED
    BY <1>2, <2>1, CrawlQuiet DEF Appending
<1> QED
  BY <1>3, <1>4, <1>5, <1>6, <1>7, <1>8, <1>9, <1>10 DEF CrawlStep

\* Every step keeps the invariant of the crawl.
LEMMA CrawlInvNext == CrawlInv /\ [Next]_vars => CrawlInv'
<1> SUFFICES ASSUME CrawlInv, [Next]_vars PROVE CrawlInv'
  OBVIOUS
<1>1. CrawlTyped /\ CrawlProgress
  BY DEF CrawlInv
<1>2. CASE UNCHANGED vars
  BY <1>1, <1>2, CrawlElsewhere DEF vars, crawlVars, CrawlTyped, CrawlProgress
<1>3. CASE MainEmails
  BY <1>3, CrawlMainEmails
<1>4. CASE CrawlPage
  BY <1>4, CrawlBegins
<1>5. CASE \E p \in Pages : Load(p)
  <2>1. PICK p \in Pages : Load(p)
    BY <1>5
  <2> QED
    BY <1>1, <2>1, CrawlElsewhere DEF Load, crawlVars, CrawlProgress
<1>6. CASE LoadFails \/ Detect \/ CrawlEnds \/ CrawlJoin \/ EnrichNothing \/ Enrich \/ EnrichJoin
  <2>1. /\ UNCHANGED <<page, emails, gpc, todo, copy, torn>>
        /\ point' \in {"emails", "crawl", "enrich", "wait", "returned", "failed"}
        /\ point' = "emails" => point = "detect"
        /\ point = "join" => \A g \in Strategies : gpc[g] = "end"
    BY <1>6
    DEF LoadFails, Detect, CrawlEnds, CrawlJoin, EnrichNothing, Enrich, EnrichJoin, crawlVars
  <2> QED
    BY <1>1, <2>1, CrawlElsewhere DEF CrawlTyped, CrawlProgress
<1>7. CASE \E g \in Strategies : CrawlStep(g)
  BY <1>7, CrawlInvGoroutine
<1>8. CASE (\E t \in Types : QueryStep(t)) \/ EnrichStep \/ SslDone
  <2>1. UNCHANGED Scanned
    BY <1>8 DEF QueryStep, QueryAnswered, QueryNextEndpoint, QueryFails, EnrichStep,
                DnsReceive, DnsDone, WhoisDone, SslDone
  <2> QED
    BY <1>1, <2>1, CrawlElsewhere DEF Scanned, crawlVars, CrawlTyped, CrawlProgress
<1> QED
  BY <1>2, <1>3, <1>4, <1>5, <1>6, <1>7, <1>8 DEF Next, MainStep

-----------------------------------------------------------------------------
(* The result of a scan *)

\* DNS reports an error if, and only if, every type has failed.
LEMMA ErrorMeansAllFailed ==
  ASSUME EnrichInv, epc = "end"
  PROVE  dns = "error" <=> received = [type : Types, ok : {FALSE}]
<1>1. /\ received \in SUBSET Answer /\ \A t \in Types : Got(t)
      /\ dns = Outcome /\ Types # {}
  BY PageScanAssumption
  DEF EnrichInv, EnrichTyped, EnrichProgress, PageScanAssumption
<1>2. ASSUME dns = "error" PROVE received = [type : Types, ok : {FALSE}]
  <2>1. \A a \in received : ~a.ok
    BY <1>1, <1>2 DEF Outcome
  <2>2. ASSUME NEW a \in received PROVE a \in [type : Types, ok : {FALSE}]
    BY <1>1, <2>1, <2>2 DEF Answer
  <2>3. ASSUME NEW a \in [type : Types, ok : {FALSE}] PROVE a \in received
    <3>1. a.type \in Types /\ a.ok = FALSE /\ a = [type |-> a.type, ok |-> a.ok]
      BY <2>3
    <3>2. PICK b \in received : b.type = a.type
      BY <1>1, <3>1 DEF Got
    <3>3. b.ok = FALSE /\ b = [type |-> b.type, ok |-> b.ok]
      BY <1>1, <2>1, <3>2 DEF Answer
    <3>4. b = a
      BY <3>1, <3>2, <3>3
    <3> QED
      BY <3>2, <3>4
  <2> QED
    BY <2>2, <2>3
<1>3. ASSUME received = [type : Types, ok : {FALSE}] PROVE dns = "error"
  BY <1>1, <1>3 DEF Outcome
<1> QED
  BY <1>2, <1>3

\* A scan that has returned has a result that nothing writes to any more, with
\* every part of the enrichment answered or failed, and DNS failed only if every
\* type did, for any page, any texts of the contact pages, any caps, record types
\* and endpoints (scanner.go:293-303, 337-446; enrich.go:140-209).
THEOREM ReturnedResultsAreWhole == Spec => []ReturnedResultIsWhole
<1>1. EnrichInv /\ CrawlInv => ReturnedResultIsWhole
  <2> SUFFICES ASSUME EnrichInv, CrawlInv, point = "returned"
               PROVE  /\ \A g \in Strategies : gpc[g] = "end"
                      /\ \A t \in Types : endpoint[t] = 0
                      /\ page.host =>
                           /\ "nil" \notin {dns, whois, ssl}
                           /\ (dns = "error" <=> received = [type : Types, ok : {FALSE}])
    BY DEF ReturnedResultIsWhole
  <2>1. EnrichTyped /\ OncePerType /\ EnrichProgress
    BY DEF EnrichInv
  <2>2. CrawlTyped /\ CrawlProgress
    BY DEF CrawlInv
  <2>3. \A g \in Strategies : gpc[g] = "end"
    BY <2>2 DEF CrawlProgress
  <2>4. \A t \in Types : ~Asked(t)
    <3>1. CASE page.host
      BY <2>1, <3>1 DEF EnrichProgress, OncePerType
    <3>2. CASE ~page.host
      BY <2>1, <3>2 DEF EnrichProgress
    <3> QED
      BY <3>1, <3>2
  <2>5. \A t \in Types : endpoint[t] = 0
    BY <2>1, <2>4, PageScanAssumption DEF Asked, EnrichTyped, PageScanAssumption
  <2>6. ASSUME page.host
        PROVE  /\ "nil" \notin {dns, whois, ssl}
               /\ (dns = "error" <=> received = [type : Types, ok : {FALSE}])
    <3>1. epc = "end" /\ spc = "end"
      BY <2>1, <2>6 DEF EnrichProgress
    <3>2. "nil" \notin {dns, whois, ssl}
      BY <2>1, <3>1 DEF EnrichProgress, Outcome
    <3>3. dns = "error" <=> received = [type : Types, ok : {FALSE}]
      BY <3>1, ErrorMeansAllFailed
    <3> QED
      BY <3>2, <3>3
  <2> QED
    BY <2>3, <2>5, <2>6
<1> QED
  BY <1>1, EnrichInvInit, EnrichInvNext, CrawlInvInit, CrawlInvNext, PTL DEF Spec

-----------------------------------------------------------------------------
(***************************************************************************)
(* Loops.  Induction over the passes of a loop, as a set of numbers that   *)
(* the first belongs to and the next with each; and the fold over a        *)
(* sequence as the results of its passes.                                  *)
(***************************************************************************)
LEMMA LeastOf ==
  ASSUME NEW T \in SUBSET Nat, T # {}
  PROVE  \E x \in T : \A y \in T : x <= y
<1>1. ASSUME NEW R, IsWellFoundedOn(R, Nat), \A i, j \in Nat : <<i, j>> \in R <=> i < j
      PROVE  \E x \in T : \A y \in T : x <= y
  <2>0. IsWellFoundedOn(R, Nat) /\ T \subseteq Nat
    BY <1>1
  <2>1. \E x \in T : \A y \in T : ~(<<y, x>> \in R)
    BY ONLY <2>0, T # {}, WFMin, Zenon
  <2>2. ASSUME NEW x \in T, NEW y \in T, ~(<<y, x>> \in R) PROVE x <= y
    <3>1. x \in Nat /\ y \in Nat /\ ~(y < x)
      BY <1>1, <2>2
    <3> QED
      BY <3>1
  <2> QED
    BY <2>1, <2>2, Zenon
<1>2. IsWellFoundedOn(OpToRel(<, Nat), Nat)
  BY NatLessThanWellFounded
<1>3. \A i, j \in Nat : <<i, j>> \in OpToRel(<, Nat) <=> i < j
  BY DEF OpToRel
<1> QED
  BY <1>1, <1>2, <1>3

LEMMA EveryPass ==
  ASSUME NEW n \in Nat, NEW P, 0 \in P, \A k \in 1..n : k - 1 \in P => k \in P
  PROVE  \A k \in 0..n : k \in P
<1> DEFINE T == {k \in 0..n : k \notin P}
<1> SUFFICES ASSUME T # {} PROVE FALSE
  OBVIOUS
<1>1. T \in SUBSET Nat
  OBVIOUS
<1>2. PICK x \in T : \A y \in T : x <= y
  <2> HIDE DEF T
  <2> QED
    BY <1>1, LeastOf
<1>3. x \in 1..n
  <2>1. x \in 0..n /\ x # 0
    BY <1>2
  <2> QED
    BY <2>1
<1>4. x - 1 \in 0..n /\ ~(x <= x - 1)
  BY <1>3
<1>5. x - 1 \in P
  BY <1>2, <1>4
<1> QED
  BY <1>2, <1>3, <1>5

\* The greatest of some places of a list.
LEMMA GreatestPlace ==
  ASSUME NEW n \in Nat, NEW t \in SUBSET (1..n), t # {}
  PROVE  /\ Max(t) \in t
         /\ \A m \in t : (\A i \in t : i <= m) => Max(t) = m
<1> DEFINE U == {n - i : i \in t}
<1>1. U \in SUBSET Nat /\ U # {}
  <2>1. \A i \in 1..n : n - i \in Nat
    OBVIOUS
  <2> QED
    BY <2>1
<1>2. PICK u \in U : \A v \in U : u <= v
  <2> HIDE DEF U
  <2> QED
    BY <1>1, LeastOf
<1>3. PICK m \in t : u = n - m
  OBVIOUS
<1>4. ASSUME NEW i \in t PROVE m >= i
  <2>1. i \in 1..n /\ m \in 1..n /\ n - m <= n - i
    BY <1>2, <1>3
  <2> QED
    BY <2>1
<1>5. \E x \in t : \A y \in t : x >= y
  BY <1>4
<1>6. Max(t) \in t /\ \A y \in t : Max(t) >= y
  BY <1>5 DEF Max
<1>7. ASSUME NEW k \in t, \A i \in t : i <= k PROVE Max(t) = k
  <2>1. Max(t) <= k /\ Max(t) >= k /\ k \in 1..n /\ Max(t) \in 1..n
    BY <1>6, <1>7
  <2> QED
    BY <2>1
<1> QED
  BY <1>6, <1>7

LEMMA LastPlace ==
  ASSUME NEW n \in Nat, NEW k \in 1..n
  PROVE  /\ 1..k \in SUBSET (1..n) /\ 1..k # {}
         /\ Max(1..k) = k /\ (1..k) \ {k} = 1..(k - 1)
<1>1. 1..k \in SUBSET (1..n) /\ k \in 1..k /\ \A i \in 1..k : i <= k
  OBVIOUS
<1>2. Max(1..k) = k
  BY <1>1, GreatestPlace
<1>3. (1..k) \ {k} = 1..(k - 1)
  OBVIOUS
<1> QED
  BY <1>1, <1>2, <1>3

\* The recursion behind a fold over n places, with the passes F[k].
Iterates(it, n, b, F) ==
  \A t \in SUBSET (1..n) : it[t] = IF t = {} THEN b ELSE F[Max(t)][it[t \ {Max(t)}]]

\* It has a solution.
LEMMA IterationExists ==
  ASSUME NEW n \in Nat, NEW V, NEW b \in V, NEW F \in [1..n -> [V -> V]]
  PROVE  \E it \in [SUBSET (1..n) -> V] : Iterates(it, n, b, F)
<1> DEFINE Solves(it, m) ==
             \A t \in SUBSET (1..m) :
               it[t] = IF t = {} THEN b ELSE F[Max(t)][it[t \ {Max(t)}]]
           P == {m \in 0..n : \E it \in [SUBSET (1..m) -> V] : Solves(it, m)}
<1>1. 0 \in P
  <2> DEFINE it == [t \in SUBSET (1..0) |-> b]
  <2>1. 1..0 = {} /\ 0 \in 0..n
    OBVIOUS
  <2>2. it \in [SUBSET (1..0) -> V] /\ Solves(it, 0)
    BY <2>1
  <2> QED
    BY <2>1, <2>2
<1>2. ASSUME NEW m \in 1..n, m - 1 \in P PROVE m \in P
  <2>1. PICK it \in [SUBSET (1..(m - 1)) -> V] : Solves(it, m - 1)
    BY <1>2
  <2> DEFINE more == [t \in SUBSET (1..m) |-> IF m \in t THEN F[m][it[t \ {m}]] ELSE it[t]]
  <2>2. \A t \in SUBSET (1..m) : t \ {m} \in SUBSET (1..(m - 1))
    OBVIOUS
  <2>3. more \in [SUBSET (1..m) -> V]
    <3> SUFFICES ASSUME NEW t \in SUBSET (1..m)
                 PROVE  (IF m \in t THEN F[m][it[t \ {m}]] ELSE it[t]) \in V
      OBVIOUS
    <3>1. it[t \ {m}] \in V /\ F[m] \in [V -> V]
      BY <2>2
    <3>2. CASE m \in t
      BY <3>1, <3>2
    <3>3. CASE m \notin t
      <4>1. t \ {m} = t
        BY <3>3
      <4> QED
        BY <3>1, <3>3, <4>1
    <3> QED
      BY <3>2, <3>3
  <2>4. Solves(more, m)
    <3> SUFFICES ASSUME NEW t \in SUBSET (1..m)
                 PROVE  more[t] = IF t = {} THEN b ELSE F[Max(t)][more[t \ {Max(t)}]]
      OBVIOUS
    <3>1. CASE m \in t
      <4>1. m \in Nat /\ t # {} /\ \A i \in t : i <= m
        BY <3>1
      <4>2. Max(t) = m
        BY <3>1, <4>1, GreatestPlace
      <4>3. more[t \ {m}] = it[t \ {m}]
        OBVIOUS
      <4>4. more[t] = F[m][it[t \ {m}]]
        BY <3>1
      <4> QED
        BY <4>1, <4>2, <4>3, <4>4
    <3>2. CASE m \notin t
      <4>1. t \in SUBSET (1..(m - 1)) /\ m - 1 \in Nat
        BY <3>2
      <4>2. more[t] = it[t]
        BY <3>2
      <4>3. CASE t = {}
        BY <2>1, <4>1, <4>2, <4>3
      <4>4. CASE t # {}
        <5>1. Max(t) \in t
          BY <4>1, <4>4, GreatestPlace
        <5>2. more[t \ {Max(t)}] = it[t \ {Max(t)}]
          BY <3>2
        <5>3. it[t] = F[Max(t)][it[t \ {Max(t)}]]
          BY <2>1, <4>1, <4>4
        <5> QED
          BY <4>2, <4>4, <5>2, <5>3
      <4> QED
        BY <4>3, <4>4
    <3> QED
      BY <3>1, <3>2
  <2> HIDE DEF more, Solves
  <2>5. \E x \in [SUBSET (1..m) -> V] : Solves(x, m)
    BY <2>3, <2>4
  <2> QED
    BY <2>5
<1> HIDE DEF P, Solves
<1>3. \A m \in 1..n : m - 1 \in P => m \in P
  BY <1>2
<1>4. \A m \in 0..n : m \in P
  BY <1>1, <1>3, EveryPass
<1>5. n \in P
  BY <1>4
<1> QED
  BY <1>5 DEF P, Solves, Iterates

\* The results of the passes of a loop.
Passes(run, c, n, b, F) ==
  /\ run[0] = b /\ run[n] = c[1..n]
  /\ \A k \in 1..n : run[k] = F[k][run[k - 1]]

\* Each result of a chain depends on the one before.
Linked(c, n, b, V, F) ==
  /\ c[{}] = b
  /\ \A k \in 1..n : c[1..(k - 1)] \in V => c[1..k] = F[k][c[1..(k - 1)]]

\* A chain of results, of which each depends on the one before, stays where the
\* passes stay.
LEMMA RunOfChain ==
  ASSUME NEW n \in Nat, NEW V, NEW b \in V, NEW F \in [1..n -> [V -> V]], NEW c,
         Linked(c, n, b, V, F)
  PROVE  \E run \in [0..n -> V] : Passes(run, c, n, b, F)
<1> DEFINE P == {k \in 0..n : c[1..k] \in V}
           run == [k \in 0..n |-> c[1..k]]
<1>1. 1..0 = {} /\ 0 \in 0..n /\ n \in 0..n
  OBVIOUS
<1>2. 0 \in P
  BY <1>1 DEF Linked
<1>3. \A k \in 1..n : k - 1 \in P => k \in P
  BY DEF Linked
<1>4. \A k \in 0..n : k \in P
  <2> HIDE DEF P
  <2> QED
    BY <1>2, <1>3, EveryPass
<1>5. run \in [0..n -> V] /\ \A k \in 0..n : run[k] = c[1..k]
  BY <1>4
<1>6. ASSUME NEW k \in 1..n PROVE run[k] = F[k][run[k - 1]]
  <2>1. k \in 0..n /\ k - 1 \in 0..n
    OBVIOUS
  <2>2. c[1..(k - 1)] \in V
    BY <1>4, <2>1
  <2> QED
    BY <1>5, <2>1, <2>2 DEF Linked
<1>7. run[0] = b /\ run[n] = c[1..n]
  BY <1>1, <1>5 DEF Linked
<1> HIDE DEF run
<1> QED
  BY <1>5, <1>6, <1>7 DEF Passes

\* The passes of detect's loop over the technologies.
LEMMA DetectRun ==
  ASSUME NEW inputs
  PROVE  \E run \in [0..Len(Technologies) -> Seq(ToSet(Technologies))] :
           /\ run[0] = <<>>
           /\ \A k \in 1..Len(Technologies) : run[k] = IF Confidence(Technologies[k], inputs) > 0
                           THEN Append(run[k - 1], Technologies[k]) ELSE run[k - 1]
           /\ detect(inputs) = run[Len(Technologies)]
<1> DEFINE n == Len(Technologies)
           b == <<>>
           V == Seq(ToSet(Technologies))
           pass(v, k) == IF Confidence(Technologies[k], inputs) > 0
                           THEN Append(v, Technologies[k]) ELSE v
           F == [k \in 1..n |-> [v \in V |-> pass(v, k)]]
           Solves(it) == it = [t \in SUBSET DOMAIN Technologies |->
                                IF t = {} THEN b ELSE pass(it[t \ {Max(t)}], Max(t))]
           c == CHOOSE it : Solves(it)
<1>1. n \in Nat /\ DOMAIN Technologies = 1..n /\ b \in V
  BY PageAnalysisAssumption DEF PageAnalysisAssumption
<1>2. ASSUME NEW v \in V, NEW k \in 1..n PROVE pass(v, k) \in V
  <2>1. Technologies[k] \in ToSet(Technologies)
    BY PageAnalysisAssumption DEF PageAnalysisAssumption
  <2> QED
    BY <2>1
<1>3. detect(inputs) = c[DOMAIN Technologies]
  <2> HIDE DEF n, V, F
  <2> QED
    BY DEF detect, FoldLeft, MapThenFoldSet
<1> HIDE DEF n, b, V, pass
<1>4. F \in [1..n -> [V -> V]] /\ \A k \in 1..n : \A v \in V : F[k][v] = pass(v, k)
  BY <1>2
<1> HIDE DEF F
<1>5. PICK it \in [SUBSET (1..n) -> V] : Iterates(it, n, b, F)
  BY <1>1, <1>4, IterationExists, Zenon
<1>6. ASSUME NEW t \in SUBSET (1..n)
      PROVE  it[t] = IF t = {} THEN b ELSE pass(it[t \ {Max(t)}], Max(t))
  <2>1. CASE t = {}
    BY <1>5, <2>1 DEF Iterates
  <2>2. CASE t # {}
    <3>1. Max(t) \in 1..n
      BY <1>1, <2>2, GreatestPlace
    <3>2. it[t \ {Max(t)}] \in V
      BY <1>5
    <3>3. F[Max(t)][it[t \ {Max(t)}]] = pass(it[t \ {Max(t)}], Max(t))
      BY <1>4, <3>1, <3>2
    <3> QED
      BY <1>5, <2>2, <3>3 DEF Iterates
  <2> QED
    BY <2>1, <2>2
<1>7. Solves(it)
  BY <1>1, <1>6
<1>8. Solves(c)
  <2> HIDE DEF Solves
  <2> QED
    BY <1>7
<1>9. \A t \in SUBSET (1..n) :
        c[t] = IF t = {} THEN b ELSE pass(c[t \ {Max(t)}], Max(t))
  <2> HIDE DEF c
  <2> QED
    BY <1>1, <1>8
<1> HIDE DEF c, Solves
<1>10. c[{}] = b
  BY <1>9
<1>11. ASSUME NEW k \in 1..n, c[1..(k - 1)] \in V
       PROVE  c[1..k] = F[k][c[1..(k - 1)]]
  <2>1. 1..k \in SUBSET (1..n) /\ 1..k # {} /\ Max(1..k) = k /\ (1..k) \ {k} = 1..(k - 1)
    BY <1>1, LastPlace
  <2>2. c[1..k] = pass(c[1..(k - 1)], k)
    BY <1>9, <2>1
  <2> QED
    BY <1>4, <1>11, <2>2
<1>12. n \in Nat /\ b \in V /\ F \in [1..n -> [V -> V]] /\ Linked(c, n, b, V, F)
  BY <1>1, <1>4, <1>10, <1>11 DEF Linked
<1>13. PICK run \in [0..n -> V] : Passes(run, c, n, b, F)
  BY <1>12, RunOfChain, Zenon
<1>14. run[0] = b /\ run[n] = c[1..n] /\ \A k \in 1..n : run[k] = F[k][run[k - 1]]
  BY <1>13 DEF Passes
<1>15. ASSUME NEW k \in 1..n PROVE run[k] = pass(run[k - 1], k)
  <2>1. run[k - 1] \in V
    BY <1>1, <1>13
  <2> QED
    BY <1>4, <1>14, <2>1
<1> QED
  BY <1>1, <1>3, <1>13, <1>14, <1>15 DEF pass, n, b, V

-----------------------------------------------------------------------------
(* What GetImplied computes *)

LEMMA ToSetOfAppend ==
  ASSUME NEW S, NEW seq \in Seq(S), NEW e \in S
  PROVE  ToSet(Append(seq, e)) = ToSet(seq) \union {e}
<1>1. /\ Len(seq) \in Nat /\ DOMAIN seq = 1..Len(seq)
      /\ DOMAIN Append(seq, e) = 1..(Len(seq) + 1)
      /\ \A i \in 1..Len(seq) : Append(seq, e)[i] = seq[i]
      /\ Append(seq, e)[Len(seq) + 1] = e
  OBVIOUS
<1>2. ASSUME NEW x \in ToSet(Append(seq, e)) PROVE x \in ToSet(seq) \union {e}
  <2>1. PICK i \in 1..(Len(seq) + 1) : x = Append(seq, e)[i]
    BY <1>1, <1>2 DEF ToSet
  <2>2. i \in 1..Len(seq) \/ i = Len(seq) + 1
    BY <1>1
  <2> QED
    BY <1>1, <2>1, <2>2 DEF ToSet
<1>3. ASSUME NEW x \in ToSet(seq) PROVE x \in ToSet(Append(seq, e))
  <2>1. PICK i \in 1..Len(seq) : x = seq[i]
    BY <1>1, <1>3 DEF ToSet
  <2>2. i \in 1..(Len(seq) + 1)
    BY <1>1
  <2> QED
    BY <1>1, <2>1, <2>2 DEF ToSet
<1>4. e \in ToSet(Append(seq, e))
  <2>1. Len(seq) + 1 \in 1..(Len(seq) + 1)
    BY <1>1
  <2> QED
    BY <1>1, <2>1 DEF ToSet
<1> QED
  BY <1>2, <1>3, <1>4

\* What detect reports are technologies of the database.
LEMMA DetectedTechnologies ==
  ASSUME NEW inputs
  PROVE  detect(inputs) \in Seq(ToSet(Technologies))
<1>1. Len(Technologies) \in 0..Len(Technologies)
  BY PageAnalysisAssumption DEF PageAnalysisAssumption
<1> QED
  BY <1>1, DetectRun

\* GetImplied's two variables: the technologies that are known, and the list of the
\* implied ones.
Implications(X) == [detected : SUBSET X, implied : Seq(X)]

\* Those of M that are not in D have been collected, each once.
Collected(a, D, M) ==
  /\ a.detected = D \union ToSet(a.implied)
  /\ IsInjective(a.implied)
  /\ ToSet(a.implied) = M \ D

\* The passes of GetImplied's inner loop.
AddImpliedPasses(run, acc, tech) ==
  /\ run[0] = acc
  /\ \A k \in 1..Len(tech.implies) : run[k] = IF tech.implies[k] \in run[k - 1].detected THEN run[k - 1]
                         ELSE [detected |-> run[k - 1].detected \union {tech.implies[k]},
                               implied |-> Append(run[k - 1].implied, tech.implies[k])]
  /\ AddImplied(acc, tech) = run[Len(tech.implies)]

LEMMA AddImpliedRun ==
  ASSUME NEW X, NEW acc \in Implications(X), NEW tech, tech.implies \in Seq(X)
  PROVE  \E run \in [0..Len(tech.implies) -> Implications(X)] : AddImpliedPasses(run, acc, tech)
<1> DEFINE n == Len(tech.implies)
           b == acc
           V == Implications(X)
           pass(v, k) == IF tech.implies[k] \in v.detected THEN v
                         ELSE [detected |-> v.detected \union {tech.implies[k]},
                               implied |-> Append(v.implied, tech.implies[k])]
           F == [k \in 1..n |-> [v \in V |-> pass(v, k)]]
           Solves(it) == it = [t \in SUBSET DOMAIN tech.implies |->
                                IF t = {} THEN b ELSE pass(it[t \ {Max(t)}], Max(t))]
           c == CHOOSE it : Solves(it)
<1>1. n \in Nat /\ DOMAIN tech.implies = 1..n /\ b \in V
  OBVIOUS
<1>2. ASSUME NEW v \in V, NEW k \in 1..n PROVE pass(v, k) \in V
  <2>1. tech.implies[k] \in X
    OBVIOUS
  <2>2. v.detected \in SUBSET X /\ v.implied \in Seq(X)
    BY DEF Implications
  <2>3. Append(v.implied, tech.implies[k]) \in Seq(X)
    BY <2>1, <2>2
  <2> QED
    BY <2>1, <2>2, <2>3 DEF Implications
<1>3. AddImplied(acc, tech) = c[DOMAIN tech.implies]
  <2> HIDE DEF n, V, F
  <2> QED
    BY DEF AddImplied, FoldLeft, MapThenFoldSet
<1> HIDE DEF n, b, V, pass
<1>4. F \in [1..n -> [V -> V]] /\ \A k \in 1..n : \A v \in V : F[k][v] = pass(v, k)
  BY <1>2
<1> HIDE DEF F
<1>5. PICK it \in [SUBSET (1..n) -> V] : Iterates(it, n, b, F)
  BY <1>1, <1>4, IterationExists, Zenon
<1>6. ASSUME NEW t \in SUBSET (1..n)
      PROVE  it[t] = IF t = {} THEN b ELSE pass(it[t \ {Max(t)}], Max(t))
  <2>1. CASE t = {}
    BY <1>5, <2>1 DEF Iterates
  <2>2. CASE t # {}
    <3>1. Max(t) \in 1..n
      BY <1>1, <2>2, GreatestPlace
    <3>2. it[t \ {Max(t)}] \in V
      BY <1>5
    <3>3. F[Max(t)][it[t \ {Max(t)}]] = pass(it[t \ {Max(t)}], Max(t))
      BY <1>4, <3>1, <3>2
    <3> QED
      BY <1>5, <2>2, <3>3 DEF Iterates
  <2> QED
    BY <2>1, <2>2
<1>7. Solves(it)
  BY <1>1, <1>6
<1>8. Solves(c)
  <2> HIDE DEF Solves
  <2> QED
    BY <1>7
<1>9. \A t \in SUBSET (1..n) :
        c[t] = IF t = {} THEN b ELSE pass(c[t \ {Max(t)}], Max(t))
  <2> HIDE DEF c
  <2> QED
    BY <1>1, <1>8
<1> HIDE DEF c, Solves
<1>10. c[{}] = b
  BY <1>9
<1>11. ASSUME NEW k \in 1..n, c[1..(k - 1)] \in V
       PROVE  c[1..k] = F[k][c[1..(k - 1)]]
  <2>1. 1..k \in SUBSET (1..n) /\ 1..k # {} /\ Max(1..k) = k /\ (1..k) \ {k} = 1..(k - 1)
    BY <1>1, LastPlace
  <2>2. c[1..k] = pass(c[1..(k - 1)], k)
    BY <1>9, <2>1
  <2> QED
    BY <1>4, <1>11, <2>2
<1>12. n \in Nat /\ b \in V /\ F \in [1..n -> [V -> V]] /\ Linked(c, n, b, V, F)
  BY <1>1, <1>4, <1>10, <1>11 DEF Linked
<1>13. PICK run \in [0..n -> V] : Passes(run, c, n, b, F)
  BY <1>12, RunOfChain, Zenon
<1>14. run[0] = b /\ run[n] = c[1..n] /\ \A k \in 1..n : run[k] = F[k][run[k - 1]]
  BY <1>13 DEF Passes
<1>15. ASSUME NEW k \in 1..n PROVE run[k] = pass(run[k - 1], k)
  <2>1. run[k - 1] \in V
    BY <1>1, <1>13
  <2> QED
    BY <1>4, <1>14, <2>1
<1> QED
  BY <1>1, <1>3, <1>13, <1>14, <1>15 DEF pass, n, b, V, AddImpliedPasses

\* A list without repetitions stays one when something new is appended.
LEMMA InjectiveAppend ==
  ASSUME NEW S, NEW seq \in Seq(S), IsInjective(seq), NEW e \in S, e \notin ToSet(seq)
  PROVE  IsInjective(Append(seq, e))
<1> DEFINE n == Len(seq)
           longer == Append(seq, e)
<1>1. /\ n \in Nat /\ DOMAIN seq = 1..n /\ DOMAIN longer = 1..(n + 1)
      /\ longer[n + 1] = e /\ \A i \in 1..n : longer[i] = seq[i]
  OBVIOUS
<1> HIDE DEF n, longer
<1>2. \A i \in 1..n : longer[i] # e
  BY <1>1 DEF ToSet
<1>3. \A i \in 1..(n + 1) : i \in 1..n \/ i = n + 1
  BY <1>1
<1>4. \A i, j \in 1..n : longer[i] = longer[j] => i = j
  BY <1>1 DEF IsInjective
<1>5. IsInjective(longer)
  BY <1>1, <1>2, <1>3, <1>4 DEF IsInjective
<1> QED
  BY <1>5 DEF longer

\* One more is collected.
LEMMA CollectedOne ==
  ASSUME NEW X, NEW a \in Implications(X), NEW D, NEW M, Collected(a, D, M), NEW imp \in X,
         imp \notin a.detected
  PROVE  Collected([detected |-> a.detected \union {imp}, implied |-> Append(a.implied, imp)],
                   D, M \union {imp})
<1> DEFINE list == Append(a.implied, imp)
<1>1. a.implied \in Seq(X)
  BY DEF Implications
<1>2. ToSet(list) = ToSet(a.implied) \union {imp}
  BY <1>1, ToSetOfAppend
<1>3. imp \notin D /\ imp \notin ToSet(a.implied)
  BY DEF Collected
<1>4. IsInjective(list)
  BY <1>1, <1>3, InjectiveAppend DEF Collected
<1> HIDE DEF list
<1>5. (M \union {imp}) \ D = (M \ D) \union {imp}
  BY <1>3
<1>6. ToSet(list) = (M \union {imp}) \ D
  BY <1>2, <1>5 DEF Collected
<1>7. a.detected \union {imp} = D \union ToSet(list)
  BY <1>2 DEF Collected
<1>8. Collected([detected |-> a.detected \union {imp}, implied |-> list], D, M \union {imp})
  BY <1>4, <1>6, <1>7 DEF Collected
<1> QED
  BY <1>8 DEF list

\* GetImplied's inner loop collects what one technology implies.
LEMMA ImpliedByOne ==
  ASSUME NEW X, NEW acc \in Implications(X), NEW tech, tech.implies \in Seq(X),
         NEW D, NEW M, Collected(acc, D, M)
  PROVE  /\ AddImplied(acc, tech) \in Implications(X)
         /\ Collected(AddImplied(acc, tech), D, M \union ToSet(tech.implies))
<1> DEFINE n == Len(tech.implies)
           imp(k) == tech.implies[k]
<1>1. /\ n \in Nat /\ DOMAIN tech.implies = 1..n /\ \A k \in 1..n : imp(k) \in X
      /\ ToSet(tech.implies) = {imp(i) : i \in 1..n}
  BY DEF ToSet
<1>0. PICK run \in [0..n -> Implications(X)] : AddImpliedPasses(run, acc, tech)
  BY AddImpliedRun, Zenon
<1>2. /\ run[0] = acc
      /\ \A k \in 1..n :
           run[k] = IF imp(k) \in run[k - 1].detected THEN run[k - 1]
                    ELSE [detected |-> run[k - 1].detected \union {imp(k)},
                          implied |-> Append(run[k - 1].implied, imp(k))]
      /\ AddImplied(acc, tech) = run[n]
  BY <1>0 DEF AddImpliedPasses
<1> HIDE DEF n, imp
<1> DEFINE So(k) == M \union {imp(i) : i \in 1..k}
           P == {k \in 0..n : Collected(run[k], D, So(k))}
<1>3. 0 \in P
  <2>1. So(0) = M /\ 0 \in 0..n
    BY <1>1
  <2> HIDE DEF So
  <2> QED
    BY <1>2, <2>1
<1>4. ASSUME NEW k \in 1..n, k - 1 \in P PROVE k \in P
  <2>1. Collected(run[k - 1], D, So(k - 1)) /\ run[k - 1] \in Implications(X) /\ k \in 0..n
    BY <1>1, <1>2, <1>4
  <2>2. So(k) = So(k - 1) \union {imp(k)}
    <3>1. 1..k = (1..(k - 1)) \union {k}
      BY <1>1
    <3> QED
      BY <3>1
  <2> HIDE DEF So
  <2>3. Collected(run[k], D, So(k))
    <3>1. CASE imp(k) \in run[k - 1].detected
      <4>1. run[k] = run[k - 1]
        BY <1>2, <3>1
      <4>2. So(k) \ D = So(k - 1) \ D
        BY <2>1, <2>2, <3>1 DEF Collected
      <4> QED
        BY <2>1, <4>1, <4>2 DEF Collected
    <3>2. CASE imp(k) \notin run[k - 1].detected
      <4>1. run[k] = [detected |-> run[k - 1].detected \union {imp(k)},
                      implied |-> Append(run[k - 1].implied, imp(k))]
        BY <1>2, <3>2
      <4>2. imp(k) \in X
        BY <1>1
      <4>3. Collected([detected |-> run[k - 1].detected \union {imp(k)},
                       implied |-> Append(run[k - 1].implied, imp(k))],
                      D, So(k - 1) \union {imp(k)})
        BY <2>1, <3>2, <4>2, CollectedOne, Zenon
      <4> QED
        BY <2>2, <4>1, <4>3
    <3> QED
      BY <3>1, <3>2
  <2> QED
    BY <2>1, <2>3
<1>5. n \in P
  <2> HIDE DEF P
  <2>1. \A k \in 1..n : k - 1 \in P => k \in P
    BY <1>4
  <2>2. \A k \in 0..n : k \in P
    BY <1>1, <1>3, <2>1, EveryPass
  <2> QED
    BY <1>1, <2>2
<1>6. So(n) = M \union ToSet(tech.implies)
  BY <1>1
<1>7. run[n] \in Implications(X)
  BY <1>1, <1>2
<1> QED
  BY <1>2, <1>5, <1>6, <1>7

\* The passes of GetImplied's outer loop.
GetImpliedPasses(run, first, found) ==
  /\ run[0] = first
  /\ \A k \in 1..Len(found) : run[k] = AddImplied(run[k - 1], found[k])
  /\ FoldLeft(AddImplied, first, found) = run[Len(found)]

LEMMA GetImpliedRun ==
  ASSUME NEW X, NEW S, NEW found \in Seq(S), NEW first \in Implications(X),
         \A tech \in S : tech.implies \in Seq(X),
         \A acc \in Implications(X) : \A tech \in S : AddImplied(acc, tech) \in Implications(X)
  PROVE  \E run \in [0..Len(found) -> Implications(X)] : GetImpliedPasses(run, first, found)
<1> DEFINE n == Len(found)
           b == first
           V == Implications(X)
           pass(v, k) == AddImplied(v, found[k])
           F == [k \in 1..n |-> [v \in V |-> pass(v, k)]]
           Solves(it) == it = [t \in SUBSET DOMAIN found |->
                                IF t = {} THEN b ELSE pass(it[t \ {Max(t)}], Max(t))]
           c == CHOOSE it : Solves(it)
<1>1. n \in Nat /\ DOMAIN found = 1..n /\ b \in V
  OBVIOUS
<1>2. ASSUME NEW v \in V, NEW k \in 1..n PROVE pass(v, k) \in V
  <2>1. found[k] \in S
    OBVIOUS
  <2> QED
    BY <2>1
<1>3. FoldLeft(AddImplied, first, found) = c[DOMAIN found]
  <2> HIDE DEF n, V, F
  <2> QED
    BY DEF FoldLeft, MapThenFoldSet
<1> HIDE DEF n, b, V, pass
<1>4. F \in [1..n -> [V -> V]] /\ \A k \in 1..n : \A v \in V : F[k][v] = pass(v, k)
  BY <1>2
<1> HIDE DEF F
<1>5. PICK it \in [SUBSET (1..n) -> V] : Iterates(it, n, b, F)
  BY <1>1, <1>4, IterationExists, Zenon
<1>6. ASSUME NEW t \in SUBSET (1..n)
      PROVE  it[t] = IF t = {} THEN b ELSE pass(it[t \ {Max(t)}], Max(t))
  <2>1. CASE t = {}
    BY <1>5, <2>1 DEF Iterates
  <2>2. CASE t # {}
    <3>1. Max(t) \in 1..n
      BY <1>1, <2>2, GreatestPlace
    <3>2. it[t \ {Max(t)}] \in V
      BY <1>5
    <3>3. F[Max(t)][it[t \ {Max(t)}]] = pass(it[t \ {Max(t)}], Max(t))
      BY <1>4, <3>1, <3>2
    <3> QED
      BY <1>5, <2>2, <3>3 DEF Iterates
  <2> QED
    BY <2>1, <2>2
<1>7. Solves(it)
  BY <1>1, <1>6
<1>8. Solves(c)
  <2> HIDE DEF Solves
  <2> QED
    BY <1>7
<1>9. \A t \in SUBSET (1..n) :
        c[t] = IF t = {} THEN b ELSE pass(c[t \ {Max(t)}], Max(t))
  <2> HIDE DEF c
  <2> QED
    BY <1>1, <1>8
<1> HIDE DEF c, Solves
<1>10. c[{}] = b
  BY <1>9
<1>11. ASSUME NEW k \in 1..n, c[1..(k - 1)] \in V
       PROVE  c[1..k] = F[k][c[1..(k - 1)]]
  <2>1. 1..k \in SUBSET (1..n) /\ 1..k # {} /\ Max(1..k) = k /\ (1..k) \ {k} = 1..(k - 1)
    BY <1>1, LastPlace
  <2>2. c[1..k] = pass(c[1..(k - 1)], k)
    BY <1>9, <2>1
  <2> QED
    BY <1>4, <1>11, <2>2
<1>12. n \in Nat /\ b \in V /\ F \in [1..n -> [V -> V]] /\ Linked(c, n, b, V, F)
  BY <1>1, <1>4, <1>10, <1>11 DEF Linked
<1>13. PICK run \in [0..n -> V] : Passes(run, c, n, b, F)
  BY <1>12, RunOfChain, Zenon
<1>14. run[0] = b /\ run[n] = c[1..n] /\ \A k \in 1..n : run[k] = F[k][run[k - 1]]
  BY <1>13 DEF Passes
<1>15. ASSUME NEW k \in 1..n PROVE run[k] = pass(run[k - 1], k)
  <2>1. run[k - 1] \in V
    BY <1>1, <1>13
  <2> QED
    BY <1>4, <1>14, <2>1
<1> QED
  BY <1>1, <1>3, <1>13, <1>14, <1>15 DEF pass, n, b, V, GetImpliedPasses

LEMMA AddImpliedType ==
  ASSUME NEW X, NEW acc \in Implications(X), NEW tech, tech.implies \in Seq(X)
  PROVE  AddImplied(acc, tech) \in Implications(X)
<1>1. PICK run \in [0..Len(tech.implies) -> Implications(X)] : AddImpliedPasses(run, acc, tech)
  BY AddImpliedRun, Zenon
<1> QED
  BY <1>1 DEF AddImpliedPasses

\* Every technology that a detected one implies is listed once, unless it was
\* detected itself.
LEMMA ImpliedHolds ==
  ASSUME NEW found \in Seq(ToSet(Technologies))
  PROVE  ImpliedIsExact(found)
<1> DEFINE S == ToSet(Technologies)
           D == {tech.slug : tech \in ToSet(found)}
           X == D \union UNION {ToSet(tech.implies) : tech \in S}
           n == Len(found)
           first == [detected |-> D, implied |-> <<>>]
<1>1. n \in Nat /\ DOMAIN found = 1..n /\ \A k \in 1..n : found[k] \in S
  OBVIOUS
<1>2. ASSUME NEW tech \in S PROVE tech.implies \in Seq(X)
  <2>1. tech.implies \in Seq(ToSet(tech.implies)) /\ ToSet(tech.implies) \subseteq X
    BY PageAnalysisAssumption DEF PageAnalysisAssumption
  <2> HIDE DEF X
  <2> QED
    BY <2>1, SeqMonotonic
<1>3. ToSet(found) = {found[i] : i \in 1..n}
  BY <1>1 DEF ToSet
<1>4. D \subseteq X
  OBVIOUS
<1>5. GetImplied(found) = FoldLeft(AddImplied, first, found).implied
  BY DEF GetImplied
<1> HIDE DEF S, X, n, D
<1>6. first \in Implications(X) /\ Collected(first, D, {})
  <2>1. first.detected = D /\ first.implied = <<>> /\ <<>> \in Seq(X)
    OBVIOUS
  <2>2. ToSet(<<>>) = {} /\ IsInjective(<<>>)
    BY DEF ToSet, IsInjective
  <2> QED
    BY <1>4, <2>1, <2>2 DEF Implications, Collected
<1> HIDE DEF first
<1>7. ASSUME NEW acc \in Implications(X), NEW tech \in S, NEW M, Collected(acc, D, M)
      PROVE  Collected(AddImplied(acc, tech), D, M \union ToSet(tech.implies))
  BY <1>2, <1>7, ImpliedByOne
<1>8. \A acc \in Implications(X) : \A tech \in S : AddImplied(acc, tech) \in Implications(X)
  BY <1>2, AddImpliedType
<1>0. PICK run \in [0..n -> Implications(X)] : GetImpliedPasses(run, first, found)
  <2>1. found \in Seq(S) /\ first \in Implications(X) /\ \A tech \in S : tech.implies \in Seq(X)
    BY <1>2, <1>6 DEF S
  <2> QED
    BY <1>8, <2>1, GetImpliedRun, Zenon DEF n
<1>9. /\ run[0] = first
      /\ \A k \in 1..n : run[k] = AddImplied(run[k - 1], found[k])
      /\ FoldLeft(AddImplied, first, found) = run[n]
  BY <1>0 DEF GetImpliedPasses, n
<1> DEFINE So(k) == UNION {ToSet(found[i].implies) : i \in 1..k}
           P == {k \in 0..n : Collected(run[k], D, So(k))}
<1>10. 0 \in P
  <2>1. So(0) = {} /\ 0 \in 0..n
    BY <1>1
  <2> HIDE DEF So
  <2> QED
    BY <1>6, <1>9, <2>1
<1>11. ASSUME NEW k \in 1..n, k - 1 \in P PROVE k \in P
  <2>1. /\ Collected(run[k - 1], D, So(k - 1)) /\ run[k - 1] \in Implications(X)
        /\ k \in 0..n /\ found[k] \in S
    BY <1>1, <1>9, <1>11
  <2>2. So(k) = So(k - 1) \union ToSet(found[k].implies)
    <3>1. 1..k = (1..(k - 1)) \union {k}
      BY <1>1
    <3> QED
      BY <3>1
  <2> HIDE DEF So
  <2>3. Collected(run[k], D, So(k))
    BY <1>7, <1>9, <2>1, <2>2
  <2> QED
    BY <2>1, <2>3
<1>12. Collected(run[n], D, So(n))
  <2> HIDE DEF P
  <2>1. \A k \in 1..n : k - 1 \in P => k \in P
    BY <1>11
  <2>2. \A k \in 0..n : k \in P
    BY <1>1, <1>10, <2>1, EveryPass
  <2>3. n \in P
    BY <1>1, <2>2
  <2> QED
    BY <2>3 DEF P
<1>13. So(n) = UNION {ToSet(tech.implies) : tech \in ToSet(found)}
  BY <1>3
<1> HIDE DEF So
<1>14. GetImplied(found) = run[n].implied
  BY <1>5, <1>9
<1>15. /\ IsInjective(GetImplied(found))
       /\ ToSet(GetImplied(found)) = So(n) \ D
  BY <1>12, <1>14 DEF Collected
<1> QED
  BY <1>13, <1>15 DEF ImpliedIsExact, D

-----------------------------------------------------------------------------
(***************************************************************************)
(* What FindContactPages computes.  Its first loop keeps the first         *)
(* eligible link to each page; its exchange sort only moves candidates,    *)
(* and after pass i the first i places hold the best ones, in order.       *)
(***************************************************************************)
Hrefs(links) == {link.href : link \in ToSet(links)}
Candidates(links) == [href : Hrefs(links), score : Nat]

\* The passes of the loop over the links.
AddCandidatePasses(run, links) ==
  /\ run[0] = <<>>
  /\ \A k \in 1..Len(links) : run[k] = AddCandidate(run[k - 1], links[k])
  /\ FoldLeft(AddCandidate, <<>>, links) = run[Len(links)]

LEMMA AddCandidateRun ==
  ASSUME NEW links, links \in Seq(ToSet(links))
  PROVE  \E run \in [0..Len(links) -> Seq(Candidates(links))] : AddCandidatePasses(run, links)
<1> DEFINE n == Len(links)
           b == <<>>
           V == Seq(Candidates(links))
           pass(v, k) == AddCandidate(v, links[k])
           F == [k \in 1..n |-> [v \in V |-> pass(v, k)]]
           Solves(it) == it = [t \in SUBSET DOMAIN links |->
                                IF t = {} THEN b ELSE pass(it[t \ {Max(t)}], Max(t))]
           c == CHOOSE it : Solves(it)
<1>1. n \in Nat /\ DOMAIN links = 1..n /\ b \in V
  OBVIOUS
<1>2. ASSUME NEW v \in V, NEW k \in 1..n PROVE pass(v, k) \in V
  <2>1. links[k].href \in Hrefs(links) /\ Score(links[k]) \in Nat
    BY DEF Hrefs, Score, ToSet
  <2>2. [href |-> links[k].href, score |-> Score(links[k])] \in Candidates(links)
    BY <2>1 DEF Candidates
  <2> QED
    BY <2>2 DEF AddCandidate
<1>3. FoldLeft(AddCandidate, <<>>, links) = c[DOMAIN links]
  <2> HIDE DEF n, V, F
  <2> QED
    BY DEF FoldLeft, MapThenFoldSet
<1> HIDE DEF n, b, V, pass
<1>4. F \in [1..n -> [V -> V]] /\ \A k \in 1..n : \A v \in V : F[k][v] = pass(v, k)
  BY <1>2
<1> HIDE DEF F
<1>5. PICK it \in [SUBSET (1..n) -> V] : Iterates(it, n, b, F)
  BY <1>1, <1>4, IterationExists, Zenon
<1>6. ASSUME NEW t \in SUBSET (1..n)
      PROVE  it[t] = IF t = {} THEN b ELSE pass(it[t \ {Max(t)}], Max(t))
  <2>1. CASE t = {}
    BY <1>5, <2>1 DEF Iterates
  <2>2. CASE t # {}
    <3>1. Max(t) \in 1..n
      BY <1>1, <2>2, GreatestPlace
    <3>2. it[t \ {Max(t)}] \in V
      BY <1>5
    <3>3. F[Max(t)][it[t \ {Max(t)}]] = pass(it[t \ {Max(t)}], Max(t))
      BY <1>4, <3>1, <3>2
    <3> QED
      BY <1>5, <2>2, <3>3 DEF Iterates
  <2> QED
    BY <2>1, <2>2
<1>7. Solves(it)
  BY <1>1, <1>6
<1>8. Solves(c)
  <2> HIDE DEF Solves
  <2> QED
    BY <1>7
<1>9. \A t \in SUBSET (1..n) :
        c[t] = IF t = {} THEN b ELSE pass(c[t \ {Max(t)}], Max(t))
  <2> HIDE DEF c
  <2> QED
    BY <1>1, <1>8
<1> HIDE DEF c, Solves
<1>10. c[{}] = b
  BY <1>9
<1>11. ASSUME NEW k \in 1..n, c[1..(k - 1)] \in V
       PROVE  c[1..k] = F[k][c[1..(k - 1)]]
  <2>1. 1..k \in SUBSET (1..n) /\ 1..k # {} /\ Max(1..k) = k /\ (1..k) \ {k} = 1..(k - 1)
    BY <1>1, LastPlace
  <2>2. c[1..k] = pass(c[1..(k - 1)], k)
    BY <1>9, <2>1
  <2> QED
    BY <1>4, <1>11, <2>2
<1>12. n \in Nat /\ b \in V /\ F \in [1..n -> [V -> V]] /\ Linked(c, n, b, V, F)
  BY <1>1, <1>4, <1>10, <1>11 DEF Linked
<1>13. PICK run \in [0..n -> V] : Passes(run, c, n, b, F)
  BY <1>12, RunOfChain, Zenon
<1>14. run[0] = b /\ run[n] = c[1..n] /\ \A k \in 1..n : run[k] = F[k][run[k - 1]]
  BY <1>13 DEF Passes
<1>15. ASSUME NEW k \in 1..n PROVE run[k] = pass(run[k - 1], k)
  <2>1. run[k - 1] \in V
    BY <1>1, <1>13
  <2> QED
    BY <1>4, <1>14, <2>1
<1> QED
  BY <1>1, <1>3, <1>13, <1>14, <1>15 DEF pass, n, b, V, AddCandidatePasses

\* The place of the first eligible link to a page.
Leads(link, href) == Eligible(link) /\ link.href = href
FirstLink(links, j, href) ==
  /\ j \in 1..Len(links)
  /\ Leads(links[j], href)
  /\ \A m \in 1..Len(links) : m < j => ~Leads(links[m], href)

LEMMA PageScoreOfFirst ==
  ASSUME NEW links, links \in Seq(ToSet(links)), NEW href, NEW j, FirstLink(links, j, href)
  PROVE  PageScore(links, href) = Score(links[j])
<1> DEFINE I == {i \in 1..Len(links) : Leads(links[i], href)}
<1>1. Len(links) \in Nat
  OBVIOUS
<1>2. j \in I /\ \A i \in I : j <= i
  <2>1. ASSUME NEW i \in I PROVE j <= i
    <3>1. ~(i < j) /\ i \in Nat /\ j \in Nat
      BY <1>1 DEF FirstLink
    <3> QED
      BY <3>1
  <2> QED
    BY <2>1 DEF FirstLink
<1>3. I \in SUBSET Nat
  BY <1>1
<1> HIDE DEF I
<1>4. Min(I) \in I /\ \A i \in I : Min(I) <= i
  BY <1>2 DEF Min
<1>5. Min(I) = j
  <2>1. Min(I) <= j /\ j <= Min(I) /\ j \in Nat /\ Min(I) \in Nat
    BY <1>2, <1>3, <1>4
  <2> QED
    BY <2>1
<1>6. SelectInSeq(links, LAMBDA link : Eligible(link) /\ link.href = href) = Min(I)
  BY <1>2 DEF SelectInSeq, I, Leads
<1> QED
  BY <1>5, <1>6 DEF PageScore

\* A list of candidates: no page twice, each with the score of its first link, for
\* all the pages that the first k links lead to.
Listed(cands, links, k) ==
  /\ \A i, j \in DOMAIN cands : cands[i].href = cands[j].href => i = j
  /\ \A i \in DOMAIN cands :
       \E j \in 1..k : /\ FirstLink(links, j, cands[i].href)
                       /\ cands[i].score = Score(links[j])
  /\ \A j \in 1..k : Eligible(links[j]) => \E i \in DOMAIN cands : cands[i].href = links[j].href

\* The next link keeps it.
LEMMA ListedNext ==
  ASSUME NEW links, links \in Seq(ToSet(links)), NEW k \in 1..Len(links),
         NEW cands \in Seq(Candidates(links)), Listed(cands, links, k - 1)
  PROVE  Listed(AddCandidate(cands, links[k]), links, k)
<1> DEFINE link == links[k]
           n == Len(cands)
<1>1. /\ n \in Nat /\ DOMAIN cands = 1..n /\ k \in Nat /\ k - 1 \in Nat /\ Len(links) \in Nat
      /\ k \in 1..k /\ \A j \in 1..(k - 1) : j \in 1..k
      /\ \A j \in 1..k : j \in 1..(k - 1) \/ j = k
  OBVIOUS
<1>2. CASE ~(Eligible(link) /\ \A i \in DOMAIN cands : cands[i].href # link.href)
  <2>1. AddCandidate(cands, link) = cands
    BY <1>2 DEF AddCandidate
  <2>2. Eligible(link) => \E i \in DOMAIN cands : cands[i].href = link.href
    BY <1>2
  <2> QED
    BY <1>1, <2>1, <2>2 DEF Listed
<1>3. CASE Eligible(link) /\ \A i \in DOMAIN cands : cands[i].href # link.href
  <2> DEFINE cand == [href |-> link.href, score |-> Score(link)]
             more == Append(cands, cand)
  <2>1. AddCandidate(cands, link) = more
    BY <1>3 DEF AddCandidate
  <2>2. link.href \in Hrefs(links) /\ Score(link) \in Nat
    BY DEF Hrefs, Score, ToSet
  <2>3. cand \in Candidates(links) /\ cand.href = link.href /\ cand.score = Score(link)
    BY <2>2 DEF Candidates
  <2> HIDE DEF cand
  <2>4. /\ DOMAIN more = 1..(n + 1) /\ more[n + 1] = cand
        /\ \A i \in 1..n : more[i] = cands[i]
        /\ n + 1 \in 1..(n + 1) /\ \A i \in 1..n : i \in 1..(n + 1)
        /\ \A i \in 1..(n + 1) : i \in 1..n \/ i = n + 1
    BY <1>1, <2>3
  <2> HIDE DEF more, n, link
  <2>5. FirstLink(links, k, link.href)
    <3>1. Leads(links[k], link.href)
      BY <1>3 DEF Leads, link
    <3>2. ASSUME NEW m \in 1..Len(links), m < k, Leads(links[m], link.href) PROVE FALSE
      <4>1. m \in 1..(k - 1)
        BY <1>1, <3>2
      <4>2. PICK i \in DOMAIN cands : cands[i].href = links[m].href
        BY <3>2, <4>1 DEF Listed, Leads
      <4> QED
        BY <1>3, <3>2, <4>2 DEF Leads
    <3> QED
      BY <3>1, <3>2 DEF FirstLink
  <2>6. \A i, j \in DOMAIN more : more[i].href = more[j].href => i = j
    <3>1. \A i, j \in 1..n : more[i].href = more[j].href => i = j
      BY <1>1, <2>4 DEF Listed
    <3>2. \A i \in 1..n : more[i].href # more[n + 1].href
      BY <1>1, <1>3, <2>3, <2>4
    <3> QED
      BY <2>4, <3>1, <3>2
  <2>7. ASSUME NEW i \in DOMAIN more
        PROVE  \E j \in 1..k : /\ FirstLink(links, j, more[i].href)
                               /\ more[i].score = Score(links[j])
    <3>1. CASE i \in 1..n
      <4>1. PICK j \in 1..(k - 1) : /\ FirstLink(links, j, cands[i].href)
                                    /\ cands[i].score = Score(links[j])
        BY <1>1, <3>1 DEF Listed
      <4> QED
        BY <1>1, <2>4, <3>1, <4>1
    <3>2. CASE i = n + 1
      BY <1>1, <2>3, <2>4, <2>5, <3>2 DEF link
    <3> QED
      BY <2>4, <3>1, <3>2
  <2>8. ASSUME NEW j \in 1..k, Eligible(links[j])
        PROVE  \E i \in DOMAIN more : more[i].href = links[j].href
    <3>1. CASE j \in 1..(k - 1)
      <4>1. PICK i \in 1..n : cands[i].href = links[j].href
        BY <1>1, <2>8, <3>1 DEF Listed
      <4> QED
        BY <2>4, <4>1
    <3>2. CASE j = k
      BY <2>3, <2>4, <3>2 DEF link
    <3> QED
      BY <1>1, <3>1, <3>2
  <2>9. Listed(more, links, k)
    BY <2>6, <2>7, <2>8 DEF Listed
  <2> QED
    BY <2>1, <2>9 DEF link
<1> QED
  BY <1>2, <1>3

\* The first loop lists every page that an eligible link leads to.
LEMMA CandidatesListed ==
  ASSUME NEW links, links \in Seq(ToSet(links))
  PROVE  /\ FoldLeft(AddCandidate, <<>>, links) \in Seq(Candidates(links))
         /\ Listed(FoldLeft(AddCandidate, <<>>, links), links, Len(links))
<1> DEFINE n == Len(links)
           V == Seq(Candidates(links))
<1>1. n \in Nat
  OBVIOUS
<1>2. PICK run \in [0..n -> V] : AddCandidatePasses(run, links)
  BY AddCandidateRun, Zenon
<1>3. /\ run[0] = <<>> /\ \A k \in 1..n : run[k] = AddCandidate(run[k - 1], links[k])
      /\ FoldLeft(AddCandidate, <<>>, links) = run[n]
  BY <1>2 DEF AddCandidatePasses
<1> DEFINE P == {k \in 0..n : Listed(run[k], links, k)}
<1>4. 0 \in P
  <2>1. 1..0 = {} /\ 0 \in 0..n /\ DOMAIN run[0] = {}
    BY <1>1, <1>3
  <2> QED
    BY <2>1 DEF Listed
<1>5. ASSUME NEW k \in 1..n, k - 1 \in P PROVE k \in P
  <2>1. run[k - 1] \in V /\ Listed(run[k - 1], links, k - 1) /\ k \in 0..n
    BY <1>1, <1>2, <1>5
  <2>2. Listed(AddCandidate(run[k - 1], links[k]), links, k)
    BY <2>1, ListedNext
  <2> QED
    BY <1>3, <2>1, <2>2
<1> HIDE DEF P
<1>6. \A k \in 1..n : k - 1 \in P => k \in P
  BY <1>5
<1>7. \A k \in 0..n : k \in P
  BY <1>1, <1>4, <1>6, EveryPass
<1>8. n \in P /\ run[n] \in V
  BY <1>1, <1>2, <1>7
<1> QED
  BY <1>3, <1>8 DEF P

\* The places that the loops of the sort go through.
Places(c) == [x \in DOMAIN c |-> x]

LEMMA PlacesOf ==
  ASSUME NEW C, NEW n \in Nat, NEW c \in [1..n -> C]
  PROVE  /\ Places(c) \in Seq(Nat) /\ Len(Places(c)) = n /\ DOMAIN Places(c) = 1..n
         /\ \A k \in 1..n : Places(c)[k] = k
<1>1. Places(c) = [x \in 1..n |-> x]
  BY DEF Places
<1>2. Places(c) \in [1..n -> Nat]
  BY <1>1
<1> QED
  BY <1>1, <1>2

\* The exchange of two candidates, or none.
LEMMA ExchangeOf ==
  ASSUME NEW C, NEW n \in Nat, NEW c \in [1..n -> C], NEW i \in 1..n, NEW j \in 1..n
  PROVE  Exchange(c, i, j) \in [1..n -> C]
BY DEF Exchange

\* The passes of the sort's inner loop.
ExchangePasses(run, cands, i) ==
  /\ run[0] = cands
  /\ \A k \in 1..Len(Places(cands)) : run[k] = Exchange(run[k - 1], i, Places(cands)[k])
  /\ ExchangePass(cands, i) = run[Len(Places(cands))]

LEMMA PassRun ==
  ASSUME NEW C, NEW n0 \in Nat, NEW cands \in [1..n0 -> C], NEW i \in 1..n0
  PROVE  \E run \in [0..Len(Places(cands)) -> [1..n0 -> C]] : ExchangePasses(run, cands, i)
<1> DEFINE n == Len(Places(cands))
           b == cands
           V == [1..n0 -> C]
           pass(v, k) == Exchange(v, i, Places(cands)[k])
           F == [k \in 1..n |-> [v \in V |-> pass(v, k)]]
           Solves(it) == it = [t \in SUBSET DOMAIN Places(cands) |->
                                IF t = {} THEN b ELSE pass(it[t \ {Max(t)}], Max(t))]
           c == CHOOSE it : Solves(it)
<1>1. n \in Nat /\ DOMAIN Places(cands) = 1..n /\ b \in V
  BY PlacesOf
<1>2. ASSUME NEW v \in V, NEW k \in 1..n PROVE pass(v, k) \in V
  <2>1. Places(cands)[k] \in 1..n0
    BY PlacesOf
  <2> QED
    BY <2>1, ExchangeOf
<1>3. ExchangePass(cands, i) = c[DOMAIN Places(cands)]
  <2> HIDE DEF n, V, F
  <2> QED
    BY DEF ExchangePass, FoldLeftDomain, Places, FoldLeft, MapThenFoldSet
<1> HIDE DEF n, b, V, pass
<1>4. F \in [1..n -> [V -> V]] /\ \A k \in 1..n : \A v \in V : F[k][v] = pass(v, k)
  BY <1>2
<1> HIDE DEF F
<1>5. PICK it \in [SUBSET (1..n) -> V] : Iterates(it, n, b, F)
  BY <1>1, <1>4, IterationExists, Zenon
<1>6. ASSUME NEW t \in SUBSET (1..n)
      PROVE  it[t] = IF t = {} THEN b ELSE pass(it[t \ {Max(t)}], Max(t))
  <2>1. CASE t = {}
    BY <1>5, <2>1 DEF Iterates
  <2>2. CASE t # {}
    <3>1. Max(t) \in 1..n
      BY <1>1, <2>2, GreatestPlace
    <3>2. it[t \ {Max(t)}] \in V
      BY <1>5
    <3>3. F[Max(t)][it[t \ {Max(t)}]] = pass(it[t \ {Max(t)}], Max(t))
      BY <1>4, <3>1, <3>2
    <3> QED
      BY <1>5, <2>2, <3>3 DEF Iterates
  <2> QED
    BY <2>1, <2>2
<1>7. Solves(it)
  BY <1>1, <1>6
<1>8. Solves(c)
  <2> HIDE DEF Solves
  <2> QED
    BY <1>7
<1>9. \A t \in SUBSET (1..n) :
        c[t] = IF t = {} THEN b ELSE pass(c[t \ {Max(t)}], Max(t))
  <2> HIDE DEF c
  <2> QED
    BY <1>1, <1>8
<1> HIDE DEF c, Solves
<1>10. c[{}] = b
  BY <1>9
<1>11. ASSUME NEW k \in 1..n, c[1..(k - 1)] \in V
       PROVE  c[1..k] = F[k][c[1..(k - 1)]]
  <2>1. 1..k \in SUBSET (1..n) /\ 1..k # {} /\ Max(1..k) = k /\ (1..k) \ {k} = 1..(k - 1)
    BY <1>1, LastPlace
  <2>2. c[1..k] = pass(c[1..(k - 1)], k)
    BY <1>9, <2>1
  <2> QED
    BY <1>4, <1>11, <2>2
<1>12. n \in Nat /\ b \in V /\ F \in [1..n -> [V -> V]] /\ Linked(c, n, b, V, F)
  BY <1>1, <1>4, <1>10, <1>11 DEF Linked
<1>13. PICK run \in [0..n -> V] : Passes(run, c, n, b, F)
  BY <1>12, RunOfChain, Zenon
<1>14. run[0] = b /\ run[n] = c[1..n] /\ \A k \in 1..n : run[k] = F[k][run[k - 1]]
  BY <1>13 DEF Passes
<1>15. ASSUME NEW k \in 1..n PROVE run[k] = pass(run[k - 1], k)
  <2>1. run[k - 1] \in V
    BY <1>1, <1>13
  <2> QED
    BY <1>4, <1>14, <2>1
<1> QED
  BY <1>1, <1>3, <1>13, <1>14, <1>15 DEF pass, n, b, V, ExchangePasses

\* What the inner loop returns.
LEMMA PassType ==
  ASSUME NEW C, NEW n \in Nat, NEW c \in [1..n -> C], NEW i \in 1..n
  PROVE  ExchangePass(c, i) \in [1..n -> C]
<1> DEFINE V == [1..n -> C]
<1>1. PICK run \in [0..Len(Places(c)) -> V] : ExchangePasses(run, c, i)
  BY PassRun, Zenon
<1>2. Len(Places(c)) = n
  BY PlacesOf
<1> QED
  BY <1>1, <1>2 DEF ExchangePasses

\* The order of a prefix: nothing after one of the first m places scores higher.
Ranks(c, n, m) == \A a \in 1..m : \A b \in 1..n : a < b => c[a].score >= c[b].score

\* Sorting only moves candidates.
Permutes(c, d, n) ==
  /\ {c[x] : x \in 1..n} = {d[x] : x \in 1..n}
  /\ \A x, y \in 1..n : c[x].href = c[y].href => x = y

\* One step of the inner loop, for place i: place i has the best of those seen.
Leading(c, d, n, i, j) ==
  /\ Permutes(c, d, n)
  /\ Ranks(c, n, i - 1)
  /\ \A b \in 1..j : i < b => c[i].score >= c[b].score

LEMMA ExchangeLeads ==
  ASSUME NEW C, NEW n \in Nat, NEW c \in [1..n -> C], NEW d, NEW i \in 1..n, NEW j \in 1..n,
         \A x \in 1..n : c[x].score \in Nat,
         Leading(c, d, n, i, j - 1)
  PROVE  Leading(Exchange(c, i, j), d, n, i, j)
<1> DEFINE e == Exchange(c, i, j)
<1>1. \A b \in 1..j : b \in 1..(j - 1) \/ b = j
  OBVIOUS
<1>2. \A b \in 1..j : b \in 1..n
  OBVIOUS
<1>3. CASE ~(j > i /\ c[j].score > c[i].score)
  <2>1. e = c
    BY <1>3 DEF Exchange
  <2>2. i < j => c[i].score >= c[j].score
    <3>1. c[i].score \in Nat /\ c[j].score \in Nat
      OBVIOUS
    <3> QED
      BY <1>3, <3>1
  <2>3. Leading(c, d, n, i, j)
    BY <1>1, <2>2 DEF Leading
  <2> QED
    BY <2>1, <2>3
<1>4. CASE j > i /\ c[j].score > c[i].score
  <2>0. e = [c EXCEPT ![i] = c[j], ![j] = c[i]] /\ i # j
    BY <1>4 DEF Exchange
  <2>1. /\ e[i] = c[j] /\ e[j] = c[i] /\ i # j
        /\ \A x \in 1..n : x # i /\ x # j => e[x] = c[x]
    <3> HIDE DEF e
    <3> QED
      BY <2>0
  <2> HIDE DEF e
  <2> DEFINE f == [x \in 1..n |-> IF x = i THEN j ELSE IF x = j THEN i ELSE x]
  <2>2. /\ \A x \in 1..n : f[x] \in 1..n /\ f[f[x]] = x /\ e[x] = c[f[x]]
        /\ \A x \in 1..n : x # i /\ x # j => f[x] = x
    BY <2>1
  <2> HIDE DEF f
  <2>3. Permutes(e, d, n)
    <3>1. {e[x] : x \in 1..n} = {c[x] : x \in 1..n}
      <4>1. ASSUME NEW x \in 1..n PROVE c[x] \in {e[y] : y \in 1..n}
        <5>1. f[x] \in 1..n /\ e[f[x]] = c[x]
          BY <2>2
        <5> QED
          BY <5>1
      <4>2. ASSUME NEW x \in 1..n PROVE e[x] \in {c[y] : y \in 1..n}
        BY <2>2
      <4> QED
        BY <4>1, <4>2
    <3>2. ASSUME NEW x \in 1..n, NEW y \in 1..n, e[x].href = e[y].href PROVE x = y
      <4>1. f[x] = f[y]
        BY <2>2, <3>2 DEF Leading, Permutes
      <4> QED
        BY <2>2, <4>1
    <3> QED
      BY <3>1, <3>2 DEF Leading, Permutes
  <2>4. Ranks(e, n, i - 1)
    <3> SUFFICES ASSUME NEW a \in 1..(i - 1), NEW b \in 1..n, a < b
                 PROVE  e[a].score >= e[b].score
      BY DEF Ranks
    <3>1. a \in 1..n /\ a < i /\ a < j /\ a # i /\ a # j
      BY <1>4
    <3>2. e[a] = c[a]
      BY <2>1, <3>1
    <3>3. f[b] \in 1..n /\ a < f[b]
      BY <2>2, <3>1 DEF f
    <3>4. c[a].score >= c[f[b]].score
      BY <3>3 DEF Leading, Ranks
    <3> QED
      BY <2>2, <3>2, <3>4
  <2>5. ASSUME NEW b \in 1..j, i < b PROVE e[i].score >= e[b].score
    <3>1. c[i].score \in Nat /\ c[j].score \in Nat /\ c[b].score \in Nat
      BY <1>2
    <3>2. CASE b = j
      BY <1>4, <2>1, <3>1, <3>2
    <3>3. CASE b # j
      <4>1. b \in 1..(j - 1) /\ b # i /\ b \in 1..n
        BY <1>1, <1>2, <2>5, <3>3
      <4>2. e[b] = c[b] /\ c[i].score >= c[b].score
        BY <2>1, <2>5, <3>3, <4>1 DEF Leading
      <4> QED
        BY <1>4, <2>1, <3>1, <4>2
    <3> QED
      BY <3>2, <3>3
  <2>6. Leading(e, d, n, i, j)
    BY <2>3, <2>4, <2>5 DEF Leading
  <2> QED
    BY <2>6 DEF e
<1> QED
  BY <1>3, <1>4

\* After the inner loop for place i, the first i places are in order.
LEMMA PassRanks ==
  ASSUME NEW C, \A x \in C : x.score \in Nat,
         NEW n \in Nat, NEW c \in [1..n -> C], NEW d, NEW i \in 1..n,
         Permutes(c, d, n), Ranks(c, n, i - 1)
  PROVE  /\ ExchangePass(c, i) \in [1..n -> C]
         /\ Permutes(ExchangePass(c, i), d, n) /\ Ranks(ExchangePass(c, i), n, i)
<1> DEFINE V == [1..n -> C]
<1>1. /\ Len(Places(c)) = n /\ \A k \in 1..n : Places(c)[k] = k
  BY PlacesOf
<1>2. PICK run \in [0..Len(Places(c)) -> V] : ExchangePasses(run, c, i)
  BY PassRun, Zenon
<1>3. /\ run \in [0..n -> V] /\ run[0] = c
      /\ \A k \in 1..n : run[k] = Exchange(run[k - 1], i, k)
      /\ ExchangePass(c, i) = run[n]
  BY <1>1, <1>2 DEF ExchangePasses
<1> DEFINE P == {k \in 0..n : Leading(run[k], d, n, i, k)}
<1>4. 0 \in P
  <2>1. 1..0 = {} /\ 0 \in 0..n
    OBVIOUS
  <2> QED
    BY <1>3, <2>1 DEF Leading
<1>5. ASSUME NEW k \in 1..n, k - 1 \in P PROVE k \in P
  <2>1. run[k - 1] \in V /\ Leading(run[k - 1], d, n, i, k - 1) /\ k \in 0..n
    BY <1>3, <1>5
  <2>2. \A x \in 1..n : run[k - 1][x].score \in Nat
    BY <2>1
  <2>3. Leading(Exchange(run[k - 1], i, k), d, n, i, k)
    BY <2>1, <2>2, ExchangeLeads
  <2> QED
    BY <1>3, <2>1, <2>3
<1>6. n \in P /\ run[n] \in V
  <2> HIDE DEF P
  <2>1. \A k \in 1..n : k - 1 \in P => k \in P
    BY <1>5
  <2>2. \A k \in 0..n : k \in P
    BY <1>4, <2>1, EveryPass
  <2> QED
    BY <1>3, <2>2
<1>7. Leading(run[n], d, n, i, n)
  BY <1>6
<1>8. Ranks(run[n], n, i)
  <2>1. \A a \in 1..i : a \in 1..(i - 1) \/ a = i
    OBVIOUS
  <2> QED
    BY <1>7, <2>1 DEF Leading, Ranks
<1> QED
  BY <1>3, <1>6, <1>7, <1>8 DEF Leading

\* The passes of the sort's outer loop.
SortPasses(run, cands) ==
  /\ run[0] = cands
  /\ \A k \in 1..Len(Places(cands)) : run[k] = ExchangePass(run[k - 1], Places(cands)[k])
  /\ SortByScore(cands) = run[Len(Places(cands))]

LEMMA SortRun ==
  ASSUME NEW C, NEW n0 \in Nat, NEW cands \in [1..n0 -> C],
         \A c \in [1..n0 -> C] : \A i \in 1..n0 : ExchangePass(c, i) \in [1..n0 -> C]
  PROVE  \E run \in [0..Len(Places(cands)) -> [1..n0 -> C]] : SortPasses(run, cands)
<1> DEFINE n == Len(Places(cands))
           b == cands
           V == [1..n0 -> C]
           pass(v, k) == ExchangePass(v, Places(cands)[k])
           F == [k \in 1..n |-> [v \in V |-> pass(v, k)]]
           Solves(it) == it = [t \in SUBSET DOMAIN Places(cands) |->
                                IF t = {} THEN b ELSE pass(it[t \ {Max(t)}], Max(t))]
           c == CHOOSE it : Solves(it)
<1>1. n \in Nat /\ DOMAIN Places(cands) = 1..n /\ b \in V
  BY PlacesOf
<1>2. ASSUME NEW v \in V, NEW k \in 1..n PROVE pass(v, k) \in V
  <2>1. Places(cands)[k] \in 1..n0
    BY PlacesOf
  <2> QED
    BY <2>1
<1>3. SortByScore(cands) = c[DOMAIN Places(cands)]
  <2> HIDE DEF n, V, F
  <2> QED
    BY DEF SortByScore, FoldLeftDomain, Places, FoldLeft, MapThenFoldSet
<1> HIDE DEF n, b, V, pass
<1>4. F \in [1..n -> [V -> V]] /\ \A k \in 1..n : \A v \in V : F[k][v] = pass(v, k)
  BY <1>2
<1> HIDE DEF F
<1>5. PICK it \in [SUBSET (1..n) -> V] : Iterates(it, n, b, F)
  BY <1>1, <1>4, IterationExists, Zenon
<1>6. ASSUME NEW t \in SUBSET (1..n)
      PROVE  it[t] = IF t = {} THEN b ELSE pass(it[t \ {Max(t)}], Max(t))
  <2>1. CASE t = {}
    BY <1>5, <2>1 DEF Iterates
  <2>2. CASE t # {}
    <3>1. Max(t) \in 1..n
      BY <1>1, <2>2, GreatestPlace
    <3>2. it[t \ {Max(t)}] \in V
      BY <1>5
    <3>3. F[Max(t)][it[t \ {Max(t)}]] = pass(it[t \ {Max(t)}], Max(t))
      BY <1>4, <3>1, <3>2
    <3> QED
      BY <1>5, <2>2, <3>3 DEF Iterates
  <2> QED
    BY <2>1, <2>2
<1>7. Solves(it)
  BY <1>1, <1>6
<1>8. Solves(c)
  <2> HIDE DEF Solves
  <2> QED
    BY <1>7
<1>9. \A t \in SUBSET (1..n) :
        c[t] = IF t = {} THEN b ELSE pass(c[t \ {Max(t)}], Max(t))
  <2> HIDE DEF c
  <2> QED
    BY <1>1, <1>8
<1> HIDE DEF c, Solves
<1>10. c[{}] = b
  BY <1>9
<1>11. ASSUME NEW k \in 1..n, c[1..(k - 1)] \in V
       PROVE  c[1..k] = F[k][c[1..(k - 1)]]
  <2>1. 1..k \in SUBSET (1..n) /\ 1..k # {} /\ Max(1..k) = k /\ (1..k) \ {k} = 1..(k - 1)
    BY <1>1, LastPlace
  <2>2. c[1..k] = pass(c[1..(k - 1)], k)
    BY <1>9, <2>1
  <2> QED
    BY <1>4, <1>11, <2>2
<1>12. n \in Nat /\ b \in V /\ F \in [1..n -> [V -> V]] /\ Linked(c, n, b, V, F)
  BY <1>1, <1>4, <1>10, <1>11 DEF Linked
<1>13. PICK run \in [0..n -> V] : Passes(run, c, n, b, F)
  BY <1>12, RunOfChain, Zenon
<1>14. run[0] = b /\ run[n] = c[1..n] /\ \A k \in 1..n : run[k] = F[k][run[k - 1]]
  BY <1>13 DEF Passes
<1>15. ASSUME NEW k \in 1..n PROVE run[k] = pass(run[k - 1], k)
  <2>1. run[k - 1] \in V
    BY <1>1, <1>13
  <2> QED
    BY <1>4, <1>14, <2>1
<1> QED
  BY <1>1, <1>3, <1>13, <1>14, <1>15 DEF pass, n, b, V, SortPasses

\* The exchange sort puts the candidates in the order of their scores.
LEMMA SortRanks ==
  ASSUME NEW C, \A x \in C : x.score \in Nat,
         NEW n \in Nat, NEW cands \in [1..n -> C],
         \A x, y \in 1..n : cands[x].href = cands[y].href => x = y
  PROVE  /\ SortByScore(cands) \in [1..n -> C]
         /\ Permutes(SortByScore(cands), cands, n) /\ Ranks(SortByScore(cands), n, n)
<1> DEFINE V == [1..n -> C]
<1>1. /\ Len(Places(cands)) = n /\ \A k \in 1..n : Places(cands)[k] = k
  BY ONLY n \in Nat, cands \in [1..n -> C], PlacesOf
<1>2. \A c \in V : \A i \in 1..n : ExchangePass(c, i) \in V
  BY PassType
<1>3. PICK run \in [0..Len(Places(cands)) -> V] : SortPasses(run, cands)
  BY <1>2, SortRun, Zenon
<1>4. /\ run \in [0..n -> V] /\ run[0] = cands
      /\ \A k \in 1..n : run[k] = ExchangePass(run[k - 1], k)
      /\ SortByScore(cands) = run[n]
  BY <1>1, <1>3 DEF SortPasses
<1> DEFINE P == {k \in 0..n : Permutes(run[k], cands, n) /\ Ranks(run[k], n, k)}
<1>5. 0 \in P
  <2>1. 1..0 = {} /\ 0 \in 0..n
    OBVIOUS
  <2> QED
    BY <1>4, <2>1 DEF Permutes, Ranks
<1>6. ASSUME NEW k \in 1..n, k - 1 \in P PROVE k \in P
  <2>1. /\ run[k - 1] \in V /\ k \in 0..n
        /\ Permutes(run[k - 1], cands, n) /\ Ranks(run[k - 1], n, k - 1)
    BY <1>4, <1>6
  <2>2. /\ Permutes(ExchangePass(run[k - 1], k), cands, n)
        /\ Ranks(ExchangePass(run[k - 1], k), n, k)
    BY <2>1, PassRanks
  <2> QED
    BY <1>4, <2>1, <2>2
<1>7. n \in P /\ run[n] \in V
  <2> HIDE DEF P
  <2>1. \A k \in 1..n : k - 1 \in P => k \in P
    BY <1>6
  <2>2. \A k \in 0..n : k \in P
    BY <1>5, <2>1, EveryPass
  <2> QED
    BY <1>4, <2>2
<1> QED
  BY <1>4, <1>7

\* The pages chosen are distinct, as many as there may be, in the order of their
\* scores, and no page left out scores higher than one that was chosen.
LEMMA ContactPagesHold ==
  ASSUME NEW links, links \in Seq(ToSet(links))
  PROVE  /\ ContactPagesAreBest(links)
         /\ FindContactPages(links) \in Seq(Hrefs(links))
         /\ Len(FindContactPages(links)) <= MaxContactPages
<1> DEFINE C == Candidates(links)
           cands == FoldLeft(AddCandidate, <<>>, links)
           n == Len(cands)
           ranked == SortByScore(cands)
           m == IF n > MaxContactPages THEN MaxContactPages ELSE n
           top == SubSeq(ranked, 1, m)
           chosen == FindContactPages(links)
           pages == {link.href : link \in {l \in ToSet(links) : Eligible(l)}}
<1>1. cands \in Seq(C) /\ Listed(cands, links, Len(links))
  BY CandidatesListed
<1>2. Len(links) \in Nat /\ ToSet(links) = {links[j] : j \in 1..Len(links)}
  BY DEF ToSet
<1>3. MaxContactPages \in Nat
  BY PageAnalysisAssumption DEF PageAnalysisAssumption
<1>4. \A x \in C : x.score \in Nat /\ x.href \in Hrefs(links)
  BY DEF Candidates
<1>5. pages = {links[j].href : j \in {k \in 1..Len(links) : Eligible(links[k])}}
  BY <1>2
<1> HIDE DEF C, cands, pages
<1>6. n \in Nat /\ cands \in [1..n -> C] /\ DOMAIN cands = 1..n
  BY <1>1
<1> HIDE DEF n
<1>7. \A x, y \in 1..n : cands[x].href = cands[y].href => x = y
  BY <1>1, <1>6 DEF Listed
<1>8. /\ ranked \in [1..n -> C] /\ Permutes(ranked, cands, n) /\ Ranks(ranked, n, n)
  BY <1>4, <1>6, <1>7, SortRanks
<1> HIDE DEF ranked
<1>9. ranked \in Seq(C) /\ Len(ranked) = n
  BY <1>6, <1>8
<1>10. m \in Nat /\ m <= n /\ m <= MaxContactPages /\ \A i \in 1..m : i \in 1..n
  BY <1>3, <1>6
<1>11. chosen = [i \in DOMAIN top |-> top[i].href]
  BY <1>9 DEF FindContactPages, cands, ranked
<1>12. m = IF n > MaxContactPages THEN MaxContactPages ELSE n
  OBVIOUS
<1> HIDE DEF m
<1>13. DOMAIN top = 1..m /\ \A i \in 1..m : top[i] = ranked[i]
  BY <1>9, <1>10
<1> HIDE DEF top, chosen
<1>14. chosen = [i \in 1..m |-> ranked[i].href]
  BY <1>11, <1>13
<1>15. /\ chosen \in [1..m -> Hrefs(links)] /\ DOMAIN chosen = 1..m
       /\ \A i \in 1..m : chosen[i] = ranked[i].href
  <2>1. \A i \in 1..m : ranked[i].href \in Hrefs(links)
    BY <1>4, <1>8, <1>10
  <2> QED
    BY <1>14, <2>1
<1>16. chosen \in Seq(Hrefs(links)) /\ Len(chosen) = m
  BY <1>10, <1>15
<1>17. \A x, y \in 1..n : ranked[x].href = ranked[y].href => x = y
  BY <1>8 DEF Permutes
<1>18. ASSUME NEW x \in 1..n
       PROVE  /\ ranked[x].href \in pages
              /\ ranked[x].score = PageScore(links, ranked[x].href)
              /\ ranked[x].score \in Nat
  <2>1. PICK y \in 1..n : ranked[x] = cands[y]
    BY <1>8 DEF Permutes
  <2>2. PICK j \in 1..Len(links) : /\ FirstLink(links, j, cands[y].href)
                                   /\ cands[y].score = Score(links[j])
    BY <1>1, <1>6 DEF Listed
  <2>3. PageScore(links, cands[y].href) = Score(links[j])
    BY <2>2, PageScoreOfFirst
  <2>4. cands[y].href \in pages
    BY <1>5, <2>2 DEF FirstLink, Leads
  <2>5. ranked[x].score \in Nat
    BY <1>4, <1>8
  <2> QED
    BY <2>1, <2>2, <2>3, <2>4, <2>5
<1>19. ASSUME NEW p \in pages PROVE \E x \in 1..n : ranked[x].href = p
  <2>1. PICK j \in 1..Len(links) : Eligible(links[j]) /\ links[j].href = p
    BY <1>5
  <2>2. PICK y \in 1..n : cands[y].href = p
    BY <1>1, <1>6, <2>1 DEF Listed
  <2>3. cands[y] \in {ranked[x] : x \in 1..n}
    <3>1. cands[y] \in {cands[x] : x \in 1..n}
      OBVIOUS
    <3> QED
      BY <1>8, <3>1 DEF Permutes
  <2> QED
    BY <2>2, <2>3
<1>20. IsFiniteSet(pages) /\ Cardinality(pages) = n
  <2> DEFINE f == [x \in 1..n |-> ranked[x].href]
  <2>1. f \in Bijection(1..n, pages)
    BY <1>17, <1>18, <1>19 DEF Bijection, Injection, Surjection, IsInjective
  <2> HIDE DEF f
  <2>2. ExistsBijection(1..n, pages)
    BY <2>1 DEF ExistsBijection
  <2>3. IsFiniteSet(1..n) /\ Cardinality(1..n) = n
    BY <1>6, FS_Interval
  <2> QED
    BY <2>2, <2>3, FS_Bijection
<1>21. Len(chosen) = Min({MaxContactPages, Cardinality(pages)})
  <2>1. m \in {MaxContactPages, n} /\ \A y \in {MaxContactPages, n} : m <= y
    BY <1>3, <1>6, <1>12
  <2>2. LET S == {MaxContactPages, n} IN Min(S) \in S /\ \A y \in S : Min(S) <= y
    BY <2>1 DEF Min
  <2>3. Min({MaxContactPages, n}) = m
    <3>1. /\ Min({MaxContactPages, n}) <= m /\ m <= Min({MaxContactPages, n})
          /\ Min({MaxContactPages, n}) \in Nat
      BY <1>3, <1>6, <2>1, <2>2
    <3> QED
      BY <1>10, <3>1
  <2> QED
    BY <1>16, <1>20, <2>3
<1>22. IsInjective(chosen)
  BY <1>10, <1>15, <1>17 DEF IsInjective
<1>23. ToSet(chosen) \subseteq pages
  BY <1>10, <1>15, <1>18 DEF ToSet
<1>24. ASSUME NEW i \in 1..m, NEW x \in 1..n, i < x
       PROVE  PageScore(links, chosen[i]) >= PageScore(links, ranked[x].href)
  <2>1. ranked[i].score >= ranked[x].score
    BY <1>8, <1>10, <1>24 DEF Ranks
  <2> QED
    BY <1>10, <1>15, <1>18, <2>1
<1>25. \A i, j \in DOMAIN chosen :
         i < j => PageScore(links, chosen[i]) >= PageScore(links, chosen[j])
  BY <1>10, <1>15, <1>24
<1>26. ASSUME NEW p \in pages \ ToSet(chosen), NEW i \in DOMAIN chosen
       PROVE  PageScore(links, chosen[i]) >= PageScore(links, p)
  <2>1. PICK x \in 1..n : ranked[x].href = p
    BY <1>19
  <2>2. x \notin 1..m
    <3> SUFFICES ASSUME x \in 1..m PROVE FALSE
      OBVIOUS
    <3>1. chosen[x] = p
      BY <1>15, <2>1
    <3> QED
      BY <1>15, <1>26, <3>1 DEF ToSet
  <2>3. i \in 1..m /\ i < x
    BY <1>6, <1>10, <1>15, <2>2
  <2> QED
    BY <1>24, <2>1, <2>3
<1>27. ContactPagesAreBest(links)
  BY <1>21, <1>22, <1>23, <1>25, <1>26 DEF ContactPagesAreBest, chosen, pages
<1> QED
  BY <1>10, <1>16, <1>27 DEF chosen

-----------------------------------------------------------------------------
(* The loops of the page analysis compute what they are for *)

\* GetImplied, on what detect reports, and FindContactPages meet their reference
\* definitions, for every fingerprint database, page and list of links
\* (scanner.go:634-651, contact.go:45-132).
THEOREM LoopsAreExact == Spec => []LoopsMatchReference
<1>1. ASSUME NEW p \in Pages PROVE ImpliedIsExact(detect(p.inputs))
  BY DetectedTechnologies, ImpliedHolds
<1>2. ASSUME NEW links \in LinkLists PROVE ContactPagesAreBest(links)
  <2>1. links \in Seq(ToSet(links))
    BY PageScanAssumption DEF PageScanAssumption
  <2> QED
    BY <2>1, ContactPagesHold
<1>3. LoopsMatchReference
  BY <1>1, <1>2 DEF LoopsMatchReference
<1> QED
  BY <1>3, PTL

-----------------------------------------------------------------------------
(***************************************************************************)
(* Types.  Beside the two invariants above: the results are technologies   *)
(* of the database, and the contact pages are links of pages, up to the    *)
(* cap.                                                                    *)
(***************************************************************************)
Reachable == UNION {Hrefs(p.links) : p \in Pages \union {NoPage}}

AnalysisTyped ==
  /\ results \in Seq(ToSet(Technologies))
  /\ candidates \in Seq(Reachable)
  /\ Len(candidates) <= MaxContactPages

\* The contact pages of a page.
LEMMA ContactPagesOf ==
  ASSUME NEW p \in Pages \union {NoPage}
  PROVE  /\ FindContactPages(p.links) \in Seq(Reachable)
         /\ Len(FindContactPages(p.links)) <= MaxContactPages
<1>1. p.links \in Seq(ToSet(p.links))
  <2>1. CASE p \in Pages
    BY <2>1, PageScanAssumption DEF PageScanAssumption
  <2>2. CASE p = NoPage
    BY <2>2 DEF NoPage
  <2> QED
    BY <2>1, <2>2
<1>2. /\ FindContactPages(p.links) \in Seq(Hrefs(p.links))
      /\ Len(FindContactPages(p.links)) <= MaxContactPages
  BY <1>1, ContactPagesHold
<1>3. Hrefs(p.links) \subseteq Reachable
  BY DEF Reachable
<1> QED
  BY <1>2, <1>3, SeqMonotonic

\* Every step keeps them.
LEMMA AnalysisTypedNext == AnalysisTyped /\ CrawlInv /\ [Next]_vars => AnalysisTyped'
<1> SUFFICES ASSUME AnalysisTyped, CrawlInv, [Next]_vars PROVE AnalysisTyped'
  OBVIOUS
<1>1. MaxContactPages \in Nat /\ page \in Pages \union {NoPage}
  BY PageAnalysisAssumption DEF PageAnalysisAssumption, CrawlInv, CrawlTyped
<1>2. CASE Detect
  <2>1. results' = detect(page.inputs) /\ candidates' = candidates
    BY <1>2 DEF Detect, crawlVars
  <2>2. results' \in Seq(ToSet(Technologies))
    BY <2>1, DetectedTechnologies
  <2> QED
    BY <2>1, <2>2 DEF AnalysisTyped
<1>3. CASE MainEmails
  <2>1. /\ results' = results
        /\ candidates' = IF emails' = <<>> THEN FindContactPages(page.links) ELSE <<>>
    BY <1>3 DEF MainEmails
  <2>2. /\ FindContactPages(page.links) \in Seq(Reachable)
        /\ Len(FindContactPages(page.links)) <= MaxContactPages
    BY <1>1, ContactPagesOf
  <2>3. <<>> \in Seq(Reachable) /\ Len(<<>>) <= MaxContactPages
    BY <1>1
  <2>4. candidates' \in Seq(Reachable) /\ Len(candidates') <= MaxContactPages
    BY <2>1, <2>2, <2>3
  <2> QED
    BY <2>1, <2>4 DEF AnalysisTyped
<1>4. CASE CrawlPage
  <2>1. results' = results /\ candidates # <<>> /\ candidates' = Tail(candidates)
    BY <1>4 DEF CrawlPage
  <2>2. candidates' \in Seq(Reachable) /\ Len(candidates') = Len(candidates) - 1
    BY <2>1 DEF AnalysisTyped
  <2>3. Len(candidates) \in Nat /\ Len(candidates) <= MaxContactPages
    BY DEF AnalysisTyped
  <2>4. Len(candidates') <= MaxContactPages
    BY <1>1, <2>2, <2>3
  <2> QED
    BY <2>1, <2>2, <2>4 DEF AnalysisTyped
<1>5. CASE UNCHANGED <<results, candidates>>
  BY <1>5 DEF AnalysisTyped
<1>6. Detect \/ MainEmails \/ CrawlPage \/ UNCHANGED <<results, candidates>>
  <2>1. CASE MainStep
    BY <2>1 DEF MainStep, Load, LoadFails, CrawlEnds, CrawlJoin, EnrichNothing, Enrich,
                EnrichJoin, crawlVars
  <2>2. CASE \E g \in Strategies : CrawlStep(g)
    BY <2>2 DEF CrawlStep, Fetched, FetchFails, MergeSkips, MergeChecked, AppendLoad,
                AppendStore, Appended, MergeEnds, Unshared
  <2>3. CASE (\E t \in Types : QueryStep(t)) \/ EnrichStep \/ SslDone
    BY <2>3 DEF QueryStep, QueryAnswered, QueryNextEndpoint, QueryFails, EnrichStep,
                DnsReceive, DnsDone, WhoisDone, SslDone, Scanned, crawlVars
  <2>4. CASE UNCHANGED vars
    BY <2>4 DEF vars, crawlVars
  <2> QED
    BY <2>1, <2>2, <2>3, <2>4 DEF Next
<1> QED
  BY <1>2, <1>3, <1>4, <1>5, <1>6

\* The channel of DNS results has room for one of each type, and needs no more.
LEMMA ChannelHasRoom ==
  ASSUME EnrichInv
  PROVE  Len(resCh) <= Cardinality(Types)
<1> DEFINE f == [i \in 1..Len(resCh) |-> resCh[i].type]
<1>1. /\ resCh \in Seq(Answer) /\ DOMAIN resCh = 1..Len(resCh) /\ Len(resCh) \in Nat
      /\ \A i, j \in 1..Len(resCh) : resCh[i].type = resCh[j].type => i = j
  BY DEF EnrichInv, EnrichTyped, OncePerType
<1>2. ASSUME NEW i \in 1..Len(resCh) PROVE resCh[i].type \in Types
  <2>1. resCh[i] \in Answer
    BY <1>1
  <2> QED
    BY <2>1 DEF Answer
<1>3. f \in Injection(1..Len(resCh), Types)
  BY <1>1, <1>2 DEF Injection, IsInjective
<1>4. IsFiniteSet(Types)
  BY PageScanAssumption DEF PageScanAssumption
<1> HIDE DEF f
<1>5. Cardinality(1..Len(resCh)) <= Cardinality(Types)
  BY <1>3, <1>4, FS_Injection
<1>6. Cardinality(1..Len(resCh)) = Len(resCh)
  BY <1>1, FS_Interval
<1> QED
  BY <1>5, <1>6

\* The variables keep their types: the channel never has more answers than there
\* are record types (no query blocks on it), and no more contact pages are left than
\* MaxContactPages (scanner.go:124-306, enrich.go:157-172, contact.go:123-125).
THEOREM PageScanTypeCorrect == Spec => []TypeOK
<1>1. Init => AnalysisTyped
  <2> SUFFICES ASSUME Init PROVE AnalysisTyped
    OBVIOUS
  <2>1. results = <<>> /\ candidates = <<>> /\ MaxContactPages \in Nat
    BY PageAnalysisAssumption DEF Init, PageAnalysisAssumption
  <2> QED
    BY <2>1 DEF AnalysisTyped
<1>2. EnrichInv /\ CrawlInv /\ AnalysisTyped => TypeOK
  <2> SUFFICES ASSUME EnrichInv, CrawlInv, AnalysisTyped PROVE TypeOK
    OBVIOUS
  <2>1. EnrichTyped /\ CrawlTyped
    BY DEF EnrichInv, CrawlInv
  <2>2. ToSet(results) \subseteq ToSet(Technologies)
    BY DEF AnalysisTyped, ToSet
  <2>3. ToSet(emails) \subseteq (UNION Texts) \union page.text
    BY <2>1 DEF CrawlTyped, ToSet, Found
  <2>4. ASSUME NEW g \in Strategies
        PROVE  /\ ToSet(todo[g]) \subseteq UNION Texts /\ ToSet(copy[g]) \subseteq UNION Texts
               /\ IsInjective(todo[g]) /\ Len(todo[g]) <= MaxEmails
    <3>1. todo[g] \in Seq(UNION Texts) /\ copy[g] \in Seq(UNION Texts)
      BY <2>1 DEF CrawlTyped, Found
    <3>2. IsInjective(todo[g]) /\ Len(todo[g]) <= MaxEmails
      BY DEF CrawlInv, CrawlProgress
    <3> QED
      BY <3>1, <3>2 DEF ToSet
  <2>5. ToSet(resCh) \subseteq Answer /\ Len(resCh) <= Cardinality(Types)
    BY <2>1, ChannelHasRoom DEF EnrichTyped, ToSet
  <2>6. /\ page \in Pages \union {NoPage} /\ torn \in BOOLEAN
        /\ point \in {"load", "detect", "emails", "crawl", "join", "enrich", "wait",
                      "returned", "failed"}
        /\ gpc \in [Strategies -> {"fetch", "merge", "append", "store", "storing", "end"}]
    BY <2>1 DEF CrawlTyped
  <2>7. /\ endpoint \in [Types -> 0..Endpoints] /\ received \subseteq Answer
        /\ epc \in {"idle", "dns", "whois", "end"} /\ spc \in {"idle", "dial", "end"}
        /\ {dns, whois, ssl} \subseteq Fields
    BY <2>1 DEF EnrichTyped
  <2>8. Len(candidates) <= MaxContactPages
    BY DEF AnalysisTyped
  <2> QED
    BY <2>2, <2>3, <2>4, <2>5, <2>6, <2>7, <2>8 DEF TypeOK
<1> QED
  BY <1>1, <1>2, AnalysisTypedNext, EnrichInvInit, EnrichInvNext, CrawlInvInit, CrawlInvNext,
     PTL DEF Spec
=============================================================================
