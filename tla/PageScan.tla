------------------------------ MODULE PageScan ------------------------------
(***************************************************************************)
(* One call of Scanner.ScanURL (internal/scanner/scanner.go): load the     *)
(* page, detect, extract addresses, crawl contact pages if there are none, *)
(* enrich, return.  The crawl fetches a page in two goroutines that both   *)
(* append to result.Emails without a lock; the enrichment asks DNS (one    *)
(* goroutine per record type), then WHOIS, and beside them the TLS server. *)
(*                                                                         *)
(* The progress events of a scan are in JobQueue.                          *)
(***************************************************************************)
EXTENDS PageAnalysis

CONSTANTS
  Pages,       \* the pages a browser may load
  Texts,       \* the addresses a contact page may have
  LinkLists,   \* bounded inputs for FindContactPages
  Types,       \* the DNS record types asked for
  Endpoints    \* how many DoH endpoints there are (2 in the code)

ASSUME PageScanAssumption ==
  /\ Endpoints \in Nat \ {0}
  /\ Types # {} /\ IsFiniteSet(Types)
  /\ \A text \in Texts \union {p.text : p \in Pages} : text \in SUBSET Nat /\ IsFiniteSet(text)
  /\ \A links \in LinkLists \union {p.links : p \in Pages} : links \in Seq(ToSet(links))

VARIABLES
  point,       \* the program point of ScanURL
  page,        \* what the browser has loaded
  results,     \* result.Results
  emails,      \* result.Emails
  candidates,  \* the contact pages still to be tried
  gpc,         \* the program points of the two crawling goroutines
  todo,        \* the addresses each of them still has to merge
  copy,        \* the slice each of them is about to append to
  torn,        \* whether two accesses to result.Emails have overlapped
  endpoint,    \* the endpoint each DNS query is at; 0 when it has ended
  resCh,       \* QueryDNS's channel, with room for one result of each type
  received,    \* the results QueryDNS has taken from it
  epc, spc,    \* the program points of the two enriching goroutines
  dns, whois, ssl  \* the fields of the result

crawlVars == <<candidates, gpc, todo, copy, torn>>
enrichVars == <<endpoint, resCh, received, epc, spc, dns, whois, ssl>>
vars == <<point, page, results, emails, crawlVars, enrichVars>>

Strategies == {"http", "browser"}
NoPage == [inputs |-> <<>>, text |-> {}, links |-> <<>>, host |-> FALSE]
Fields == {"nil", "ok", "error"}
Answer == [type : Types, ok : BOOLEAN]

TypeOK ==
  /\ point \in {"load", "detect", "emails", "crawl", "join", "enrich", "wait",
                "returned", "failed"}
  /\ page \in Pages \union {NoPage}
  /\ ToSet(results) \subseteq ToSet(Technologies)
  /\ torn \in BOOLEAN
  /\ torn \/ ToSet(emails) \subseteq (UNION Texts) \union page.text
  /\ Len(candidates) <= MaxContactPages
  /\ gpc \in [Strategies -> {"fetch", "merge", "append", "store", "storing", "end"}]
  /\ \A g \in Strategies :
       /\ ToSet(todo[g]) \subseteq UNION Texts
       /\ IsInjective(todo[g]) /\ Len(todo[g]) <= MaxEmails
       /\ torn \/ ToSet(copy[g]) \subseteq UNION Texts
  /\ endpoint \in [Types -> 0..Endpoints]
  /\ ToSet(resCh) \subseteq Answer /\ Len(resCh) <= Cardinality(Types)
  /\ received \subseteq Answer
  /\ epc \in {"idle", "dns", "whois", "end"}
  /\ spc \in {"idle", "dial", "end"}
  /\ {dns, whois, ssl} \subseteq Fields

Init ==
  /\ point = "load"
  /\ page = NoPage
  /\ results = <<>>
  /\ emails = <<>>
  /\ candidates = <<>>
  /\ gpc = [g \in Strategies |-> "end"]
  /\ todo = [g \in Strategies |-> <<>>]
  /\ copy = [g \in Strategies |-> <<>>]
  /\ torn = FALSE
  /\ endpoint = [t \in Types |-> 0]
  /\ resCh = <<>>
  /\ received = {}
  /\ epc = "idle" /\ spc = "idle"
  /\ dns = "nil" /\ whois = "nil" /\ ssl = "nil"

-----------------------------------------------------------------------------
(* ScanURL *)

\* chromedp.Run, up to the collected data ...
Load(p) ==
  /\ point = "load"
  /\ page' = p
  /\ point' = "detect"
  /\ UNCHANGED <<results, emails, crawlVars, enrichVars>>

\* ... or an error or the timeout.
LoadFails ==
  /\ point = "load"
  /\ point' = "failed"
  /\ UNCHANGED <<page, results, emails, crawlVars, enrichVars>>

Detect ==
  /\ point = "detect"
  /\ results' = detect(page.inputs)
  /\ point' = "emails"
  /\ UNCHANGED <<page, emails, crawlVars, enrichVars>>

\* The addresses of the page itself; without any, crawlForEmails looks for
\* contact pages.
MainEmails ==
  /\ point = "emails"
  /\ emails' = ExtractEmails(page.text)
  /\ candidates' = IF emails' = <<>> THEN FindContactPages(page.links) ELSE <<>>
  /\ point' = "crawl"
  /\ UNCHANGED <<page, results, gpc, todo, copy, torn, enrichVars>>

\* The loop over the candidates ends with the first address.
CrawlEnds ==
  /\ point = "crawl"
  /\ emails # <<>> \/ candidates = <<>>
  /\ point' = "enrich"
  /\ UNCHANGED <<page, results, emails, crawlVars, enrichVars>>

CrawlPage ==
  /\ point = "crawl"
  /\ emails = <<>> /\ candidates # <<>>
  /\ candidates' = Tail(candidates)
  /\ gpc' = [g \in Strategies |-> "fetch"]
  /\ point' = "join"
  /\ UNCHANGED <<page, results, emails, todo, copy, torn, enrichVars>>

\* Mutant: the first goroutine that is done ends the wait.
CrawlJoinsFirst ==
  /\ point = "join"
  /\ \E g \in Strategies : gpc[g] = "end"
  /\ point' = "crawl"
  /\ UNCHANGED <<page, results, emails, crawlVars, enrichVars>>

\* wg.Wait
CrawlJoin ==
  /\ point = "join"
  /\ \A g \in Strategies : gpc[g] = "end"
  /\ point' = "crawl"
  /\ UNCHANGED <<page, results, emails, crawlVars, enrichVars>>

\* enrichResult returns at once for a URL without a host.  (The host "." has no
\* root domain and gets neither DNS nor WHOIS; ValidateScanURL does not let it in.)
EnrichNothing ==
  /\ point = "enrich"
  /\ ~page.host
  /\ point' = "returned"
  /\ UNCHANGED <<page, results, emails, crawlVars, enrichVars>>

Enrich ==
  /\ point = "enrich"
  /\ page.host
  /\ endpoint' = [t \in Types |-> 1]
  /\ epc' = "dns" /\ spc' = "dial"
  /\ point' = "wait"
  /\ UNCHANGED <<page, results, emails, crawlVars, resCh, received, dns, whois, ssl>>

\* wg.Wait, then the performance figures, and ScanURL returns.
EnrichJoin ==
  /\ point = "wait"
  /\ epc = "end" /\ spc = "end"
  /\ point' = "returned"
  /\ UNCHANGED <<page, results, emails, crawlVars, enrichVars>>

-----------------------------------------------------------------------------
(* The goroutines of crawlForEmails, and mergeUnique *)

Unshared == <<point, page, results, candidates, enrichVars>>

Move(g, from, to) ==
  /\ gpc[g] = from
  /\ gpc' = [gpc EXCEPT ![g] = to]

\* FetchContactPage or chromedp.Run return a page ...
Fetched(g, text) ==
  /\ Move(g, "fetch", "merge")
  /\ todo' = [todo EXCEPT ![g] = ExtractEmails(text)]
  /\ UNCHANGED <<Unshared, emails, copy, torn>>

\* ... or fail, by an error, a status or a timeout.
FetchFails(g) ==
  /\ Move(g, "fetch", "end")
  /\ UNCHANGED <<Unshared, emails, todo, copy, torn>>

\* Another goroutine is in the middle of storing the slice: a data race.
Overlap(g) == \E other \in Strategies \ {g} : gpc[other] = "storing"

Known(g) == Head(todo[g]) \in ToSet(emails) \/ Len(emails) >= MaxEmails

\* mergeUnique returns: the address is there, or the cap is reached.
MergeSkips(g) ==
  /\ Move(g, "merge", "merge")
  /\ todo[g] # <<>> /\ Known(g)
  /\ todo' = [todo EXCEPT ![g] = Tail(@)]
  /\ torn' = (torn \/ Overlap(g))
  /\ UNCHANGED <<Unshared, emails, copy>>

MergeChecked(g) ==
  /\ Move(g, "merge", "append")
  /\ todo[g] # <<>> /\ ~Known(g)
  /\ torn' = (torn \/ Overlap(g))
  /\ UNCHANGED <<Unshared, emails, todo, copy>>

\* append reads the slice again ...
AppendLoad(g) ==
  /\ Move(g, "append", "store")
  /\ copy' = [copy EXCEPT ![g] = emails]
  /\ torn' = (torn \/ Overlap(g))
  /\ UNCHANGED <<Unshared, emails, todo>>

\* ... and stores it with one address more, word by word.
AppendStore(g) ==
  /\ Move(g, "store", "storing")
  /\ torn' = (torn \/ Overlap(g))
  /\ UNCHANGED <<Unshared, emails, todo, copy>>

Appended(g) ==
  /\ Move(g, "storing", "merge")
  /\ emails' = Append(copy[g], Head(todo[g]))
  /\ todo' = [todo EXCEPT ![g] = Tail(@)]
  /\ UNCHANGED <<Unshared, copy, torn>>

MergeEnds(g) ==
  /\ Move(g, "merge", "end")
  /\ todo[g] = <<>>
  /\ UNCHANGED <<Unshared, emails, todo, copy, torn>>

CrawlStep(g) ==
  \/ \E text \in Texts : Fetched(g, text)
  \/ FetchFails(g)
  \/ MergeSkips(g) \/ MergeChecked(g) \/ AppendLoad(g) \/ AppendStore(g)
  \/ Appended(g) \/ MergeEnds(g)

-----------------------------------------------------------------------------
(* The goroutines of enrichResult *)

Scanned == <<point, page, results, emails, crawlVars>>

\* dohQuery: the first endpoint that answers ends the query ...
QueryAnswered(t) ==
  /\ endpoint[t] > 0
  /\ endpoint' = [endpoint EXCEPT ![t] = 0]
  /\ resCh' = Append(resCh, [type |-> t, ok |-> TRUE])
  /\ UNCHANGED <<Scanned, received, epc, spc, dns, whois, ssl>>

\* ... an error (or the deadline) leads to the next one ...
QueryNextEndpoint(t) ==
  /\ endpoint[t] \in 1..(Endpoints - 1)
  /\ endpoint' = [endpoint EXCEPT ![t] = @ + 1]
  /\ UNCHANGED <<Scanned, resCh, received, epc, spc, dns, whois, ssl>>

\* Mutant: a query that fails sends nothing.
QueryFailsSilently(t) ==
  /\ endpoint[t] = Endpoints
  /\ endpoint' = [endpoint EXCEPT ![t] = 0]
  /\ UNCHANGED <<Scanned, resCh, received, epc, spc, dns, whois, ssl>>

\* ... and after the last one the query fails.
QueryFails(t) ==
  /\ endpoint[t] = Endpoints
  /\ endpoint' = [endpoint EXCEPT ![t] = 0]
  /\ resCh' = Append(resCh, [type |-> t, ok |-> FALSE])
  /\ UNCHANGED <<Scanned, received, epc, spc, dns, whois, ssl>>

QueryStep(t) == QueryAnswered(t) \/ QueryNextEndpoint(t) \/ QueryFails(t)

\* QueryDNS takes one result of each type ...
DnsReceive ==
  /\ epc = "dns"
  /\ resCh # <<>>
  /\ received' = received \union {Head(resCh)}
  /\ resCh' = Tail(resCh)
  /\ UNCHANGED <<Scanned, endpoint, epc, spc, dns, whois, ssl>>

\* ... and reports an error if all of them have failed.
DnsDone ==
  /\ epc = "dns"
  /\ Cardinality(received) = Cardinality(Types)
  /\ dns' = IF \A a \in received : ~a.ok THEN "error" ELSE "ok"
  /\ epc' = "whois"
  /\ UNCHANGED <<Scanned, endpoint, resCh, received, spc, whois, ssl>>

\* QueryWHOIS under the same deadline.
WhoisDone ==
  /\ epc = "whois"
  /\ whois' \in {"ok", "error"}
  /\ epc' = "end"
  /\ UNCHANGED <<Scanned, endpoint, resCh, received, spc, dns, ssl>>

\* QuerySSL with the dialer's own timeout.
SslDone ==
  /\ spc = "dial"
  /\ ssl' \in {"ok", "error"}
  /\ spc' = "end"
  /\ UNCHANGED <<Scanned, endpoint, resCh, received, epc, dns, whois>>

EnrichStep == DnsReceive \/ DnsDone \/ WhoisDone

MainStep ==
  \/ \E p \in Pages : Load(p)
  \/ LoadFails
  \/ Detect \/ MainEmails
  \/ CrawlEnds \/ CrawlPage \/ CrawlJoin
  \/ EnrichNothing \/ Enrich \/ EnrichJoin

Next ==
  \/ MainStep
  \/ \E g \in Strategies : CrawlStep(g)
  \/ \E t \in Types : QueryStep(t)
  \/ EnrichStep \/ SslDone

Spec == Init /\ [][Next]_vars

\* Every goroutine that can run does; page loads, fetches, queries and the dial
\* have timeouts, so each of them ends.
Fairness ==
  /\ WF_vars(MainStep)
  /\ \A g \in Strategies : WF_vars(CrawlStep(g))
  /\ \A t \in Types : WF_vars(QueryStep(t))
  /\ WF_vars(EnrichStep)
  /\ WF_vars(SslDone)

FairSpec == Spec /\ Fairness
-----------------------------------------------------------------------------
(* Properties *)

\* GetImplied, on whatever detect reports, and FindContactPages compute what they
\* are for: nothing implied is missing, doubled or reported beside its detection,
\* and the hand-written exchange sort picks the best contact pages
\* (scanner.go:634-651, contact.go:45-132).
LoopsMatchReference ==
  point = "load" =>
    /\ \A p \in Pages : ImpliedIsExact(detect(p.inputs))
    /\ \A links \in LinkLists : ContactPagesAreBest(links)

\* When ScanURL returns, nothing writes to its result any more (it goes to the
\* cache and to other requests), every part of the enrichment has its answer or
\* its error, and DNS reports an error only if no type was answered
\* (scanner.go:293-303, 337-446; enrich.go:140-209).  Nothing is claimed of the
\* addresses the crawl has merged: the two goroutines share the slice unlocked.
ReturnedResultIsWhole ==
  point = "returned" =>
    /\ \A g \in Strategies : gpc[g] = "end"
    /\ \A t \in Types : endpoint[t] = 0
    /\ page.host =>
         /\ "nil" \notin {dns, whois, ssl}
         /\ (dns = "error" <=> received = [type : Types, ok : {FALSE}])

\* ScanURL returns: no wait for a goroutine and no receive from the channel of
\* results lasts for ever (scanner.go:124-306, enrich.go:157-172).
ScanEnds == (point = "load") ~> (point \in {"returned", "failed"})
=============================================================================
