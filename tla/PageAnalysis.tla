---------------------------- MODULE PageAnalysis ----------------------------
(***************************************************************************)
(* The functions that internal/scanner applies to a loaded page: which     *)
(* technologies it shows and which they imply, which links may lead to a   *)
(* contact page, which addresses its text has.  They are loops over slices *)
(* in the code and folds here; the reference definitions at the end say    *)
(* what the loops are for.                                                 *)
(*                                                                         *)
(* Text is abstracted to what is compared.  Something a rule looks at (the *)
(* HTML, a header, a script URL, ...) is the set of the patterns it        *)
(* contains, empty for "".  A link is the page it leads to and the tests   *)
(* it passes.  Addresses are numbers, in their alphabetical order.         *)
(***************************************************************************)
EXTENDS Naturals, SequencesExt

CONSTANTS
  Technologies,     \* the fingerprint database, a sequence of technologies
  Noise,            \* addresses that isEmailNoise or isValidEmail reject
  MaxContactPages,  \* 2 in the code
  MaxEmails         \* 20 in the code

ASSUME PageAnalysisAssumption ==
  /\ MaxEmails \in Nat \ {0} /\ MaxContactPages \in Nat \ {0}
  /\ Technologies \in Seq(ToSet(Technologies))
  /\ \A tech \in ToSet(Technologies) :
       /\ tech.rules \in Seq(ToSet(tech.rules))
       /\ tech.implies \in Seq(ToSet(tech.implies))
       /\ \A rule \in ToSet(tech.rules) : rule.confidence \in Nat

-----------------------------------------------------------------------------
(* scanner.go: detect, matchPattern, GetImplied *)

NoPattern == "none"

matchPattern(input, pattern, match) ==
  CASE pattern = NoPattern -> input # {}
    [] match = "exact" -> input = {pattern}
    [] match = "exists" -> input # {}
    [] OTHER -> pattern \in input

\* inputs has what the page shows at each place that rules look at.  A rule counts
\* once, however many scripts, style sheets, globals or cookies match it.
Matched(rule, inputs) ==
  \E input \in inputs[rule.place] : matchPattern(input, rule.pattern, rule.match)

Weight(rule) == IF rule.confidence = 0 THEN 100 ELSE rule.confidence

Confidence(tech, inputs) ==
  FoldLeft(LAMBDA sum, rule : IF Matched(rule, inputs) THEN sum + Weight(rule) ELSE sum,
           0, tech.rules)

detect(inputs) ==
  FoldLeft(LAMBDA results, tech : IF Confidence(tech, inputs) > 0
                                    THEN Append(results, tech) ELSE results,
           <<>>, Technologies)

\* One technology of the outer loop of GetImplied.
AddImplied(acc, tech) ==
  FoldLeft(LAMBDA a, imp : IF imp \in a.detected THEN a
                           ELSE [detected |-> a.detected \union {imp},
                                 implied |-> Append(a.implied, imp)],
           acc, tech.implies)

GetImplied(results) ==
  FoldLeft(AddImplied,
           [detected |-> {tech.slug : tech \in ToSet(results)}, implied |-> <<>>],
           results).implied

-----------------------------------------------------------------------------
(* contact.go: FindContactPages; email.go: ExtractEmails *)

\* A link's text may have a keyword and its href a telling fragment.
Score(link) == (IF link.text THEN 2 ELSE 0) + (IF link.fragment THEN 5 ELSE 0)

\* Links that are followed: http or relative, with a score, to the same host.
Eligible(link) == link.http /\ Score(link) > 0 /\ link.local

\* One link of the first loop: the first link to a page decides its score.
AddCandidate(cands, link) ==
  IF Eligible(link) /\ \A i \in DOMAIN cands : cands[i].href # link.href
    THEN Append(cands, [href |-> link.href, score |-> Score(link)])
    ELSE cands

\* Mutant: only neighbours are compared.
ExchangeNeighbours(cands, i, j) ==
  IF j = i + 1 /\ cands[j].score > cands[i].score
    THEN [cands EXCEPT ![i] = cands[j], ![j] = cands[i]]
    ELSE cands

\* The order of two candidates, the earlier one first.
Exchange(cands, i, j) ==
  IF j > i /\ cands[j].score > cands[i].score
    THEN [cands EXCEPT ![i] = cands[j], ![j] = cands[i]]
    ELSE cands

\* The exchange sort's inner loop, for place i, and its outer loop.
ExchangePass(cands, i) == FoldLeftDomain(LAMBDA c, j : Exchange(c, i, j), cands, cands)

SortByScore(cands) == FoldLeftDomain(ExchangePass, cands, cands)

\* Mutant: every candidate is tried.
FindContactPagesAll(links) ==
  LET ranked == SortByScore(FoldLeft(AddCandidate, <<>>, links))
  IN [i \in DOMAIN ranked |-> ranked[i].href]

FindContactPages(links) ==
  LET ranked == SortByScore(FoldLeft(AddCandidate, <<>>, links))
      top == SubSeq(ranked, 1, IF Len(ranked) > MaxContactPages
                                 THEN MaxContactPages ELSE Len(ranked))
  IN [i \in DOMAIN top |-> top[i].href]

\* sort.Strings
Sorted(S) ==
  CHOOSE seq \in [1..Cardinality(S) -> S] : \A i, j \in DOMAIN seq : i < j => seq[i] < seq[j]

\* The addresses that the extractors find, without noise, sorted and capped.
ExtractEmails(text) ==
  LET sorted == Sorted(text \ Noise)
  IN SubSeq(sorted, 1, IF Len(sorted) > MaxEmails THEN MaxEmails ELSE Len(sorted))

-----------------------------------------------------------------------------
(* What the loops are for *)

\* Every technology that a detected one implies is listed once, unless it was
\* detected itself.
ImpliedIsExact(results) ==
  LET implied == GetImplied(results)
  IN /\ IsInjective(implied)
     /\ ToSet(implied) = (UNION {ToSet(tech.implies) : tech \in ToSet(results)})
                           \ {tech.slug : tech \in ToSet(results)}

\* The score of a page is that of the first eligible link to it.
PageScore(links, href) ==
  LET first == SelectInSeq(links, LAMBDA link : Eligible(link) /\ link.href = href)
  IN Score(links[first])

\* The pages chosen are distinct, as many as there may be, in the order of their
\* scores, and no page left out scores higher than one that was chosen.
ContactPagesAreBest(links) ==
  LET chosen == FindContactPages(links)
      pages == {link.href : link \in {l \in ToSet(links) : Eligible(l)}}
  IN /\ IsInjective(chosen)
     /\ ToSet(chosen) \subseteq pages
     /\ Len(chosen) = Min({MaxContactPages, Cardinality(pages)})
     /\ \A i, j \in DOMAIN chosen :
          i < j => PageScore(links, chosen[i]) >= PageScore(links, chosen[j])
     /\ \A p \in pages \ ToSet(chosen) : \A i \in DOMAIN chosen :
          PageScore(links, chosen[i]) >= PageScore(links, p)
=============================================================================
