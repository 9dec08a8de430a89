----------------------------- MODULE MCPageScan -----------------------------
(* Instance of PageScan for TLC: three technologies, seven links, three      *)
(* addresses of which one is noise.                                          *)
EXTENDS PageScan, TLC

Rule(place, pattern, match, confidence) ==
  [place |-> place, pattern |-> pattern, match |-> match, confidence |-> confidence]

MCTechnologies ==
  << [slug |-> "next", implies |-> <<"react", "node">>,
      rules |-> <<Rule("scripts", "_next", "contains", 0)>>],
     [slug |-> "react", implies |-> <<"node", "js">>,
      rules |-> <<Rule("html", "root", "contains", 50), Rule("globals", "React", "exact", 0)>>],
     [slug |-> "nginx", implies |-> <<>>,
      rules |-> <<Rule("server", "none", "contains", 0), Rule("html", "nginx", "exists", 10)>>] >>

Inputs ==
  [scripts : {{}, {{"_next"}, {"_next", "chunk"}}}, html : {{{}}, {{"root", "nginx"}}},
   globals : {{{"React"}}, {{"React", "Dom"}}}, server : {{}, {{"nginx"}}}]

Link(href, text, fragment, http, local) ==
  [href |-> href, text |-> text, fragment |-> fragment, http |-> http, local |-> local]

MCLinks ==
  { Link("contact", TRUE, TRUE, TRUE, TRUE), Link("about", FALSE, TRUE, TRUE, TRUE),
    Link("team", TRUE, FALSE, TRUE, TRUE), Link("contact", FALSE, TRUE, TRUE, TRUE),
    Link("other", TRUE, TRUE, TRUE, FALSE), Link("mail", TRUE, FALSE, FALSE, TRUE),
    Link("home", FALSE, FALSE, TRUE, TRUE) }

MCLinkLists == BoundedSeq(MCLinks, 4)

\* One contact page more than are tried.
ContactLinks ==
  <<Link("team", TRUE, FALSE, TRUE, TRUE), Link("about", FALSE, TRUE, TRUE, TRUE),
    Link("contact", TRUE, TRUE, TRUE, TRUE)>>

\* Pages that differ in their technologies, and one that has to be crawled.
MCPages ==
  [inputs : Inputs, text : {{1, 3}}, links : {<<>>}, host : {FALSE}]
  \union [inputs : {CHOOSE i \in Inputs : TRUE}, text : {{3}}, links : {ContactLinks},
          host : {TRUE}]

MCTexts == {{}, {1}, {2}, {1, 2, 3}}
=============================================================================
