------------------------------ MODULE SiteWalk ------------------------------
(***************************************************************************)
(* What a crawl engine promises of its walk, whatever the order in which   *)
(* it fetches: pages are found one at a time, each is the entry page or    *)
(* linked, within the depth, from a page found before, none that the       *)
(* filter rejects is found, and never more than the limit.                 *)
(***************************************************************************)
EXTENDS Naturals, FiniteSets, Sequences, SequencesExt

CONSTANTS Pages, Entry

VARIABLES
  cfg,    \* the crawl's configuration and the site, fixed
  found   \* the pages found, each with the number of links followed to it

Linked(p, d) ==
  \E q \in DOMAIN found : p \in ToSet(cfg.links[q]) /\ found[q] + 1 = d

Find(p, d) ==
  /\ p \notin DOMAIN found
  /\ Cardinality(DOMAIN found) < cfg.limit
  /\ \/ p = Entry /\ d = 0
     \/ Linked(p, d) /\ p \notin cfg.off /\ d <= cfg.depth
  /\ found' = [q \in DOMAIN found \union {p} |-> IF q = p THEN d ELSE found[q]]
  /\ UNCHANGED cfg

Init == found = [p \in {} |-> 0]
Next == \E p \in Pages : \E d \in 0 .. cfg.depth : Find(p, d)
Spec == Init /\ [][Next]_<<cfg, found>>
=============================================================================
