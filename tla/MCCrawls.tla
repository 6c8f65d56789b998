------------------------------ MODULE MCCrawls ------------------------------
EXTENDS Crawls

CONSTANTS e, a, b, c

MCPages == {e, a, b, c}

\* A site whose page c is two links away by one path and three by another, with
\* a link back, a link twice on a page and a page beyond c's depth; and one
\* whose pages all hang on the entry page.
Links(le, la, lb, lc) == [p \in MCPages |-> IF p = e THEN le ELSE IF p = a THEN la ELSE IF p = b THEN lb ELSE lc]
Chain == Links(<<a, b>>, <<c, e>>, <<a>>, <<>>)
Ladder == Links(<<a>>, <<b, b>>, <<c, e>>, <<b>>)
Star == Links(<<a, b, c>>, <<e>>, <<>>, <<>>)

Job(engine, links, dead, slow, off, depth, limit) ==
  [engine |-> engine, links |-> links, dead |-> dead, slow |-> slow, off |-> off,
   depth |-> depth, limit |-> limit]

MCJobs ==
  { Job("rod", Chain, {}, {}, {}, 2, 9), Job("rod", Chain, {a}, {}, {}, 2, 9),
    Job("rod", Ladder, {}, {}, {}, 2, 9), Job("rod", Star, {}, {}, {b}, 3, 2),
    Job("rod", Chain, {}, {c}, {}, 3, 9), Job("rod", Chain, {}, {}, {}, 3, 4),
    Job("colly", Chain, {}, {}, {}, 1, 9), Job("colly", Chain, {}, {b}, {}, 4, 9),
    Job("colly", Ladder, {}, {}, {c}, 4, 6), Job("colly", Star, {}, {}, {}, 4, 2),
    Job("colly", Chain, {}, {}, {}, 4, 3),
    Job("zap", Chain, {}, {}, {}, 3, 3), Job("openapi", Star, {}, {}, {}, 3, 9) }

EarlierPages == <<c>>
\* One walk at a time, for what the engines do not do.
CollyStar == { Job("colly", Star, {}, {}, {}, 4, 3) }
CollyRace == { Job("colly", Chain, {}, {}, {}, 2, 99), Job("colly", Links(<<a, b>>, <<b>>, <<c>>, <<>>), {}, {}, {}, 2, 99) }
ZapOnly == { Job("zap", Star, {}, {}, {}, 3, 9) }
=============================================================================
