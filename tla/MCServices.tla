------------------------------- MODULE MCServices -------------------------------
EXTENDS Services
CONSTANTS p1, g1, g2, d1, e1, e2, m1, m2, auto, op, w1, w2, f1, f2, open, fp, none, a, b, c, x, map, h1, h2
MCExpiresAt == [e \in Evidence |-> IF e = e1 THEN 1 ELSE 2]
\* Two reports of one place that share a fingerprint, and one of another.
MCRawFinding == {[at |-> "p", parameter |-> "none", severity |-> 2],
                 [at |-> "p", parameter |-> "global", severity |-> 3],
                 [at |-> "q", parameter |-> "x", severity |-> 2]}
MCHosts == Permutations(Host)
MCSites == {
 \* robots.txt out of scope; a page linked from the entry and from a page of the sitemap, which lists itself
 [entry |-> {a}, scope |-> {a, b, c, x, map}, denied |-> {},
  links |-> {<<map, b>>, <<b, c>>, <<a, c>>, <<c, x>>}, scripts |-> {<<c, b>>},
  fetches |-> {}, redirects |-> {}, sitemaps |-> <<>>, nested |-> {<<map, map>>}],
 \* a redirect to a page that is linked further away
 [entry |-> {a}, scope |-> {a, b, c, x, Robots}, denied |-> {},
  links |-> {<<a, b>>, <<a, c>>, <<c, x>>, <<b, a>>}, scripts |-> {}, fetches |-> {},
  redirects |-> {<<b, x>>}, sitemaps |-> <<x>>, nested |-> {}],
 \* a browser that asks for what is out of scope or denied
 [entry |-> {a}, scope |-> {a, b, c, Robots}, denied |-> {b}, links |-> {<<a, b>>, <<b, c>>},
  scripts |-> {<<a, b>>}, fetches |-> {<<a, b>>, <<a, x>>}, redirects |-> {},
  sitemaps |-> <<>>, nested |-> {}]}

=============================================================================
