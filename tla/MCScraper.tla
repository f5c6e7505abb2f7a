----------------------------- MODULE MCScraper -----------------------------
(***************************************************************************)
(* Instances of Scraper: novels with a site of every kind of adapter, and  *)
(* one that two sites share.                                               *)
(***************************************************************************)
EXTENDS Scraper

\* A page whose title and URL carry number n and that links to page p.
At(n, p) == [num |-> n, path |-> n, next |-> p, shown |-> TRUE, state |-> "open",
             cont |-> FALSE, side |-> FALSE, redirects |-> 0, away |-> FALSE]

In(pg, state) == [pg EXCEPT !.state = state]

SiteOf(kind, pages) == [kind |-> kind, pages |-> pages]

Anonymous(p) == [At(NoNum, p) EXCEPT !.path = 0]
Hidden(n) == [At(n, 0) EXCEPT !.shown = FALSE]

\* A novel with one source.
One(kind, pages) == <<SiteOf(kind, pages)>>

MCNovels ==
  { \* hidden links, a page to come
    One("paged", <<Hidden(100), Hidden(200), In(At(300, 0), "gone")>>),
    \* a link back, found by no number
    One("paged", <<Anonymous(2), Anonymous(1)>>),
    \* a locked page before a free one, and a redirect
    One("linked", <<At(100, 2), In(At(200, 3), "locked"), [At(300, 0) EXCEPT !.redirects = 1]>>),
    \* a page without text, a page that is redirected without end
    One("linked", <<At(100, 2), In(At(200, 0), "blank")>>),
    One("linked", <<At(100, 2), [At(200, 0) EXCEPT !.redirects = 3]>>),
    \* a chapter on two pages
    One("split", <<At(100, 2), [At(100, 3) EXCEPT !.cont = TRUE], At(200, 4), At(300, 0)>>),
    \* an index, and a link back; an index that links to itself
    One("catalogue", <<In(At(0, 2), "index"), At(100, 3), At(200, 2)>>),
    One("catalogue", <<In(At(0, 1), "index")>>),
    One("reader", <<At(100, 2), In(At(200, 3), "image"), At(300, 0)>>),
    One("account", <<At(100, 2), In(At(200, 3), "ad"), In(At(300, 0), "gone")>>),
    \* an archive whose password is not given at first
    One("archive", <<At(100, 2), At(200, 3), In(At(300, 0), "locked")>>),
    \* a continuation by another site
    <<SiteOf("linked", <<At(100, 0)>>), SiteOf("linked", <<At(100, 0)>>)>> }

MCOffsets == <<{0}, {0, 100}>>

============================================================================
