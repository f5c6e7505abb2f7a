------------------------------ MODULE Scraper ------------------------------
(***************************************************************************)
(* Scraping: jobs walk the pages of a novel's sources through each site's  *)
(* adapter and put the chapters they yield into the novel's one sequence   *)
(* of chapters, while the sites publish and unlock pages, owners renumber  *)
(* a source, and jobs are canceled, fail, crash and are queued again.      *)
(*                                                                         *)
(* A site is a list of pages in reading order; what the extractors get     *)
(* from a page's HTML is the record Page.  Chapter numbers are in          *)
(* hundredths, so that a side story at +0.01 is an integer.  Adapters are  *)
(* told apart by what matters for navigation: "paged" (_PagedHtmlAdapter), *)
(* "linked" (Boti, WeTried), "split" (Novel543), "catalogue" (the          *)
(* translation sites), "reader" (fucknovelpia), "account" (Novelpia        *)
(* Global) and "archive" (RAW archives).                                   *)
(***************************************************************************)
EXTENDS Integers, Sequences, FiniteSets, FiniteSetsExt

CONSTANTS
  ScrapeJobs,       \* scrape jobs that may be active together
  Editors,          \* requests that may renumber a source together
  Novels,           \* the novels: per source id, its adapter and pages
  Offsets,          \* per source id, the offsets its owner may give it
  Limits,           \* the max_chapters of a request; Unlimited is None
  Forces,           \* the values of its force flag
  Unlimited,
  NoNum,            \* an extractor found no chapter number
  MaxRedirects,     \* redirects safe_fetch follows
  MaxNumber,        \* bound on chapter numbers
  MaxScheduled,     \* bound on jobs scheduled
  MaxStops,         \* bound on requests to cancel and crashes of a worker
  MaxRenumbered,    \* bound on changes of an offset
  RenumberAnytime   \* whether an offset may change while a job is active

ASSUME ScraperAssumptions ==
  /\ \A n \in Novels : \A s \in DOMAIN n :
       s \in Nat /\ Offsets[s] \subseteq Int /\ \E o \in Offsets[s] : \A x \in Offsets[s] : x <= o
  /\ NoNum \notin Nat /\ Unlimited \notin Nat
  /\ Limits \subseteq (Nat \ {0}) \cup {Unlimited} /\ Forces \subseteq BOOLEAN
  /\ {MaxRedirects, MaxNumber, MaxScheduled, MaxStops, MaxRenumbered} \subseteq Nat
  /\ RenumberAnytime \in BOOLEAN

VARIABLES
  site,        \* per source id: the adapter and the pages of its site
  opened,      \* the pages, <<source, page>>, published or unlocked since
  offset,      \* sources.chapter_offset
  chapters,    \* the novel's rows of table chapters
  job,         \* the scrape jobs
  patch,       \* the requests to renumber a source
  cookies,     \* whether the jobs' user has saved account cookies
  bound        \* how often the bounded actions happened

scraperVars == <<site, opened, offset, chapters, job, patch, cookies, bound>>

----------------------------------------------------------------------------
Sources == DOMAIN site
Number == Nat \cup {NoNum}

\* num is the chapter the title names, path the one the URL names, 0 for none;
\* next is the page its link leads to, shown whether the link is rendered; cont
\* marks a further page of a split chapter, side the title of a side story;
\* redirects is how often the request is redirected, away whether it leaves the
\* allowed hosts.
Page == [num : Number, path : Nat, next : Nat, shown : BOOLEAN,
         state : {"open", "locked", "blank", "image", "ad", "index", "gone"},
         cont : BOOLEAN, side : BOOLEAN, redirects : Nat, away : BOOLEAN]

Site == [kind : {"paged", "linked", "split", "catalogue", "reader", "account", "archive"},
         pages : Seq(Page)]

ASSUME NovelsAssumption == \A n \in Novels : \A s \in DOMAIN n : n[s] \in Site

\* loc is a history field: the source-local number the row was given.
Row == [num : Int, src : Sources, page : Nat, loc : Nat]

\* target, force and max are the request's; the rest is the crawl of the source
\* it is at, the least of todo.
Job == [pc : {"idle", "source", "fetch", "ad", "take", "write", "after"},
        target : SUBSET Sources, force : BOOLEAN, max : (Nat \ {0}) \cup {Unlimited},
        todo : SUBSET Sources, cancel : BOOLEAN, resume : BOOLEAN, off : Int, at : Nat,
        link : Nat, predicted : BOOLEAN, seen : SUBSET Nat, count : Nat, last : Number,
        pending : Nat, queue : Seq([page : Nat, num : Number]), prev : Number,
        exists : BOOLEAN, wrote : Nat, saved : SUBSET Nat, fresh : Nat]

IdleJob == [pc |-> "idle", target |-> {}, force |-> FALSE, max |-> Unlimited, todo |-> {},
            cancel |-> FALSE, resume |-> FALSE, off |-> 0, at |-> 0, link |-> 0,
            predicted |-> FALSE, seen |-> {}, count |-> 0, last |-> NoNum, pending |-> 0,
            queue |-> <<>>, prev |-> NoNum, exists |-> FALSE, wrote |-> 0,
            saved |-> {}, fresh |-> 0]

Active(j) == job[j].pc # "idle"
Src(j) == Min(job[j].todo)
KindOf(s) == site[s].kind
Kind(j) == KindOf(Src(j))
PagesOf(s) == site[s].pages
Here(j) == PagesOf(Src(j))[job[j].at]
State(s, p) == IF <<s, p>> \in opened THEN "open" ELSE PagesOf(s)[p].state

----------------------------------------------------------------------------
(* What a page says, and how the next one is found.                        *)

\* The link the page shows.  The translation sites take only a link to a later
\* chapter for one.
Link(s, p) ==
  LET pg == PagesOf(s)[p]
      to == pg.next
  IN  IF to = 0 \/ ~pg.shown \/ State(s, to) = "gone" THEN 0
      ELSE IF KindOf(s) = "catalogue" /\ State(s, p) # "index"
              /\ PagesOf(s)[to].path <= pg.path THEN 0
      ELSE to

Whole(n) == (n \div 100) * 100

parse_chapter_number(pg) ==
  IF pg.num # NoNum THEN pg.num ELSE IF pg.path # 0 THEN pg.path ELSE NoNum

\* The page at the URL after this one's, Len + 1 for a URL no page has.
_predict_next_url(s, p) ==
  LET pg == PagesOf(s)[p]
      n == parse_chapter_number(pg)
      hits == {q \in DOMAIN PagesOf(s) : PagesOf(s)[q].path = Whole(n) + 100}
  IN  IF n = NoNum \/ pg.path # n \/ pg.path # Whole(pg.path) THEN 0
      ELSE IF hits = {} THEN Len(PagesOf(s)) + 1 ELSE Min(hits)

\* No hop leaves the hosts the source may use.
validate_url(pg) == ~pg.away

\* Every hop is validated before it is requested, and there are only so many.
safe_fetch(s, p) ==
  IF p > Len(PagesOf(s)) \/ State(s, p) = "gone" THEN "missing"
  ELSE IF ~validate_url(PagesOf(s)[p]) \/ PagesOf(s)[p].redirects > MaxRedirects THEN "refused"
  ELSE "ok"

\* The number the adapter gives a chapter.  Novel543 goes on counting where
\* titles carry no number or start again; the URL decides on the sites whose
\* URLs name the chapter.
AdapterNumber(k, pg, last) ==
  LET parsed == parse_chapter_number(pg)
  IN  CASE k \in {"catalogue", "reader"} -> pg.path
        [] k = "split" /\ last # NoNum /\ (parsed = NoNum \/ parsed <= last) ->
             IF pg.side THEN last + 1 ELSE Whole(last) + 100
        [] OTHER -> parsed

----------------------------------------------------------------------------
(* A job and its sources.                                                  *)

\* A job at the start of its sources or between two of them.
Between(r, todo) ==
  [IdleJob EXCEPT !.pc = "source", !.target = r.target, !.force = r.force, !.max = r.max,
                  !.cancel = r.cancel, !.todo = todo]

\* However a job ends (the row that says how is module WorkJobs'), it is over.
Over(r) == IdleJob

EndSource(r) == Between(r, r.todo \ {Min(r.todo)})

\* Which page the adapter fetches next, 0 when the crawl is over.
Follow(r, p) == IF p = 0 THEN EndSource(r) ELSE [r EXCEPT !.at = p, !.pc = "fetch"]

\* Repeated requests for the same work join the job that is active.  Jobs are
\* interchangeable: which of the free ones it is makes no difference.
Schedule(target, force, max) ==
  LET j == CHOOSE i \in ScrapeJobs : ~Active(i)
      r == [IdleJob EXCEPT !.target = target, !.force = force, !.max = max]
  IN  /\ \E i \in ScrapeJobs : ~Active(i)
      /\ bound.scheduled < MaxScheduled
      /\ ~\E i \in ScrapeJobs : /\ Active(i)
                          /\ <<job[i].target, job[i].force, job[i].max>> = <<target, force, max>>
      /\ job' = [job EXCEPT ![j] = Between(r, target)]
      /\ bound' = [bound EXCEPT !.scheduled = @ + 1]
      /\ UNCHANGED <<site, opened, offset, chapters, patch, cookies>>

\* The account's requests need the cookies of the user who asked for the job.
LoggedIn(j) == Kind(j) = "account" => cookies

\* The account's adapter asks for the page after the checkpoint instead of
\* opening the checkpoint again.
AfterCheckpoint(r, s, c) == Follow([r EXCEPT !.last = c.loc], Link(s, c.page))

Rows(s) == {c \in chapters : c.src = s}

\* The source's row with the highest number.
resume_url(s) == CHOOSE c \in Rows(s) : \A d \in Rows(s) : d.num <= c.num

\* Mutant of the definition below.
BareLimit(j, r) == r.max

\* The limit given to the adapter: an inclusive resume yields its checkpoint too.
AdapterLimit(j, r) ==
  IF r.max # Unlimited /\ r.resume /\ Kind(j) # "account" THEN r.max + 1 ELSE r.max

Limited(j, r) == AdapterLimit(j, r) # Unlimited /\ r.count >= AdapterLimit(j, r)

\* The source is read once, at the start.
StartSource(j) ==
  LET s == Src(j)
      resumed == ~job[j].force /\ Rows(s) # {}
      r == [job[j] EXCEPT !.resume = resumed, !.off = offset[s],
                          !.saved = IF job[j].force THEN {} ELSE {c.page : c \in Rows(s)}]
  IN  /\ job[j].pc = "source" /\ job[j].todo # {} /\ ~job[j].cancel
      /\ RenumberAnytime \/ \A e \in Editors : patch[e] = <<>>
      /\ job' = [job EXCEPT ![j] =
           IF ~LoggedIn(j) THEN Over(r)
           ELSE IF ~resumed THEN Follow(r, 1)
           ELSE IF Kind(j) = "account" THEN AfterCheckpoint(r, s, resume_url(s))
           ELSE Follow(r, resume_url(s).page)]
      /\ UNCHANGED <<site, opened, offset, chapters, patch, cookies, bound>>

Finish(j) ==
  /\ job[j].pc = "source" /\ job[j].todo = {} /\ ~job[j].cancel
  /\ job' = [job EXCEPT ![j] = Over(@)]
  /\ UNCHANGED <<site, opened, offset, chapters, patch, cookies, bound>>

----------------------------------------------------------------------------
(* The crawl.                                                              *)

Crawls(j, r) ==
  /\ job' = [job EXCEPT ![j] = r]
  /\ UNCHANGED <<site, opened, offset, chapters, patch, cookies, bound>>

Visited(j) == [job[j] EXCEPT !.seen = @ \cup {job[j].at}]

\* Mutant of the definition below.
NeverRepeats(j) == FALSE

Repeats(j) == job[j].at \in job[j].seen

\* The translation sites end the crawl at a page seen before.
MeetRepeated(j) ==
  /\ job[j].pc = "fetch" /\ Repeats(j)
  /\ Crawls(j, IF Kind(j) = "catalogue" THEN EndSource(job[j]) ELSE Over(job[j]))

Fetched(j, result) ==
  job[j].pc = "fetch" /\ ~Repeats(j) /\ safe_fetch(Src(j), job[j].at) = result

\* The connection failed, after the retries an adapter makes.
FetchFails(j) ==
  /\ job[j].pc = "fetch" /\ ~Repeats(j)
  /\ Crawls(j, Over(Visited(j)))

FetchRefused(j) ==
  /\ Fetched(j, "refused")
  /\ Crawls(j, Over(Visited(j)))

\* A guessed page that is not there ends the book; a linked one does not.
FetchMissing(j) ==
  /\ Fetched(j, "missing")
  /\ Crawls(j, IF job[j].predicted THEN EndSource(Visited(j)) ELSE Over(Visited(j)))

OpenIndex(j) ==
  /\ Fetched(j, "ok") /\ State(Src(j), job[j].at) = "index"
  /\ Crawls(j, IF Link(Src(j), job[j].at) = 0 THEN Over(Visited(j))
               ELSE Follow(Visited(j), Link(Src(j), job[j].at)))

\* Mutant of the definition below.
PassPremium(j) ==
  /\ Fetched(j, "ok") /\ State(Src(j), job[j].at) = "locked" /\ Kind(j) # "archive"
  /\ Crawls(j, IF Kind(j) \in {"account", "reader"} THEN Over(Visited(j))
               ELSE Follow(Visited(j), Link(Src(j), job[j].at)))

\* A locked page is the end of what is free; Novelpia's is an error.
MeetPremium(j) ==
  /\ Fetched(j, "ok") /\ State(Src(j), job[j].at) = "locked" /\ Kind(j) # "archive"
  /\ Crawls(j, IF Kind(j) \in {"account", "reader"} THEN Over(Visited(j))
               ELSE EndSource(Visited(j)))

\* No text where there should be some is never the end of a book.
MeetBlank(j) ==
  /\ Fetched(j, "ok")
  /\ \/ State(Src(j), job[j].at) = "blank"
     \/ State(Src(j), job[j].at) = "image" /\ Kind(j) # "reader"
  /\ Crawls(j, Over(Visited(j)))

\* The reader's next link must lead to a later chapter, the account's episode
\* come after the one before it.
LeadsBack(j, to, n) ==
  \/ Kind(j) = "reader" /\ to # 0 /\ PagesOf(Src(j))[to].path <= Here(j).path
  \/ Kind(j) = "account" /\ job[j].last # NoNum /\ n <= job[j].last

PassImage(j) ==
  LET to == Link(Src(j), job[j].at)
  IN  /\ Fetched(j, "ok") /\ State(Src(j), job[j].at) = "image" /\ Kind(j) = "reader"
      /\ Crawls(j, IF LeadsBack(j, to, NoNum) THEN Over(Visited(j)) ELSE Follow(Visited(j), to))

\* The adapter yields the page's chapter.
Yield(r, p, n) == [r EXCEPT !.queue = <<[page |-> p, num |-> n]>>, !.last = n, !.pc = "take"]

\* The link of a split chapter's page leads to a further page of it.
Continued(j, to) == Kind(j) = "split" /\ to # 0 /\ PagesOf(Src(j))[to].cont

\* The next page is captured with the page, except by the account's adapter,
\* which asks for it once the chapter has been taken.
Read(j) ==
  LET s == Src(j)
      k == Kind(j)
      p == job[j].at
      to == Link(s, p)
      n == AdapterNumber(k, Here(j), job[j].last)
      r == [Visited(j) EXCEPT !.link = IF to = 0 /\ k = "paged" THEN _predict_next_url(s, p) ELSE to,
                              !.predicted = k = "paged" /\ to = 0]
      first == IF job[j].pending = 0 THEN p ELSE job[j].pending
      number == IF job[j].pending = 0 THEN n ELSE job[j].last
  IN  IF LeadsBack(j, to, n) THEN Over(r)
      ELSE IF Continued(j, to) THEN [r EXCEPT !.at = to, !.pending = first, !.last = number]
      ELSE Yield([r EXCEPT !.pending = 0], first, number)

ReadPage(j) ==
  /\ Fetched(j, "ok") /\ State(Src(j), job[j].at) = "open" /\ Kind(j) # "archive"
  /\ Crawls(j, Read(j))

\* The account's adapter has the browser watch the ad, once, canceled with the
\* job; the site may still refuse the chapter.
MeetAd(j) ==
  /\ Fetched(j, "ok") /\ State(Src(j), job[j].at) = "ad" /\ Kind(j) = "account"
  /\ Crawls(j, [job[j] EXCEPT !.pc = "ad"])

AdEnds(j) ==
  /\ job[j].pc = "ad" /\ ~job[j].cancel
  /\ \E r \in {Read(j), Over(Visited(j))} : Crawls(j, r)

\* The sections of an archive from the checkpoint's on, numbered in order.
archive_chapters(s, from, limit) ==
  LET n == Len(PagesOf(s)) - from + 1
  IN  [i \in 1..(IF limit = Unlimited \/ n <= limit THEN n ELSE limit) |->
         [page |-> from + i - 1, num |-> (from + i - 1) * 100]]

\* An archive is downloaded and read whole; a locked one needs its password.
ReadArchive(j) ==
  LET s == Src(j)
  IN  /\ Fetched(j, "ok") /\ Kind(j) = "archive"
      /\ Crawls(j, IF \E p \in DOMAIN PagesOf(s) : State(s, p) = "locked" THEN Over(Visited(j))
                   ELSE [Visited(j) EXCEPT
                           !.queue = archive_chapters(s, job[j].at, AdapterLimit(j, job[j])),
                           !.pc = "take"])

----------------------------------------------------------------------------
(* The runner, for every chapter that is yielded.                          *)

LocalNumber(r) ==
  LET n == Head(r.queue).num
  IN  IF n # NoNum THEN n ELSE IF r.prev # NoNum THEN r.prev + 100 ELSE 100

\* Assigning numbers on a resume could overwrite chapters, and a number that
\* does not grow means the extractor lost its way.
OutOfOrder(r) ==
  \/ Head(r.queue).num = NoNum /\ r.resume
  \/ r.prev # NoNum /\ LocalNumber(r) <= r.prev

\* The chapter is checked, and upsert_ingested_chapter, which writes later and
\* in no transaction, looks for its number.
Take(j) ==
  LET r == job[j]
      n == LocalNumber(r)
  IN  /\ r.pc = "take" /\ ~r.cancel /\ n <= MaxNumber
      /\ Crawls(j, IF OutOfOrder(r) THEN Over(r)
                   ELSE [r EXCEPT !.prev = n, !.exists = \E c \in chapters : c.num = n + r.off,
                          !.fresh = @ + (IF Head(r.queue).page \in r.saved THEN 0 ELSE 1),
                          !.count = @ + 1, !.pc = "write"])

Upsert(j) ==
  LET r == job[j]
      row == [num |-> r.prev + r.off, src |-> Src(j), page |-> Head(r.queue).page, loc |-> r.prev]
      wrote == r.force \/ ~r.exists
  IN  /\ r.pc = "write"
      /\ chapters' = IF wrote THEN {c \in chapters : c.num # row.num} \cup {row} ELSE chapters
      /\ job' = [job EXCEPT ![j].wrote = @ + (IF wrote THEN 1 ELSE 0),
                            ![j].queue = Tail(@), ![j].exists = FALSE, ![j].pc = "after"]
      /\ UNCHANGED <<site, opened, offset, patch, cookies, bound>>

\* The limit is on what was saved for the runner, on what was yielded for the
\* adapter.
GoOn(j) ==
  LET r == job[j]
      to == IF Kind(j) = "account" THEN Link(Src(j), r.at) ELSE r.link
  IN  /\ r.pc = "after" /\ ~r.cancel
      /\ Crawls(j, IF r.max # Unlimited /\ r.wrote >= r.max THEN EndSource(r)
                   ELSE IF Limited(j, r) THEN EndSource(r)
                   ELSE IF r.queue # <<>> THEN [r EXCEPT !.pc = "take"]
                   ELSE Follow(r, IF Kind(j) = "archive" THEN 0 ELSE to))

----------------------------------------------------------------------------
(* Cancellation, crashes, the sites, the owner.                            *)

RequestCancel(j) ==
  /\ Active(j) /\ ~job[j].cancel /\ bound.faults < MaxStops
  /\ job' = [job EXCEPT ![j].cancel = TRUE]
  /\ bound' = [bound EXCEPT !.faults = @ + 1]
  /\ UNCHANGED <<site, opened, offset, chapters, patch, cookies>>

Bail(j) ==
  /\ job[j].cancel /\ job[j].pc \in {"source", "take", "after", "ad"}
  /\ Crawls(j, Over(job[j]))

\* The worker dies; the job is queued again and starts over.
WorkerDies(j) ==
  /\ Active(j) /\ bound.faults < MaxStops
  /\ job' = [job EXCEPT ![j] = Between(@, @.target)]
  /\ bound' = [bound EXCEPT !.faults = @ + 1]
  /\ UNCHANGED <<site, opened, offset, chapters, patch, cookies>>

SiteChanges(s, p) ==
  /\ State(s, p) \in {"gone", "locked"}
  /\ opened' = opened \cup {<<s, p>>}
  /\ UNCHANGED <<site, offset, chapters, job, patch, cookies, bound>>

\* The user saves or deletes the cookies; only a novel with such a source cares.
SaveCookies ==
  /\ \E s \in Sources : KindOf(s) = "account"
  /\ cookies' = ~cookies
  /\ UNCHANGED <<site, opened, offset, chapters, job, patch, bound>>

\* update_source_offset: the old offset is read without a lock.
RenumberReads(e, s, new) ==
  /\ patch[e] = <<>> /\ new # offset[s] /\ bound.renumbered < MaxRenumbered
  /\ RenumberAnytime \/ \A j \in ScrapeJobs : Active(j) => s \notin job[j].todo
  /\ patch' = [patch EXCEPT ![e] = <<s, offset[s], new>>]
  /\ bound' = [bound EXCEPT !.renumbered = @ + 1]
  /\ UNCHANGED <<site, opened, offset, chapters, job, cookies>>

\* Mutant of the definition below.
Unmoved(s, delta) == Rows(s)

Moved(s, delta) == {[c EXCEPT !.num = @ + delta] : c \in Rows(s)}

\* The source's rows and its offset change together; a number another row has
\* makes the transaction fail.
RenumberCommits(e) ==
  /\ patch[e] # <<>>
  /\ LET s == patch[e][1]
         moved == Moved(s, patch[e][3] - patch[e][2])
         others == chapters \ Rows(s)
     IN  IF {c.num : c \in moved} \cap {c.num : c \in others} = {}
         THEN /\ chapters' = others \cup moved
              /\ offset' = [offset EXCEPT ![s] = patch[e][3]]
         ELSE UNCHANGED <<chapters, offset>>
  /\ patch' = [patch EXCEPT ![e] = <<>>]
  /\ UNCHANGED <<site, opened, job, cookies, bound>>

----------------------------------------------------------------------------
ScraperInit ==
  /\ site \in Novels
  /\ opened = {}
  /\ offset = [s \in Sources |-> Max(Offsets[s])]
  /\ chapters = {}
  /\ job = [j \in ScrapeJobs |-> IdleJob]
  /\ patch = [e \in Editors |-> <<>>]
  /\ cookies = TRUE
  /\ bound = [scheduled |-> 0, faults |-> 0, renumbered |-> 0]

\* What a worker does with a job once it has it.
Scrapes(j) ==
  \/ StartSource(j) \/ Finish(j)
  \/ MeetRepeated(j) \/ FetchRefused(j) \/ FetchMissing(j) \/ OpenIndex(j)
  \/ MeetPremium(j) \/ MeetBlank(j) \/ PassImage(j) \/ ReadPage(j) \/ MeetAd(j)
  \/ AdEnds(j) \/ ReadArchive(j)
  \/ Take(j) \/ Upsert(j) \/ GoOn(j) \/ Bail(j)

ScraperNext ==
  \/ \E j \in ScrapeJobs : Scrapes(j) \/ FetchFails(j) \/ RequestCancel(j) \/ WorkerDies(j)
  \/ \E target \in {{s} : s \in Sources} \cup {Sources}, force \in Forces, max \in Limits :
       Schedule(target, force, max)
  \/ \E s \in Sources : \E p \in DOMAIN PagesOf(s) : SiteChanges(s, p)
  \/ SaveCookies
  \/ \E e \in Editors :
       \/ RenumberCommits(e)
       \/ \E s \in Sources : \E new \in Offsets[s] : RenumberReads(e, s, new)

\* The worker goes on with a job it has claimed, and a transaction ends; no
\* fetch has to succeed.
ScraperSpec ==
  /\ ScraperInit /\ [][ScraperNext]_scraperVars
  /\ \A j \in ScrapeJobs : WF_scraperVars(Scrapes(j))
  /\ \A e \in Editors : WF_scraperVars(RenumberCommits(e))

----------------------------------------------------------------------------
\* The types of the state, and one row per chapter number.
ScraperTypeOK ==
  /\ site \in Novels
  /\ opened \subseteq Sources \X Nat
  /\ offset \in [Sources -> Int]
  /\ chapters \subseteq Row
  /\ \A c, d \in chapters : c.num = d.num => c = d
  /\ job \in [ScrapeJobs -> Job]
  /\ patch \in [Editors -> {<<>>} \cup (Sources \X Int \X Int)]
  /\ cookies \in BOOLEAN
  /\ bound \in [scheduled : Nat, faults : Nat, renumbered : Nat]

\* Pages that hold a chapter anyone may read.
Readable(s, p) == State(s, p) = "open" /\ ~PagesOf(s)[p].cont

\* Resuming at the highest saved number loses nothing: whatever chapter of a
\* source is saved, every readable one before it in the book is saved too
\* (scrape_source, resume_url, the adapters' stop conditions).
NoChapterIsSkipped ==
  \A c \in chapters : \A p \in DOMAIN PagesOf(c.src) :
    p < c.page /\ Readable(c.src, p) => \E d \in Rows(c.src) : d.page = p /\ d.num < c.num

\* A row's number is its number in the source plus the source's offset, also
\* after a renumbering (scrape_source, update_source_offset).
ChaptersAreAligned ==
  \A c \in chapters : c.num = c.loc + offset[c.src]

\* A job that stops at the adapter's limit has got that many chapters further,
\* so a sequence of limited jobs gets through the book (scrape_source's limit
\* for the adapter).
LimitIsReached ==
  [][\A j \in ScrapeJobs :
       /\ job[j].pc = "after" /\ job'[j].pc = "source" /\ Limited(j, job[j]) /\ ~job[j].force
       => job[j].fresh = job[j].max]_scraperVars

\* No site keeps a job for ever, whatever its links (_visit_url, the runner's
\* order check).
EveryCrawlEnds == \A j \in ScrapeJobs : Active(j) ~> ~Active(j)

============================================================================
