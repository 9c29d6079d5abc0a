--------------------------------- MODULE Engine ---------------------------------
(* One scan run against its target: the crawl with its robots.txt, sitemaps and  *)
(* browser, the TLS handshakes and the active probes, all of them drawing on one *)
(* budget through the scope guard; paused and resumed, stopped by the kill       *)
(* switch, killed and redelivered.                                               *)
(*                                                                               *)
(* Requests leave a run one at a time (the request chain), but each is several   *)
(* steps: the controls are read, then the guard decides and the request is sent, *)
(* then its answer is recorded in the ledger that the next run counts.           *)
EXTENDS Integers, FiniteSets, Sequences, SequencesExt

CONSTANTS
  Url,             \* canonical URLs, robots.txt apart
  Sites,           \* the sites crawled: [entry, scope, denied, links, scripts, fetches,
                   \*   redirects, sitemaps, nested]; edges are pairs of URLs
  Robots, NoUrl,
  Sitemap,         \* /sitemap.xml, asked for after those robots.txt names
  MaxSitemaps,     \* MAX_SITEMAPS
  MaxDepth, MaxPages, MaxRequests,
  Handshakes,      \* TLS connections of one probe; 0 for a plaintext origin
  Probes,          \* active probes of the profile
  MaxAttempt,      \* bound on resumes
  EngineFaults,    \* kinds: "unanswered", "dns", "unledgered", "dies", "misread"
  MaxEngineFaults

ASSUME EngineAssumption ==
  /\ \A n \in {MaxSitemaps, MaxDepth, MaxPages, MaxRequests, Handshakes, Probes,
               MaxAttempt, MaxEngineFaults} : n \in Nat
  /\ Robots \notin Url /\ NoUrl \notin Url \cup {Robots} /\ IsFiniteSet(Url)
  /\ Sitemap \in Url
  /\ \A s \in Sites : /\ s.entry \cup s.denied \subseteq Url /\ s.entry # {}
                      /\ s.scope \subseteq Url \cup {Robots}
                      /\ s.links \cup s.scripts \cup s.fetches \cup s.redirects
                           \cup s.nested \subseteq Url \X Url
                      /\ s.sitemaps \in Seq(Url)

VARIABLES
  site, row,
  halted,          \* the kill switch
  run,             \* the engine: its phase and frontier
  made,            \* its requestsMade, the spend it resumed from included
  req,             \* its request, between its steps
  ledger,          \* rows of url_ledger that stand for a request sent
  sent,            \* requests that have reached the target
  unledgered,      \* those whose row was lost
  sinceHalt,       \* those sent since the kill switch was engaged
  engineFaults

engineVars == <<site, row, halted, run, made, req, ledger, sent, unledgered, sinceHalt, engineFaults>>

NoReq == [at |-> "none", url |-> NoUrl, depth |-> 0, halted |-> FALSE]
NoRun == [phase |-> "none", attempt |-> 0, stoppedBy |-> "null",
          robots |-> "none", queue |-> <<>>, seen |-> {}, crawled |-> {},
          toRender |-> <<>>, maps |-> <<>>, fetched |-> {}, browser |-> {},
          revealed |-> {}, left |-> 0, stopSeen |-> FALSE, clean |-> TRUE]

EngineInit ==
  /\ site \in Sites
  /\ row = [status |-> "RUNNING", attempt |-> 1] /\ halted = FALSE
  /\ run = NoRun /\ made = 0 /\ req = NoReq
  /\ ledger = 0 /\ sent = 0 /\ unledgered = 0 /\ sinceHalt = 0 /\ engineFaults = 0

EngineFault(kind) ==
  /\ kind \in EngineFaults /\ engineFaults < MaxEngineFaults
  /\ engineFaults' = engineFaults + 1

UnchangedButRun == UNCHANGED <<site, row, halted, made, ledger, sent, unledgered, sinceHalt>>
Between(phase) == run.phase = phase /\ req.at = "none"

----------------------------------------------------------------------------
(* The frontier. *)

Out(edges, u) == {v \in Url : <<u, v>> \in edges}

\* inScopeUrl: of the origin and the scope's paths, and robots.txt allows it.
Crawlable(robots, u) ==
  /\ u \in site.scope /\ robots # "disallow_all"
  /\ robots = "rules" => u \notin site.denied

Enqueue_TooDeep(r, urls, depth) ==
  LET new == {u \in urls : Crawlable(r.robots, u) /\ u \notin r.seen}
  IN [r EXCEPT !.seen = @ \cup new,
               !.queue = @ \o SetToSeq({[url |-> u, depth |-> depth] : u \in new})]
Enqueue_InFront(r, urls, depth) ==
  LET new == {u \in urls : depth <= MaxDepth /\ Crawlable(r.robots, u) /\ u \notin r.seen}
  IN [r EXCEPT !.seen = @ \cup new,
               !.queue = SetToSeq({[url |-> u, depth |-> depth] : u \in new}) \o @]

\* Too deep a URL is dropped before it is marked as seen.
Enqueue(r, urls, depth) ==
  LET new == {u \in urls : depth <= MaxDepth /\ Crawlable(r.robots, u) /\ u \notin r.seen}
  IN [r EXCEPT !.seen = @ \cup new,
               !.queue = @ \o SetToSeq({[url |-> u, depth |-> depth] : u \in new})]

WithinBudget(r) ==
  /\ r.stoppedBy = "null"
  /\ Cardinality(r.crawled) < MaxPages /\ made < MaxRequests

----------------------------------------------------------------------------
(* A request, whatever phase asks for it. *)

Ask(u, depth) == req' = [at |-> "asked", url |-> u, depth |-> depth, halted |-> FALSE]

\* evaluate(), in its order; the page ceiling is for the crawl's requests only.
Refusal(dns) ==
  CASE req.halted -> "KILL_SWITCH"
    [] req.url \notin site.scope -> "OUT_OF_SCOPE"
    [] \/ made >= MaxRequests
       \/ run.phase \notin {"tls", "active"} /\ Cardinality(run.crawled) >= MaxPages
       \/ req.depth > MaxDepth -> "CEILING"
    [] dns = "none" -> "DNS_FAILED"
    [] dns = "elsewhere" -> "REBINDING"
    [] OTHER -> "allowed"

\* What a run makes of the answer to its request: "null" when nothing was sent or
\* it went wrong, a guard's code, or what the site said.
AfterRobots(r, res) ==
  LET robots == IF res \in {"null", "broken"} THEN "disallow_all"
                ELSE IF res = "ok" THEN "rules" ELSE "none"
      entered == Enqueue([r EXCEPT !.robots = robots], site.entry, 0)
  IN [entered EXCEPT !.phase = "sitemaps",
        !.maps = Append(IF robots = "rules" THEN site.sitemaps ELSE <<>>, Sitemap)]

AfterSitemap(r, res) ==
  IF res # "ok" THEN r
  ELSE [Enqueue(r, Out(site.links, req.url), 1) EXCEPT
          !.maps = @ \o SetToSeq(Out(site.nested, req.url))]

Answered == {"ok", "moved", "missing", "broken"}

AfterPage(r, res) ==
  LET u == req.url  d == req.depth
      moved == IF res = "moved" THEN Enqueue(r, Out(site.redirects, u), d) ELSE r
      linked == Enqueue(moved, Out(site.links, u), d + 1)
  IN IF res \notin Answered THEN r
     ELSE [linked EXCEPT !.crawled = @ \cup {u},
             !.toRender = IF res = "ok" THEN Append(@, [url |-> u, depth |-> d]) ELSE @]

\* The document first; a blank page asks for nothing more.
AfterBrowser(r, res) ==
  LET page == Head(r.toRender).url  u == req.url
  IN IF u # page THEN [r EXCEPT !.revealed = IF res \in Answered THEN @ \cup {u} ELSE @]
     ELSE IF res \in Answered
          THEN [r EXCEPT !.browser = Out(site.fetches, page) \ {page},
                         !.revealed = Out(site.scripts, page)]
          ELSE r

\* A refusal ends the TLS probe; an error there, unlike elsewhere, ends the run.
AfterHandshake(r, res) ==
  IF res = "null" THEN [r EXCEPT !.phase = "failed"]
  ELSE [r EXCEPT !.left = IF res \in Answered THEN @ - 1 ELSE 0]

AfterProbe(r, res) == [r EXCEPT !.left = @ - 1]

Handled(res) ==
  LET r == [run EXCEPT !.clean = @ /\ res \in Answered \cup {"OUT_OF_SCOPE"}] IN
  CASE r.phase = "robots" -> AfterRobots(r, res)
    [] r.phase = "sitemaps" -> AfterSitemap(r, res)
    [] r.phase = "crawl" -> AfterPage(r, res)
    [] r.phase = "render" -> AfterBrowser(r, res)
    [] r.phase = "tls" -> AfterHandshake(r, res)
    [] r.phase = "active" -> AfterProbe(r, res)

Stops(r, code) ==
  [r EXCEPT !.stoppedBy = IF \/ code \in {"KILL_SWITCH", "STOPPED"} /\ r.phase # "tls"
                             \/ code = "CEILING" /\ r.phase \notin {"tls", "active"}
                          THEN code ELSE @]

\* The status row is read at most every STATUS_POLL_MS, so the look may be stale.
RowSaysStop(r) == row.status # "RUNNING" \/ row.attempt # r.attempt

ReadSwitch_FailsOpen(engaged) ==
  \/ engaged = halted /\ UNCHANGED engineFaults
  \/ ~engaged /\ EngineFault("misread")

\* killSwitchReader fails closed.
ReadSwitch(engaged) ==
  \/ engaged = halted /\ UNCHANGED engineFaults
  \/ engaged /\ ~halted /\ EngineFault("misread")

\* The kill switch first, then the row (the TLS probe reads only the switch). An
\* engaged switch still goes to the guard, which ledgers the refusal.
ReadControls ==
  /\ req.at = "asked" /\ run.stoppedBy # "STOPPED"
  /\ \E engaged, fresh \in BOOLEAN :
       LET looks == ~engaged /\ run.phase # "tls"
           stop == looks /\ (run.stopSeen \/ (fresh /\ RowSaysStop(run)))
       IN /\ ReadSwitch(engaged)
          /\ run' = IF stop THEN Stops([Handled("null") EXCEPT !.stopSeen = TRUE], "STOPPED")
                    ELSE run
          /\ req' = IF stop THEN NoReq ELSE [req EXCEPT !.at = "cleared", !.halted = engaged]
  /\ UnchangedButRun

\* Once stopped, what the browser still asks for is not sent.
DropRequest ==
  /\ req.at = "asked" /\ run.stoppedBy = "STOPPED"
  /\ run' = Handled("null") /\ req' = NoReq
  /\ UnchangedButRun /\ UNCHANGED engineFaults

\* A refusal does not count; a request is counted before it is sent.
Authorize ==
  /\ req.at = "cleared"
  /\ \E dns \in {"verified", "none", "elsewhere"} :
       /\ IF dns = "verified" THEN UNCHANGED engineFaults ELSE EngineFault("dns")
       /\ LET code == Refusal(dns) IN
          IF code = "allowed"
          THEN /\ req' = [req EXCEPT !.at = "sent"] /\ made' = made + 1
               /\ sent' = sent + 1 /\ sinceHalt' = IF halted THEN sinceHalt + 1 ELSE 0
               /\ UNCHANGED run
          ELSE /\ run' = Stops(Handled(code), code) /\ req' = NoReq
               /\ UNCHANGED <<made, sent, sinceHalt>>
  /\ UNCHANGED <<site, row, halted, ledger, unledgered>>

SiteSays(u) ==
  IF u = Robots THEN {"ok", "missing", "broken"}
  ELSE IF Out(site.redirects, u) # {} THEN {"moved"} ELSE {"ok"}

\* The response; a timeout, which is an answer to a handshake; or the loss of the
\* ledger's row.
Answer ==
  /\ req.at = "sent" /\ req' = NoReq
  /\ \/ /\ \E res \in SiteSays(req.url) : run' = Handled(res)
        /\ ledger' = ledger + 1 /\ UNCHANGED <<engineFaults, unledgered>>
     \/ /\ EngineFault("unanswered")
        /\ run' = Handled(IF run.phase = "tls" THEN "ok" ELSE "null")
        /\ ledger' = ledger + 1 /\ UNCHANGED unledgered
     \/ /\ EngineFault("unledgered")
        /\ run' = Handled("null")
        /\ unledgered' = unledgered + 1 /\ UNCHANGED ledger
  /\ UNCHANGED <<site, row, halted, made, sent, sinceHalt>>

----------------------------------------------------------------------------
(* The phases. *)

StartRun_FreshBudget ==
  /\ row.status = "RUNNING"
  /\ run.phase = "none" \/ (run.phase = "over" /\ run.attempt < row.attempt)
  /\ req.at = "none"
  /\ run' = [NoRun EXCEPT !.phase = "robots", !.attempt = row.attempt]
  /\ made' = 0
  /\ UNCHANGED <<site, row, halted, req, ledger, sent, unledgered, sinceHalt, engineFaults>>

\* createScanEngine: the spend of earlier runs is what the ledger counts; pages
\* are crawled again.
StartRun ==
  /\ row.status = "RUNNING"
  /\ run.phase = "none" \/ (run.phase = "over" /\ run.attempt < row.attempt)
  /\ req.at = "none"
  /\ run' = [NoRun EXCEPT !.phase = "robots", !.attempt = row.attempt]
  /\ made' = ledger
  /\ UNCHANGED <<site, row, halted, req, ledger, sent, unledgered, sinceHalt, engineFaults>>

AskRobots == Between("robots") /\ Ask(Robots, 0) /\ UNCHANGED run

\* A sitemap index may list itself; each sitemap is fetched once.
ReadSitemap == LET m == Head(run.maps)  rest == [run EXCEPT !.maps = Tail(@)] IN
  /\ Between("sitemaps")
  /\ IF run.maps = <<>> \/ Cardinality(run.fetched) >= MaxSitemaps \/ ~WithinBudget(run)
     THEN run' = [run EXCEPT !.phase = "crawl"] /\ UNCHANGED req
     ELSE IF m \in run.fetched \/ ~Crawlable(run.robots, m)
     THEN run' = rest /\ UNCHANGED req
     ELSE run' = [rest EXCEPT !.fetched = @ \cup {m}] /\ Ask(m, 0)

Visit == LET next == Head(run.queue) IN
  /\ Between("crawl") /\ run.queue # <<>> /\ WithinBudget(run)
  /\ run' = [run EXCEPT !.queue = Tail(@)] /\ Ask(next.url, next.depth)

\* The first page to render is asked for again, by the browser.
BrowserOpens(r) ==
  /\ run' = [r EXCEPT !.phase = "render", !.browser = {}, !.revealed = {}]
  /\ Ask(Head(r.toRender).url, Head(r.toRender).depth)

\* The static frontier is dry, or the budget gone.
EndVisits ==
  /\ Between("crawl") /\ (run.queue = <<>> \/ ~WithinBudget(run))
  /\ IF run.toRender # <<>> /\ WithinBudget(run) THEN BrowserOpens(run)
     ELSE run' = [run EXCEPT !.phase = "crawled"] /\ UNCHANGED req

\* The page's own requests, in whatever order the browser makes them.
BrowserAsks == \E u \in run.browser :
  /\ Between("render")
  /\ run' = [run EXCEPT !.browser = @ \ {u}] /\ Ask(u, Head(run.toRender).depth)

\* What the scripts revealed is queued; then the next page, or the crawl again.
EndRender ==
  LET page == Head(run.toRender)
      done == [Enqueue(run, run.revealed, page.depth + 1) EXCEPT !.toRender = Tail(@)]
  IN /\ Between("render") /\ run.browser = {}
     /\ IF done.toRender # <<>> /\ WithinBudget(done) THEN BrowserOpens(done)
        ELSE run' = [done EXCEPT !.phase = "crawl"] /\ UNCHANGED req

\* checkpoint(), before the TLS probe and before detection.
Checkpoint ==
  /\ Between("crawled") \/ (Between("tls") /\ run.left = 0)
  /\ \E engaged, fresh \in BOOLEAN :
       LET stop == run.stopSeen \/ (fresh /\ RowSaysStop(run))
           why == IF run.stoppedBy \in {"KILL_SWITCH", "STOPPED"} THEN run.stoppedBy
                  ELSE IF engaged THEN "KILL_SWITCH" ELSE IF stop THEN "STOPPED" ELSE "none"
       IN /\ ReadSwitch(engaged)
          /\ run' = IF why # "none" THEN [run EXCEPT !.phase = "done", !.stoppedBy = why]
                    ELSE IF run.phase = "crawled"
                         THEN [run EXCEPT !.phase = "tls", !.left = Handshakes]
                         ELSE [run EXCEPT !.phase = "active", !.left = Probes]
  /\ UNCHANGED req /\ UnchangedButRun

EntryUrl == CHOOSE u \in site.entry : TRUE

ShakeHands == Between("tls") /\ run.left > 0 /\ Ask(EntryUrl, 0) /\ UNCHANGED run

\* Probes are skipped once the run is aborted or the budget spent.
ProbeActively ==
  /\ Between("active")
  /\ IF run.left = 0 \/ run.stoppedBy \in {"KILL_SWITCH", "STOPPED"}
     THEN run' = [run EXCEPT !.phase = "done"] /\ UNCHANGED req
     ELSE IF made >= MaxRequests
     THEN run' = [run EXCEPT !.left = @ - 1] /\ UNCHANGED req
     ELSE Ask(EntryUrl, 0) /\ UNCHANGED run

PhaseStep ==
  /\ \/ AskRobots \/ ReadSitemap \/ Visit \/ EndVisits \/ BrowserAsks \/ EndRender
     \/ ShakeHands \/ ProbeActively
  /\ UnchangedButRun /\ UNCHANGED engineFaults

\* The orchestrator completes the row, or fails it for an error or a switch it
\* cannot confirm; a row somebody else moved is left alone.
EngineReturns ==
  /\ run.phase \in {"done", "failed"}
  /\ run' = [NoRun EXCEPT !.phase = "over", !.attempt = run.attempt]
  /\ row' = IF row.status = "RUNNING" /\ run.stoppedBy # "STOPPED"
            THEN [row EXCEPT !.status = "ENDED"] ELSE row
  /\ UNCHANGED <<site, halted, made, req, ledger, sent, unledgered, sinceHalt, engineFaults>>

----------------------------------------------------------------------------
(* What happens around a run. *)

\* The worker process dies; BullMQ delivers the job again.
EngineDies ==
  /\ run.phase \notin {"none", "over"} /\ EngineFault("dies")
  /\ run' = NoRun /\ req' = NoReq
  /\ unledgered' = unledgered + (IF req.at = "sent" THEN 1 ELSE 0)
  /\ UNCHANGED <<site, row, halted, made, ledger, sent, sinceHalt>>

PauseOrResume ==
  /\ \/ row.status = "RUNNING" /\ row' = [row EXCEPT !.status = "PAUSED"]
     \/ /\ row.status = "PAUSED" /\ row.attempt < MaxAttempt /\ ~halted
        /\ row' = [status |-> "RUNNING", attempt |-> row.attempt + 1]
  /\ UNCHANGED <<site, halted, run, made, req, ledger, sent, unledgered, sinceHalt, engineFaults>>

\* Engaging the kill switch ends the running scans in the same transaction.
SwitchKill ==
  /\ halted \/ row.status = "RUNNING"
  /\ halted' = ~halted /\ sinceHalt' = 0
  /\ row' = IF halted THEN row ELSE [row EXCEPT !.status = "ENDED"]
  /\ UNCHANGED <<site, run, made, req, ledger, sent, unledgered, engineFaults>>

EngineNext ==
  \/ StartRun \/ PhaseStep \/ Checkpoint
  \/ ReadControls \/ DropRequest \/ Authorize \/ Answer \/ EngineReturns
  \/ EngineDies \/ PauseOrResume \/ SwitchKill
EngineSpec == EngineInit /\ [][EngineNext]_engineVars

----------------------------------------------------------------------------
(* Properties. *)

EngineTypeOK ==
  /\ run.phase \in {"none", "robots", "sitemaps", "crawl", "render", "crawled", "tls",
                    "active", "done", "failed", "over"}
  /\ req.at \in {"none", "asked", "cleared", "sent"}
  /\ req.at # "none" => run.phase \in {"robots", "sitemaps", "crawl", "render", "tls", "active"}
  /\ run.stoppedBy \in {"null", "KILL_SWITCH", "CEILING", "STOPPED"}
  /\ run.seen \subseteq Url /\ run.crawled \subseteq run.seen
  /\ {q.url : q \in ToSet(run.queue) \cup ToSet(run.toRender)} \subseteq run.seen
  /\ \A q \in ToSet(run.queue) : q.depth \in 0..MaxDepth
  /\ made \in Nat /\ ledger \in Nat /\ sent \in Nat /\ unledgered \in Nat

\* Over all runs of a scan, whatever pauses, crashes and redeliveries there are,
\* the target gets no more requests than the limit and those the ledger lost.
BudgetRespected == sent <= MaxRequests + unledgered

\* Every request is in the ledger, on its way, or one that a fault lost.
LedgerComplete ==
  sent = ledger + unledgered + (IF req.at = "sent" THEN 1 ELSE 0)

\* Once the kill switch is engaged, at most the request already past its check
\* still leaves the run.
OneAfterHalt == sinceHalt <= 1

\* The pages at most MaxDepth links away, the reference for a breadth-first crawl.
Near[k \in Nat] ==
  IF k = 0 THEN {u \in site.entry : Crawlable(run.robots, u)}
  ELSE Near[k - 1] \cup {v \in Url : /\ Crawlable(run.robots, v)
                                     /\ \E u \in Near[k - 1] : <<u, v>> \in site.links}

\* A crawl that nothing stopped and nothing failed in has fetched all of them:
\* no redirect, sitemap or script got a page marked as seen at too great a depth.
CrawlCovers ==
  (/\ run.phase \in {"tls", "active"} /\ run.clean /\ WithinBudget(run)) =>
    Near[MaxDepth] \subseteq run.crawled
=============================================================================
