----------------------------- MODULE GlkvmExport -----------------------------
(***************************************************************************)
(* kvmd's metrics on the GLKVM appliance: devices/glkvm/export.py, which   *)
(* shadows the vendor's export.pyc while that is the one it was verified   *)
(* against.                                                                *)
(*                                                                         *)
(* Scrapes share one cached answer: alru_cache keeps the task of a request *)
(* while it runs, its result for Ttl after it ended and nothing of one     *)
(* that failed.  The event loop's timers are taken to be on time.          *)
(***************************************************************************)
EXTENDS Integers, Sequences

CONSTANTS
    Scrapers,
    Atxs, Infos, Gpios,  \* what the managers can say: key paths to values; channels of a mode to states
    Hidden,          \* channels whose names start with two underscores
    Ttl,             \* 5 s
    MaxTime          \* bound of the clock

ASSUME ExportAssumption == Ttl \in Nat \ {0} /\ MaxTime \in Nat

Managers == {"atx", "info", "gpio"}
Unread == [at |-> -1, value |-> <<>>]

VARIABLES
    subs,      \* the information sources this firmware registers
    module,    \* what kvmd imported: "copy", "vendor", "none" (the import failed)
    cache,     \* [phase : none, asking, kept; began, until, got of each manager]
    asked,     \* when each scraper that waits asked, -1 for the others
    answer,    \* the last answer: its status, scrapers and the entry it is made of
    failedAt,  \* when a manager last failed
    elapsed

evars == <<subs, module, cache, asked, answer, failedAt, elapsed>>

-----------------------------------------------------------------------------
(* The rows.                                                               *)

\* Both keys carry the state, as the vendor's do.
GpioRows(gpio) ==
    {[name |-> <<"gpio", c[1], key, c[2]>>, value |-> gpio[c]] : c \in {d \in DOMAIN gpio : d[2] \notin Hidden}, key \in {"online", "state"}}

\* __append_prometheus_rows: numbers under their keys, parsed_flags' own name left out.
PathName(path) == SelectSeq(path, LAMBDA key : key # "parsed_flags")
NoNumber == -1  \* a text

\* No two numbers of one answer go by one name, whichever flags they are under, and a
\* channel of a mode has one key.
ASSUME PathsAssumption ==
    /\ \A info \in Infos : \A p, q \in {r \in DOMAIN info : info[r] # NoNumber} :
          Head(PathName(p)) = Head(p) /\ (PathName(p) = PathName(q) => p = q)
    /\ \A gpio \in Gpios : \A c \in DOMAIN gpio : c = <<c[1], c[2]>>

InfoRows(info) == {[name |-> PathName(p), value |-> info[p]] : p \in {q \in DOMAIN info : info[q] # NoNumber}}

Rows(got) ==
    {[name |-> <<"atx", key>>, value |-> got["atx"].value[key]] : key \in {"enabled", "power"}}
        \cup GpioRows(got["gpio"].value) \cup InfoRows(got["info"].value)

-----------------------------------------------------------------------------
(* The module and its cache.                                               *)

\* _is_patched_vendor, and what is imported by it.
Imported(pyc) ==
    CASE pyc = "verified" -> "copy"
      [] pyc = "other" -> "vendor"
      [] pyc = "missing" -> "none"

NoEntry == [phase |-> "none", began |-> 0, until |-> 0, got |-> [m \in Managers |-> Unread]]
Unanswered == [status |-> 0, to |-> {}, entry |-> NoEntry, sent |-> 0]

\* A boot of the appliance, perhaps with another firmware.
Boots(pyc) ==
    /\ module' = Imported(pyc)
    /\ subs' = IF pyc = "verified" THEN {"health", "hw"} ELSE {"health", "fan", "hw"}
    /\ cache' = NoEntry
    /\ asked' = [s \in Scrapers |-> -1]
    /\ answer' = Unanswered
    /\ UNCHANGED <<failedAt, elapsed>>

Fields == {"health", "fan"} \cap subs

Ok(to, entry) == [status |-> 200, to |-> to, entry |-> entry, sent |-> elapsed]
Error(to) == [Unanswered EXCEPT !.status = 500, !.to = to, !.sent = elapsed]

\* A request of the metrics: a kept answer, a wait for the one being made, or a new one.
Scrape(s) ==
    /\ module = "copy" /\ asked[s] = -1
    /\ IF cache.phase = "kept"
       THEN answer' = Ok({s}, cache) /\ UNCHANGED <<cache, asked>>
       ELSE /\ asked' = [asked EXCEPT ![s] = elapsed]
            /\ cache' = IF cache.phase = "none" THEN [cache EXCEPT !.phase = "asking", !.began = elapsed] ELSE cache
            /\ UNCHANGED answer
    /\ UNCHANGED <<subs, module, failedAt, elapsed>>

\* gather: the managers answer in any order.
Values(m) ==
    CASE m = "atx" -> Atxs
      [] m = "info" -> {[p \in {q \in DOMAIN i : Head(q) \in Fields} |-> i[p]] : i \in Infos}
      [] m = "gpio" -> Gpios

ManagerAnswers(m) ==
    /\ cache.phase = "asking" /\ cache.got[m] = Unread
    /\ m = "info" => Fields \subseteq subs
    /\ \E v \in Values(m) : cache' = [cache EXCEPT !.got[m] = [at |-> elapsed, value |-> v]]
    /\ UNCHANGED <<subs, module, asked, answer, failedAt, elapsed>>

Waiting == {s \in Scrapers : asked[s] # -1}

\* The first error ends the request for all that wait, and nothing of it is kept.
\* Mutant: what was read is.
StillRead == [cache EXCEPT !.phase = "none"]
Forgotten == NoEntry

Fails(m, broken) ==
    /\ cache.phase = "asking" /\ cache.got[m] = Unread
    /\ broken \/ (m = "info" /\ ~(Fields \subseteq subs))
    /\ cache' = Forgotten
    /\ answer' = IF Waiting = {} THEN answer ELSE Error(Waiting)
    /\ asked' = [s \in Scrapers |-> -1]
    /\ failedAt' = IF broken THEN elapsed ELSE failedAt
    /\ UNCHANGED <<subs, module, elapsed>>

Answered ==
    /\ cache.phase = "asking" /\ \A m \in Managers : cache.got[m] # Unread
    /\ LET entry == [cache EXCEPT !.phase = "kept", !.until = elapsed + Ttl] IN
          /\ cache' = entry
          /\ answer' = IF Waiting = {} THEN answer ELSE Ok(Waiting, entry)
    /\ asked' = [s \in Scrapers |-> -1]
    /\ UNCHANGED <<subs, module, failedAt, elapsed>>

\* A scraper that gave up leaves the request to the others.
GivesUp(s) ==
    /\ asked[s] # -1
    /\ asked' = [asked EXCEPT ![s] = -1]
    /\ UNCHANGED <<subs, module, cache, answer, failedAt, elapsed>>

Expired ==
    /\ cache.phase = "kept" /\ elapsed >= cache.until
    /\ cache' = Forgotten
    /\ UNCHANGED <<subs, module, asked, answer, failedAt, elapsed>>

SecondPasses ==
    /\ elapsed < MaxTime
    /\ ~(cache.phase = "kept" /\ elapsed >= cache.until)
    /\ elapsed' = elapsed + 1
    /\ UNCHANGED <<subs, module, cache, asked, answer, failedAt>>

ExportInit ==
    /\ module = "copy" /\ subs = {"health", "hw"}
    /\ cache = NoEntry /\ asked = [s \in Scrapers |-> -1]
    /\ answer = Unanswered
    /\ failedAt = -1 /\ elapsed = 0

ExportNext ==
    \/ \E pyc \in {"verified", "other", "missing"} : Boots(pyc)
    \/ \E s \in Scrapers : Scrape(s) \/ GivesUp(s)
    \/ \E m \in Managers : ManagerAnswers(m) \/ (\E broken \in BOOLEAN : Fails(m, broken))
    \/ Answered \/ Expired \/ SecondPasses

ExportSpec == ExportInit /\ [][ExportNext]_evars

-----------------------------------------------------------------------------
(* Properties.                                                             *)

ExportTypeOK ==
    /\ module \in {"copy", "vendor", "none"} /\ subs \subseteq {"health", "fan", "hw"}
    /\ cache.phase \in {"none", "asking", "kept"} /\ (Waiting # {} => cache.phase = "asking")
    /\ (\A s \in Scrapers : asked[s] \in -1 .. elapsed) /\ answer.status \in {0, 200, 500}

\* "Asks only for registered submanagers": a scrape is answered 500 only where a manager
\* failed since it asked, and never for a source this firmware does not have or for an
\* error of an earlier request.
FailsOnlyWithAManager ==
    [][answer' # answer /\ answer'.status = 500 => failedAt' = elapsed /\ \A s \in answer'.to : asked[s] # -1]_evars

\* Every answer holds the states of all three managers, none read before the request that
\* made it and none older than Ttl after that request ended.
AnswersAreWholeAndRecent ==
    answer.status = 200 =>
        LET e == answer.entry IN
        /\ \A m \in Managers : e.got[m].at \in e.began .. e.until - Ttl
        /\ answer.sent <= e.until

\* A metric has one value: no two rows of an answer have one name, no hidden channel is in
\* it, and a channel's row says that channel's state.
RowsAreTheState ==
    answer.status = 200 =>
        LET got == answer.entry.got
            gpio == got["gpio"].value
            rows == Rows(got)
        IN /\ \A r, q \in rows : r.name = q.name => r = q
           /\ {r \in rows : Head(r.name) = "gpio" /\ r.name[3] = "state"} =
                {[name |-> <<"gpio", c[1], "state", c[2]>>, value |-> gpio[c]] :
                    c \in {d \in DOMAIN gpio : d[2] \notin Hidden}}

\* Every scrape is answered from one whole and recent state of the appliance.
ExportSafe == ExportTypeOK /\ AnswersAreWholeAndRecent /\ RowsAreTheState
=============================================================================
