----------------------------- MODULE EksDeposits ----------------------------
(***************************************************************************)
(* The deposits of the treasury account (source M5): the auctions of the   *)
(* recent days from XML files linked on a page, each kept in a cache with  *)
(* a manifest, those before from an archive asked in chunks of days, all   *)
(* summed by day and published as one CSV.                                 *)
(*                                                                         *)
(* The page and the archive belong to roskazna.gov.ru. The page shows the  *)
(* links since some oldest day; the day of a link is that of its label.    *)
(* For each auction the module keeps how many records of it were added up  *)
(* and the days they were filed on.                                        *)
(***************************************************************************)
EXTENDS Integers, FiniteSets

CONSTANTS
  Url,        \* the XML files of the site, one for each auction
  DayOf,      \* the day of the auction, under which the archive has it
  CopyName,   \* the names of the copies kept of them
  NameOf,     \* the name of the copy of a URL: the last part of its path
  Link,       \* the links the page may show: the day of the label, the URL
  Dated,      \* the files whose record names the day of the auction (aucdate)
  LastDay,    \* bound on the days
  ChunkDays,  \* OPERATION_DAY_CHUNK_DAYS
  NoCopy,     \* no copy of a file
  NoCsv,      \* nothing has been published
  NoRun,      \* the parser is not running
  TornFile    \* a manifest that was not written in full

Day == 1..LastDay

ASSUME EksAssumption ==
  /\ DayOf \in [Url -> Day] /\ NameOf \in [Url -> CopyName]
  /\ Link \subseteq Day \X Url /\ Dated \subseteq Url
  /\ LastDay \in Nat \ {0} /\ ChunkDays \in Nat \ {0}

\* The file a link is kept in.
CopyOf(l) == NameOf[l[2]]

VARIABLES
  today, oldest,  \* the days the page spans
  cache,          \* source_files: for a name no copy, or whose content it is and if it is torn
  manifest,       \* manifest.json: the links it lists, one for each URL
  published,      \* what is published, and of which run
  phase,          \* where the run is
  run             \* what it has in memory

site == <<today, oldest>>
eksVars == <<site, cache, manifest, published, phase, run>>

\* links and todo: the links of the run and those to process; current, got, torn: the one in
\* process, the auction its copy holds, whether the copy is torn; entries: the manifest;
\* times, filed: the records of an auction and the days they are filed on; chunk: the next
\* day to ask the archive for; failed: the links without content; empty: the days of the
\* chunks that came without content; broken: the day the archive failed at (0: none).
Run == [cacheOnly : BOOLEAN, dateTo : 0..LastDay, links : SUBSET Link, todo : SUBSET Link,
        current : SUBSET Link, got : SUBSET Url, torn : BOOLEAN, entries : SUBSET Link,
        times : [Url -> Nat], filed : [Url -> SUBSET Day], chunk : Nat,
        failed : SUBSET Link, empty : SUBSET Day, broken : 0..LastDay]

EksTypeOK ==
  /\ today \in 0..LastDay /\ oldest \in Day
  /\ cache \in [CopyName -> [holds : Url, torn : BOOLEAN] \union {NoCopy}]
  /\ manifest = TornFile \/ manifest \subseteq Link
  /\ published = NoCsv \/ published \in Run
  /\ phase \in {"idle", "links", "filling", "listing", "manifest", "archive"}
  /\ IF phase = "idle" THEN run = NoRun ELSE run \in Run

EksInit ==
  /\ today = 0 /\ oldest = 1
  /\ cache = [f \in CopyName |-> NoCopy] /\ manifest = {} /\ published = NoCsv
  /\ phase = "idle" /\ run = NoRun

NextDay ==
  /\ today < LastDay
  /\ today' = today + 1
  /\ UNCHANGED <<oldest, cache, manifest, published, phase, run>>

PageDropsADay ==
  /\ oldest < today
  /\ oldest' = oldest + 1
  /\ UNCHANGED <<today, cache, manifest, published, phase, run>>

\* The run ends, by itself, by an exception or with its process.
EndRun == phase' = "idle" /\ run' = NoRun

(***************************************************************************)
(* fetch: a manifest that does not parse, or a page that does not answer,  *)
(* ends the run before it has begun.                                       *)
(***************************************************************************)
\* discover_xml_links: each pair of a label's day and a URL once, so that a URL under two
\* labels is there twice. An auction that has not been held has no file yet.
PageLinks == {l \in Link : l[1] \in oldest..today /\ DayOf[l[2]] <= today}
ManifestLinks == {l \in manifest : l[1] <= today}

StartRun(cacheOnly) ==
  /\ phase = "idle"
  /\ manifest # TornFile
  /\ phase' = "links"
  /\ LET links == IF cacheOnly THEN ManifestLinks ELSE PageLinks
     IN run' = [cacheOnly |-> cacheOnly, dateTo |-> today, links |-> links, todo |-> links,
                current |-> {}, got |-> {}, torn |-> FALSE, entries |-> manifest,
                times |-> [u \in Url |-> 0], filed |-> [u \in Url |-> {}], chunk |-> 1,
                failed |-> {}, empty |-> {}, broken |-> 0]
  /\ UNCHANGED <<site, cache, manifest, published>>

Take(l, got, torn) ==
  run' = [run EXCEPT !.todo = @ \ {l}, !.current = {l}, !.got = got, !.torn = torn]

\* _download_or_load_cached: a copy of that name is the answer, in whatever state and of
\* whichever URL; without one there is a download, unless only the cache is asked; what
\* fails is skipped.
TakeLink(l) ==
  /\ phase = "links" /\ l \in run.todo
  /\ \/ /\ cache[CopyOf(l)] # NoCopy
        /\ Take(l, {cache[CopyOf(l)].holds}, cache[CopyOf(l)].torn)
        /\ phase' = "listing"
        /\ UNCHANGED cache
     \/ /\ cache[CopyOf(l)] = NoCopy
        /\ run' = [run EXCEPT !.todo = @ \ {l}, !.current = {l}, !.failed = @ \union {l}]
        /\ phase' = "listing"
        /\ UNCHANGED cache
     \/ /\ cache[CopyOf(l)] = NoCopy /\ ~run.cacheOnly
        /\ Take(l, {l[2]}, FALSE)
        /\ phase' = "filling"
        /\ cache' = [cache EXCEPT ![CopyOf(l)] = [holds |-> l[2], torn |-> TRUE]]
  /\ UNCHANGED <<site, manifest, published>>

FillSource ==
  /\ phase = "filling"
  /\ \E l \in run.current :
       cache' = [cache EXCEPT ![CopyOf(l)] = [holds |-> l[2], torn |-> FALSE]]
  /\ phase' = "listing"
  /\ UNCHANGED <<site, manifest, published, run>>

\* _write_manifest truncates the file, then fills it. A URL has one entry, under the label
\* that came last.
OpenManifest ==
  /\ phase = "listing"
  /\ manifest' = TornFile
  /\ run' = [run EXCEPT !.entries =
               {e \in @ : \A l \in run.current : e[2] # l[2]} \union run.current]
  /\ phase' = "manifest"
  /\ UNCHANGED <<site, cache, published>>

\* parse_xml: the day of a record is the one it names, or else that of the label.
RecordDay(u, label) == IF u \in Dated THEN DayOf[u] ELSE label

\* A file that does not parse ends the run.
FillManifest ==
  /\ phase = "manifest"
  /\ manifest' = run.entries
  /\ \/ run.torn /\ EndRun
     \/ /\ ~run.torn
        /\ run' = [run EXCEPT
             !.times = [u \in Url |-> IF u \in run.got THEN @[u] + 1 ELSE @[u]],
             !.filed = [u \in Url |-> IF u \in run.got
                          THEN @[u] \union {RecordDay(u, l[1]) : l \in run.current}
                          ELSE @[u]],
             !.current = {}, !.got = {}]
        /\ phase' = "links"
  /\ UNCHANGED <<site, cache, published>>

(***************************************************************************)
(* _fetch_operation_day_archive: the days before the first label.          *)
(***************************************************************************)
FirstLinked == CHOOSE d \in {l[1] : l \in run.links} : \A l \in run.links : d <= l[1]
\* Slip: ArchiveTo that asks for the first linked day, too.
UpToFirstLinked == IF run.links = {} THEN run.dateTo ELSE FirstLinked
ArchiveTo == IF run.links = {} THEN run.dateTo ELSE FirstLinked - 1

StartArchive ==
  /\ phase = "links" /\ run.todo = {}
  /\ phase' = "archive"
  /\ UNCHANGED <<site, cache, manifest, published, run>>

ChunkEnd == IF run.chunk + ChunkDays - 1 <= ArchiveTo THEN run.chunk + ChunkDays - 1 ELSE ArchiveTo
MoreChunks == ~run.cacheOnly /\ run.broken = 0 /\ run.chunk <= ArchiveTo

\* Slip: NextChunk that takes the end of a chunk for a day outside it.
SkipADay == ChunkEnd + 2
NextChunk == ChunkEnd + 1

\* An export with content has every auction of the days asked for, on its own day.
Asked(u) == DayOf[u] \in run.chunk..ChunkEnd
FetchChunk ==
  /\ phase = "archive" /\ MoreChunks
  /\ run' = [run EXCEPT
       !.times = [u \in Url |-> IF Asked(u) THEN @[u] + 1 ELSE @[u]],
       !.filed = [u \in Url |-> IF Asked(u) THEN @[u] \union {DayOf[u]} ELSE @[u]],
       !.chunk = NextChunk]
  /\ UNCHANGED <<site, cache, manifest, published, phase>>

\* An export without content is an empty document, and one without records of the days
\* asked for is only warned about: the chunk succeeds with no records.
FetchEmptyChunk ==
  /\ phase = "archive" /\ MoreChunks
  /\ run' = [run EXCEPT !.empty = @ \union (run.chunk..ChunkEnd), !.chunk = NextChunk]
  /\ UNCHANGED <<site, cache, manifest, published, phase>>

\* A chunk that fails ends the archive, not the run.
ChunkFails ==
  /\ phase = "archive" /\ MoreChunks
  /\ run' = [run EXCEPT !.broken = run.chunk]
  /\ UNCHANGED <<site, cache, manifest, published, phase>>

\* write_csv_atomic: the file is replaced as a whole.
Publish ==
  /\ phase = "archive" /\ ~MoreChunks
  /\ published' = run
  /\ EndRun
  /\ UNCHANGED <<site, cache, manifest>>

Killed ==
  /\ phase # "idle"
  /\ EndRun
  /\ UNCHANGED <<site, cache, manifest, published>>

EksNext ==
  \/ NextDay
  \/ PageDropsADay
  \/ \E cacheOnly \in BOOLEAN : StartRun(cacheOnly)
  \/ \E l \in Link : TakeLink(l)
  \/ FillSource
  \/ OpenManifest
  \/ FillManifest
  \/ StartArchive
  \/ FetchChunk
  \/ FetchEmptyChunk
  \/ ChunkFails
  \/ Publish
  \/ Killed

(***************************************************************************)
(* Properties.                                                             *)
(***************************************************************************)
\* The links of a run whose copy has the name of u's.
CopiesOf(u, links) == {l \in links : CopyOf(l) = NameOf[u]}

\* Which auctions a published file may count more than once: one whose file two links of the
\* run name, be it one URL under two labels or two URLs of one file name; or one that a link
\* names and the archive has, too, since every label of the run is later than the auction.
\* With a page that labels each file with the day of its auction, and names that differ,
\* there is none, whatever the cache, the archive and a crash left (archive_date_to,
\* chunk_start).
CountedOnce ==
  published # NoCsv =>
    \A u \in Url : published.times[u] > 1 =>
      \/ \E k, l \in CopiesOf(u, published.links) : k # l
      \/ /\ ~published.cacheOnly /\ CopiesOf(u, published.links) # {}
         /\ \A l \in published.links : DayOf[u] < l[1]

\* An auction is missing on its day in a published file only for a reason of that run: its
\* link got no content, or that of another URL of the same file name; the archive broke at
\* the day or before it, or answered for it without content; or the page reaches back to the
\* day, but has no link of that day for the auction.
HolesAreExplained ==
  published # NoCsv /\ ~published.cacheOnly =>
    \A u \in Url :
      DayOf[u] <= published.dateTo /\ DayOf[u] \notin published.filed[u] =>
        \/ <<DayOf[u], u>> \in published.failed
        \/ <<DayOf[u], u>> \in published.links /\ \E v \in Url \ {u} : NameOf[v] = NameOf[u]
        \/ published.broken \in 1..DayOf[u]
        \/ DayOf[u] \in published.empty
        \/ <<DayOf[u], u>> \notin Link /\ \E l \in published.links : l[1] <= DayOf[u]
=============================================================================
