----------------------------- MODULE PartsProofs -----------------------------
(***************************************************************************)
(* Theorems about the parts of the data plane other than its tables:       *)
(* RawFiles for any number of days and jobs and any window, EksDeposits    *)
(* for any files, file names, labels, days and chunks, LsiFormula for      *)
(* every set of scores and seasons and every model, ModelArtifacts for any *)
(* number of files and versions, Backtest for every set of requests and    *)
(* every bound.                                                            *)
(***************************************************************************)
EXTENDS RawFiles, EksDeposits, LsiFormula, ModelArtifacts, Backtest,
        FiniteSetTheorems, WellFoundedInduction, TLAPS

(***************************************************************************)
(* Least and greatest elements.                                            *)
(***************************************************************************)
\* A set of naturals has a least element.
LEMMA LeastOf ==
  ASSUME NEW S \in SUBSET Nat, S # {}
  PROVE  \E m \in S : \A k \in S : m <= k
<1> DEFINE T == {0..x : x \in S}
<1>1. T \subseteq FiniteSubsetsOf(Nat)
  <2> SUFFICES ASSUME NEW x \in S
               PROVE  0..x \in FiniteSubsetsOf(Nat)
    OBVIOUS
  <2>1. x \in Int /\ 0..x \subseteq Nat
    OBVIOUS
  <2> QED
    BY <2>1, FS_Interval DEF FiniteSubsetsOf
<1>2. T # {}
  OBVIOUS
<1>3. IsWellFoundedOn(StrictSubsetOrdering(Nat), FiniteSubsetsOf(Nat))
  BY FS_StrictSubsetOrderingWellFounded
<1> HIDE DEF T
<1>4. PICK t \in T : \A u \in T : ~(<<u, t>> \in StrictSubsetOrdering(Nat))
  BY <1>1, <1>2, <1>3, WFMin
<1> USE DEF T
<1>5. PICK m \in S : t = 0..m
  OBVIOUS
<1>6. ASSUME NEW k \in S, k < m
      PROVE  FALSE
  <2>1. m \in Nat /\ k \in Nat
    OBVIOUS
  <2>2. 0..k \subseteq 0..m /\ m \in 0..m /\ m \notin 0..k /\ 0..m \subseteq Nat
    BY <1>6, <2>1
  <2>3. <<0..k, 0..m>> \in StrictSubsetOrdering(Nat)
    BY <2>2 DEF StrictSubsetOrdering
  <2> QED
    BY <1>4, <1>5, <2>3
<1> QED
  BY <1>6

\* A set of integers with a bound has a greatest element.
LEMMA BoundedMax ==
  ASSUME NEW S \in SUBSET Int, S # {}, NEW bound \in Int, \A x \in S : x <= bound
  PROVE  /\ Max(S) \in S /\ \A y \in S : y <= Max(S)
         /\ \A m \in S : (\A y \in S : y <= m) => m = Max(S)
<1> DEFINE T == {bound - x : x \in S}
<1>1. \A x \in S : bound - x \in Nat
  OBVIOUS
<1>2. PICK n \in T : \A m \in T : n <= m
  <2>1. T \in SUBSET Nat /\ T # {}
    BY <1>1
  <2> QED
    BY <2>1, LeastOf
<1>3. PICK x \in S : n = bound - x
  BY <1>2
<1>4. \A y \in S : x >= y
  BY <1>2, <1>3
<1>5. Max(S) \in S /\ \A y \in S : Max(S) >= y
  BY <1>4 DEF Max
<1>6. ASSUME NEW m \in S, \A y \in S : y <= m
      PROVE  m = Max(S)
  <2>1. Max(S) <= m /\ m <= Max(S) /\ m \in Int /\ Max(S) \in Int
    BY <1>5, <1>6
  <2> QED
    BY <2>1
<1>7. \A y \in S : y <= Max(S)
  BY <1>5
<1> QED
  BY <1>5, <1>6, <1>7

-----------------------------------------------------------------------------
(***************************************************************************)
(* The deposits of the treasury.                                           *)
(***************************************************************************)
EksSpec == EksInit /\ [][EksNext]_eksVars

\* A copy holds what was downloaded under its name.
CopiesNamed ==
  \A f \in CopyName : cache[f] # NoCopy => cache[f].holds \in Url /\ NameOf[cache[f].holds] = f

\* The links whose content has been added up, and those of them whose copy has u's name.
Done == run.links \ (run.todo \union run.failed \union run.current)
ReadFor(u) == {l \in Done : CopyOf(l) = NameOf[u]}

\* No other URL has the file name of u.
OwnName(u) == \A v \in Url : NameOf[v] = NameOf[u] => v = u

\* Where each link of the run is; what is read is of the name of the link in process.
LinksInOrder ==
  /\ run.todo \subseteq run.links /\ run.current \subseteq run.links
  /\ run.todo \intersect (run.failed \union run.current) = {}
  /\ \A l \in run.current : l \in run.failed \/ run.got # {}
  /\ \A u \in run.got : \E l \in run.current : CopyOf(l) = NameOf[u]
  /\ \A l \in run.current, u \in run.got : OwnName(l[2]) => u = l[2]
  /\ run.got # {} => run.current \intersect run.failed = {}
  /\ phase \in {"links", "archive"} => run.current = {} /\ run.got = {}
  /\ phase = "archive" => run.todo = {}

\* The archive comes after the links, and its days before their labels.
ArchiveInOrder ==
  /\ run.chunk >= 1
  /\ phase # "archive" \/ run.cacheOnly => run.chunk = 1
  /\ phase # "archive" => run.broken = 0
  /\ run.broken # 0 => run.broken = run.chunk
  /\ \A l \in run.links : run.chunk <= l[1]

\* The records of an auction come from the links of its copy's name and from the archive.
Archived(u) == DayOf[u] < run.chunk
TimesOf(u) ==
  /\ run.times[u] >= 1 => ReadFor(u) # {} \/ Archived(u)
  /\ run.times[u] > 1 => \/ \E k, l \in ReadFor(u) : k # l
                         \/ ReadFor(u) # {} /\ Archived(u)
Counted == \A u \in Url : TimesOf(u)

\* What is read under the label of its day, and what the archive had, is on its day.
FiledOf(u) ==
  /\ OwnName(u) /\ <<DayOf[u], u>> \in Done => DayOf[u] \in run.filed[u]
  /\ Archived(u) => DayOf[u] \in run.filed[u] \union run.empty
Filed == \A u \in Url : FiledOf(u)

\* A run with the page has every link of it from the first one on.
PageIsWhole ==
  ~run.cacheOnly =>
    \A l \in Link, k \in run.links :
      k[1] <= l[1] /\ l[1] <= run.dateTo /\ DayOf[l[2]] <= run.dateTo => l \in run.links

RunInv == phase # "idle" => LinksInOrder /\ ArchiveInOrder /\ Counted /\ Filed /\ PageIsWhole

EksInv == EksTypeOK /\ CopiesNamed /\ RunInv /\ CountedOnce /\ HolesAreExplained

(***************************************************************************)
(* Links and the first of their labels.                                    *)
(***************************************************************************)
LEMMA LinkType ==
  ASSUME NEW l \in Link
  PROVE  /\ l[1] \in Day /\ l[1] \in Nat /\ l[2] \in Url /\ CopyOf(l) \in CopyName
         /\ l = <<l[1], l[2]>>
<1>1. l \in Day \X Url
  BY EksAssumption
<1>2. l[1] \in Day /\ l[2] \in Url /\ l = <<l[1], l[2]>>
  BY <1>1
<1> QED
  BY <1>2, EksAssumption DEF Day, CopyOf

LEMMA FirstLinkedIsFirst ==
  ASSUME run.links \in SUBSET Link, run.links # {}
  PROVE  /\ FirstLinked \in Day
         /\ \E v \in run.links : v[1] = FirstLinked
         /\ \A l \in run.links : FirstLinked <= l[1]
<1> DEFINE S == {l[1] : l \in run.links}
<1>1. S \in SUBSET Nat /\ S \subseteq Day /\ S # {}
  BY LinkType
<1>2. \E m \in S : \A k \in S : m <= k
  BY <1>1, LeastOf
<1>3. \E m \in S : \A l \in run.links : m <= l[1]
  BY <1>2
<1>4. FirstLinked \in S /\ \A l \in run.links : FirstLinked <= l[1]
  BY <1>3 DEF FirstLinked
<1> QED
  BY <1>1, <1>4

(***************************************************************************)
(* The steps. What a step leaves alone is shown once.                      *)
(***************************************************************************)
LEMMA EksInitInv == EksInit => EksInv
  BY EksAssumption
  DEF EksInit, EksInv, EksTypeOK, CopiesNamed, RunInv, CountedOnce, HolesAreExplained, Day

LEMMA PublishedStands ==
  ASSUME CountedOnce, HolesAreExplained, published' = published
  PROVE  CountedOnce' /\ HolesAreExplained'
  BY DEF CountedOnce, HolesAreExplained

\* The run as it is.
LEMMA RunStands ==
  ASSUME RunInv, run' = run, phase' = phase
  PROVE  RunInv'
  BY DEF RunInv, LinksInOrder, ArchiveInOrder, Counted, TimesOf, Filed, FiledOf, Archived,
         ReadFor, PageIsWhole, Done

LEMMA IdleInv ==
  ASSUME EksInv, EndRun, published' = published,
         today' = today, oldest' = oldest, cache' = cache,
         manifest' = TornFile \/ manifest' \subseteq Link
  PROVE  EksInv'
<1>1. RunInv'
  BY DEF EndRun, RunInv
<1>2. EksTypeOK' /\ CopiesNamed'
  BY DEF EksInv, EksTypeOK, CopiesNamed, EndRun
<1> QED
  BY <1>1, <1>2, PublishedStands DEF EksInv

LEMMA SiteInv ==
  ASSUME EksInv, NextDay \/ PageDropsADay
  PROVE  EksInv'
<1>1. EksTypeOK' /\ CopiesNamed'
  BY EksAssumption DEF EksInv, EksTypeOK, CopiesNamed, NextDay, PageDropsADay, Day
<1> QED
  BY <1>1, RunStands, PublishedStands DEF EksInv, NextDay, PageDropsADay

LEMMA StartRunInv ==
  ASSUME EksInv, NEW cacheOnly \in BOOLEAN, StartRun(cacheOnly)
  PROVE  EksInv'
<1> DEFINE Links == IF cacheOnly THEN ManifestLinks ELSE PageLinks
<1>1. /\ run' = [cacheOnly |-> cacheOnly, dateTo |-> today, links |-> Links, todo |-> Links,
                 current |-> {}, got |-> {}, torn |-> FALSE, entries |-> manifest,
                 times |-> [u \in Url |-> 0], filed |-> [u \in Url |-> {}], chunk |-> 1,
                 failed |-> {}, empty |-> {}, broken |-> 0]
      /\ phase' = "links" /\ manifest # TornFile
      /\ published' = published /\ today' = today /\ oldest' = oldest
      /\ cache' = cache /\ manifest' = manifest
  BY DEF StartRun, site
<1>2. Links \subseteq Link /\ manifest \subseteq Link
  BY <1>1 DEF EksInv, EksTypeOK, PageLinks, ManifestLinks
<1>3. ~cacheOnly => Links = PageLinks
  OBVIOUS
<1> HIDE DEF Links
<1>4. run' \in Run
  BY <1>1, <1>2, EksAssumption DEF Run, EksInv, EksTypeOK
<1>5. EksTypeOK' /\ CopiesNamed'
  BY <1>1, <1>4 DEF EksInv, EksTypeOK, CopiesNamed
<1>6. LinksInOrder'
  BY <1>1 DEF LinksInOrder
<1>7. ArchiveInOrder'
  BY <1>1, <1>2, LinkType DEF ArchiveInOrder, Day
<1>8. Counted' /\ Filed'
  <2>1. Done' = {}
    BY <1>1 DEF Done
  <2>2. \A u \in Url : ~(Archived(u)') /\ run'.times[u] = 0
    BY <1>1, EksAssumption DEF Archived, Day
  <2> QED
    BY <2>1, <2>2 DEF Counted, TimesOf, Filed, FiledOf
<1>9. PageIsWhole'
  <2> SUFFICES ASSUME ~cacheOnly, NEW l \in Link, NEW k \in Links,
                      k[1] <= l[1], l[1] <= today, DayOf[l[2]] <= today
               PROVE  l \in Links
    BY <1>1 DEF PageIsWhole
  <2>1. oldest <= k[1]
    BY <1>3 DEF PageLinks
  <2>2. oldest \in Nat /\ today \in Nat /\ k[1] \in Nat /\ l[1] \in Nat
    BY <1>2, LinkType DEF EksInv, EksTypeOK, Day
  <2>3. l[1] \in oldest..today
    BY <2>1, <2>2
  <2> QED
    BY <1>3, <2>3 DEF PageLinks
<1> QED
  BY <1>1, <1>5, <1>6, <1>7, <1>8, <1>9, PublishedStands DEF EksInv, RunInv

\* A step within the links: what has been counted and where the archive is stay.
LEMMA LinksStep ==
  ASSUME EksInv, phase # "idle", run' \in Run, phase' \notin {"idle", "archive"},
         phase # "archive",
         run'.links = run.links, run'.times = run.times, run'.filed = run.filed,
         run'.chunk = run.chunk, run'.broken = run.broken, run'.empty = run.empty,
         run'.cacheOnly = run.cacheOnly, run'.dateTo = run.dateTo,
         Done' = Done, LinksInOrder', published' = published
  PROVE  RunInv' /\ CountedOnce' /\ HolesAreExplained'
<1>1. ArchiveInOrder'
  BY DEF EksInv, RunInv, ArchiveInOrder
<1>2. Counted' /\ Filed'
  BY DEF EksInv, RunInv, Counted, TimesOf, ReadFor, Archived, Filed, FiledOf
<1>3. PageIsWhole'
  BY DEF EksInv, RunInv, PageIsWhole
<1> QED
  BY <1>1, <1>2, <1>3, PublishedStands DEF EksInv, RunInv

\* l is in process, with what was read for it.
Taken(l, got, torn, failed) ==
  run' = [run EXCEPT !.todo = @ \ {l}, !.current = {l}, !.got = got, !.torn = torn,
                     !.failed = failed]

LEMMA TakeLinkInv ==
  ASSUME EksInv, NEW l \in Link, TakeLink(l)
  PROVE  EksInv'
<1>1. /\ phase = "links" /\ l \in run.todo /\ run \in Run
      /\ published' = published /\ today' = today /\ oldest' = oldest /\ manifest' = manifest
  BY DEF TakeLink, site, EksInv, EksTypeOK
<1>2. LinksInOrder /\ CopiesNamed /\ l[2] \in Url /\ CopyOf(l) \in CopyName
  BY <1>1, LinkType DEF EksInv, RunInv
<1>3. ASSUME NEW got \in SUBSET Url, NEW torn \in BOOLEAN, NEW failed \in SUBSET Link,
             Taken(l, got, torn, failed),
             \/ failed = run.failed /\ got # {}
             \/ failed = run.failed \union {l} /\ got = {},
             \A u \in got : CopyOf(l) = NameOf[u],
             phase' \in {"listing", "filling"}
      PROVE  run' \in Run /\ RunInv' /\ CountedOnce' /\ HolesAreExplained'
  <2>1. /\ run' \in Run
        /\ run'.todo = run.todo \ {l} /\ run'.current = {l} /\ run'.got = got
        /\ run'.failed = failed /\ run'.links = run.links /\ run'.times = run.times
        /\ run'.filed = run.filed /\ run'.empty = run.empty
        /\ run'.chunk = run.chunk /\ run'.broken = run.broken
        /\ run'.cacheOnly = run.cacheOnly /\ run'.dateTo = run.dateTo
    BY <1>1, <1>3 DEF Run, Taken
  <2>2. \A u \in got : OwnName(l[2]) => u = l[2]
    BY <1>3 DEF CopyOf, OwnName
  <2>3. LinksInOrder'
    BY <1>1, <1>2, <1>3, <2>1, <2>2 DEF LinksInOrder
  <2>4. Done' = Done
    BY <1>1, <1>2, <1>3, <2>1 DEF Done, LinksInOrder
  <2> QED
    BY <1>1, <1>3, <2>1, <2>3, <2>4, LinksStep
<1>4. CASE /\ cache[CopyOf(l)] # NoCopy /\ cache' = cache /\ phase' = "listing"
           /\ Take(l, {cache[CopyOf(l)].holds}, cache[CopyOf(l)].torn)
  <2> DEFINE copy == cache[CopyOf(l)]
  <2>1. copy.holds \in Url /\ copy.torn \in BOOLEAN /\ NameOf[copy.holds] = CopyOf(l)
    BY <1>2, <1>4 DEF CopiesNamed, EksInv, EksTypeOK
  <2> HIDE DEF copy
  <2>2. Taken(l, {copy.holds}, copy.torn, run.failed)
    BY <1>1, <1>4 DEF Take, Taken, Run, copy
  <2>3. run.failed \in SUBSET Link
    BY <1>1 DEF Run
  <2>4. run' \in Run /\ RunInv' /\ CountedOnce' /\ HolesAreExplained'
    BY <1>3, <1>4, <2>1, <2>2, <2>3
  <2> QED
    BY <1>1, <1>2, <1>4, <2>4 DEF EksInv, EksTypeOK, CopiesNamed
<1>5. CASE /\ cache[CopyOf(l)] = NoCopy /\ cache' = cache /\ phase' = "listing"
           /\ run' = [run EXCEPT !.todo = @ \ {l}, !.current = {l}, !.failed = @ \union {l}]
  <2>1. run.failed \union {l} \in SUBSET Link /\ run.got = {} /\ run.torn \in BOOLEAN
    BY <1>1, <1>2 DEF Run, LinksInOrder
  <2>2. Taken(l, {}, run.torn, run.failed \union {l})
    BY <1>1, <1>5, <2>1 DEF Taken, Run
  <2>3. run' \in Run /\ RunInv' /\ CountedOnce' /\ HolesAreExplained'
    BY <1>3, <1>5, <2>1, <2>2
  <2> QED
    BY <1>1, <1>2, <1>5, <2>3 DEF EksInv, EksTypeOK, CopiesNamed
<1>6. CASE /\ Take(l, {l[2]}, FALSE) /\ phase' = "filling"
           /\ cache' = [cache EXCEPT ![CopyOf(l)] = [holds |-> l[2], torn |-> TRUE]]
  <2>1. Taken(l, {l[2]}, FALSE, run.failed)
    BY <1>1, <1>6 DEF Take, Taken, Run
  <2>2. run.failed \in SUBSET Link
    BY <1>1 DEF Run
  <2>3. {l[2]} \in SUBSET Url /\ {l[2]} # {} /\ \A u \in {l[2]} : CopyOf(l) = NameOf[u]
    BY <1>2 DEF CopyOf
  <2>4. run' \in Run /\ RunInv' /\ CountedOnce' /\ HolesAreExplained'
    BY <1>3, <1>6, <2>1, <2>2, <2>3
  <2>5. cache' \in [CopyName -> [holds : Url, torn : BOOLEAN] \union {NoCopy}] /\ CopiesNamed'
    BY <1>2, <1>6 DEF EksInv, EksTypeOK, CopiesNamed, CopyOf
  <2> QED
    BY <1>1, <1>6, <2>4, <2>5 DEF EksInv, EksTypeOK
<1> QED
  BY <1>4, <1>5, <1>6 DEF TakeLink

LEMMA FillSourceInv ==
  ASSUME EksInv, FillSource
  PROVE  EksInv'
<1>1. /\ phase = "filling" /\ phase' = "listing" /\ run' = run /\ run \in Run
      /\ published' = published /\ today' = today /\ oldest' = oldest /\ manifest' = manifest
  BY DEF FillSource, site, EksInv, EksTypeOK
<1>2. PICK l \in run.current :
        cache' = [cache EXCEPT ![CopyOf(l)] = [holds |-> l[2], torn |-> FALSE]]
  BY DEF FillSource
<1>3. l[2] \in Url /\ CopyOf(l) \in CopyName
  BY <1>1, LinkType DEF Run
<1>4. cache' \in [CopyName -> [holds : Url, torn : BOOLEAN] \union {NoCopy}] /\ CopiesNamed'
  BY <1>2, <1>3 DEF EksInv, EksTypeOK, CopiesNamed, CopyOf
<1>5. LinksInOrder' /\ Done' = Done
  BY <1>1 DEF EksInv, RunInv, LinksInOrder, Done
<1> QED
  BY <1>1, <1>4, <1>5, LinksStep DEF EksInv, EksTypeOK

LEMMA OpenManifestInv ==
  ASSUME EksInv, OpenManifest
  PROVE  EksInv'
<1> DEFINE entries == {e \in run.entries : \A l \in run.current : e[2] # l[2]} \union run.current
<1>1. /\ phase = "listing" /\ phase' = "manifest" /\ run \in Run
      /\ run' = [run EXCEPT !.entries = entries]
      /\ manifest' = TornFile /\ published' = published
      /\ today' = today /\ oldest' = oldest /\ cache' = cache
  BY DEF OpenManifest, site, EksInv, EksTypeOK, Run
<1>2. entries \subseteq Link
  BY <1>1 DEF Run
<1> HIDE DEF entries
<1>3. /\ run' \in Run
      /\ run'.todo = run.todo /\ run'.current = run.current /\ run'.got = run.got
      /\ run'.failed = run.failed /\ run'.links = run.links /\ run'.times = run.times
      /\ run'.filed = run.filed /\ run'.empty = run.empty
      /\ run'.chunk = run.chunk /\ run'.broken = run.broken
      /\ run'.cacheOnly = run.cacheOnly /\ run'.dateTo = run.dateTo
  BY <1>1, <1>2 DEF Run
<1>4. LinksInOrder' /\ Done' = Done
  BY <1>1, <1>3 DEF EksInv, RunInv, LinksInOrder, Done
<1>5. RunInv' /\ CountedOnce' /\ HolesAreExplained'
  BY <1>1, <1>3, <1>4, LinksStep
<1> QED
  BY <1>1, <1>3, <1>5 DEF EksInv, EksTypeOK, CopiesNamed

LEMMA FillManifestInv ==
  ASSUME EksInv, FillManifest
  PROVE  EksInv'
<1> DEFINE times == [u \in Url |-> IF u \in run.got THEN run.times[u] + 1 ELSE run.times[u]]
           filed == [u \in Url |-> IF u \in run.got
                       THEN run.filed[u] \union {RecordDay(u, l[1]) : l \in run.current}
                       ELSE run.filed[u]]
<1>1. /\ phase = "manifest" /\ run \in Run
      /\ manifest' = run.entries /\ manifest' \subseteq Link /\ published' = published
      /\ today' = today /\ oldest' = oldest /\ cache' = cache
  BY DEF FillManifest, site, EksInv, EksTypeOK, Run
<1>2. CASE EndRun
  BY <1>1, <1>2, IdleInv
<1>3. CASE /\ phase' = "links"
           /\ run' = [run EXCEPT !.times = times, !.filed = filed, !.current = {}, !.got = {}]
  <2>1. /\ run.links \in SUBSET Link /\ run.current \in SUBSET Link /\ run.got \in SUBSET Url
        /\ run.times \in [Url -> Nat] /\ run.filed \in [Url -> SUBSET Day]
    BY <1>1 DEF Run
  <2>2. LinksInOrder /\ ArchiveInOrder /\ Counted /\ Filed /\ PageIsWhole
    BY <1>1 DEF EksInv, RunInv
  <2>3. \A u \in Url, l \in run.current : RecordDay(u, l[1]) \in Day
    BY <2>1, LinkType, EksAssumption DEF RecordDay
  <2>4. times \in [Url -> Nat] /\ filed \in [Url -> SUBSET Day]
    BY <2>1, <2>3
  <2> HIDE DEF times, filed
  <2>5. /\ run' \in Run
        /\ run'.todo = run.todo /\ run'.current = {} /\ run'.got = {}
        /\ run'.failed = run.failed /\ run'.links = run.links /\ run'.times = times
        /\ run'.filed = filed /\ run'.empty = run.empty
        /\ run'.chunk = run.chunk /\ run'.broken = run.broken
        /\ run'.cacheOnly = run.cacheOnly /\ run'.dateTo = run.dateTo
    BY <1>1, <1>3, <2>4 DEF Run
  <2>6. LinksInOrder'
    BY <1>3, <2>2, <2>5 DEF LinksInOrder
  <2>7. ArchiveInOrder' /\ PageIsWhole'
    BY <1>1, <1>3, <2>2, <2>5 DEF ArchiveInOrder, PageIsWhole
  <2>8. Done' = Done \union (run.current \ run.failed) /\ Done \intersect run.current = {}
    BY <2>2, <2>5 DEF Done, LinksInOrder
  <2>9. \A u \in Url : ~Archived(u) /\ (Archived(u)' <=> Archived(u))
    BY <1>1, <2>2, <2>5, EksAssumption DEF Archived, ArchiveInOrder, Day
  <2>10. Counted'
    <3> SUFFICES ASSUME NEW u \in Url PROVE TimesOf(u)'
      BY DEF Counted
    <3>1. ReadFor(u) \subseteq ReadFor(u)'
      BY <2>8 DEF ReadFor
    <3>2. CASE u \notin run.got
      <4>1. run'.times[u] = run.times[u]
        BY <2>5, <3>2 DEF times
      <4> QED
        BY <2>2, <2>9, <3>1, <4>1 DEF Counted, TimesOf
    <3>3. CASE u \in run.got
      <4>1. run'.times[u] = run.times[u] + 1 /\ run.times[u] \in Nat
        BY <2>1, <2>5, <3>3 DEF times
      <4>2. PICK l \in run.current : CopyOf(l) = NameOf[u]
        BY <2>2, <3>3 DEF LinksInOrder
      <4>3. l \in ReadFor(u)' /\ l \notin ReadFor(u)
        <5>1. l \notin run.failed
          BY <2>2, <3>3, <4>2 DEF LinksInOrder
        <5> QED
          BY <2>8, <4>2, <5>1 DEF ReadFor
      <4>4. run.times[u] >= 1 => ReadFor(u) # {}
        BY <2>2, <2>9 DEF Counted, TimesOf
      <4>5. run.times[u] >= 1 => \E j, k \in ReadFor(u)' : j # k
        BY <3>1, <4>3, <4>4
      <4>6. run'.times[u] > 1 => run.times[u] >= 1
        BY <4>1
      <4> QED
        BY <4>3, <4>5, <4>6 DEF TimesOf
    <3> QED
      BY <3>2, <3>3
  <2>11. Filed'
    <3> SUFFICES ASSUME NEW u \in Url PROVE FiledOf(u)'
      BY DEF Filed
    <3>1. run.filed[u] \subseteq run'.filed[u]
      BY <2>5 DEF filed
    <3>2. ASSUME OwnName(u), <<DayOf[u], u>> \in Done'
          PROVE  DayOf[u] \in run'.filed[u]
      <4>1. CASE <<DayOf[u], u>> \in Done
        BY <2>2, <3>1, <3>2, <4>1 DEF Filed, FiledOf
      <4>2. CASE <<DayOf[u], u>> \in run.current \ run.failed
        <5>1. run.got # {}
          BY <2>2, <4>2 DEF LinksInOrder
        <5>2. PICK v \in run.got : v \in Url
          BY <2>1, <5>1
        <5>3. v = u
          BY <2>2, <3>2, <4>2, <5>2 DEF LinksInOrder, OwnName
        <5>4. RecordDay(u, DayOf[u]) = DayOf[u]
          BY DEF RecordDay
        <5>5. DayOf[u] \in {RecordDay(u, l[1]) : l \in run.current}
          BY <4>2, <5>4
        <5> QED
          BY <2>5, <5>2, <5>3, <5>5 DEF filed
      <4> QED
        BY <2>8, <3>2, <4>1, <4>2
    <3> QED
      BY <2>9, <3>2 DEF FiledOf, OwnName
  <2>12. RunInv'
    BY <2>6, <2>7, <2>10, <2>11 DEF RunInv
  <2>13. EksTypeOK' /\ CopiesNamed'
    BY <1>1, <1>3, <2>5 DEF EksInv, EksTypeOK, CopiesNamed
  <2> QED
    BY <1>1, <2>12, <2>13, PublishedStands DEF EksInv
<1> QED
  BY <1>2, <1>3 DEF FillManifest

(***************************************************************************)
(* The archive.                                                            *)
(***************************************************************************)
LEMMA StartArchiveInv ==
  ASSUME EksInv, StartArchive
  PROVE  EksInv'
<1>1. /\ phase = "links" /\ phase' = "archive" /\ run.todo = {} /\ run' = run
      /\ published' = published /\ EksTypeOK' /\ CopiesNamed'
  BY DEF StartArchive, site, EksInv, EksTypeOK, CopiesNamed
<1>2. RunInv'
  BY <1>1 DEF EksInv, RunInv, LinksInOrder, ArchiveInOrder, Counted, TimesOf, Filed, FiledOf,
              Archived, ReadFor, PageIsWhole, Done
<1> QED
  BY <1>1, <1>2, PublishedStands DEF EksInv

LEMMA ChunkBounds ==
  ASSUME EksInv, phase # "idle", MoreChunks
  PROVE  /\ ArchiveTo \in 0..LastDay /\ ChunkEnd \in run.chunk..ArchiveTo
         /\ \A l \in run.links : ArchiveTo < l[1]
<1>1. /\ run \in Run /\ run.links \in SUBSET Link /\ run.dateTo \in 0..LastDay
      /\ run.chunk \in Nat
  BY DEF EksInv, EksTypeOK, Run
<1>2. /\ ArchiveTo \in 0..LastDay
      /\ \A l \in run.links : ArchiveTo < l[1]
  <2>1. CASE run.links = {}
    BY <1>1, <2>1 DEF ArchiveTo
  <2>2. CASE run.links # {}
    <3>1. FirstLinked \in Day /\ \A l \in run.links : FirstLinked <= l[1]
      BY <1>1, <2>2, FirstLinkedIsFirst
    <3>2. \A l \in run.links : l[1] \in Day
      BY <1>1, LinkType
    <3> QED
      BY <2>2, <3>1, <3>2, EksAssumption DEF ArchiveTo, Day
  <2> QED
    BY <2>1, <2>2
<1>3. ChunkEnd \in run.chunk..ArchiveTo
  BY <1>1, <1>2, EksAssumption DEF ChunkEnd, MoreChunks
<1> QED
  BY <1>2, <1>3

\* A chunk that succeeds: the next one begins after its last day and before every label; the
\* days that come to be archived are those of the chunk.
LEMMA ChunkStep ==
  ASSUME EksInv, phase = "archive", MoreChunks, phase' = phase, run' \in Run,
         run'.todo = run.todo, run'.current = run.current, run'.got = run.got,
         run'.failed = run.failed, run'.links = run.links, run'.chunk = ChunkEnd + 1,
         run'.broken = run.broken, run'.cacheOnly = run.cacheOnly, run'.dateTo = run.dateTo
  PROVE  /\ LinksInOrder' /\ ArchiveInOrder' /\ PageIsWhole' /\ Done' = Done
         /\ \A u \in Url : /\ Archived(u)' <=> Archived(u) \/ Asked(u)
                           /\ ~(Archived(u) /\ Asked(u))
<1>1. /\ run \in Run /\ LinksInOrder /\ ArchiveInOrder /\ PageIsWhole
      /\ run.chunk \in Nat /\ run.chunk >= 1
  BY DEF EksInv, EksTypeOK, RunInv, Run, ArchiveInOrder
<1>2. /\ ArchiveTo \in 0..LastDay /\ ChunkEnd \in run.chunk..ArchiveTo
      /\ \A l \in run.links : ArchiveTo < l[1]
  BY ChunkBounds
<1>3. ChunkEnd \in Nat /\ run.chunk <= ChunkEnd
  BY <1>1, <1>2
<1>4. LinksInOrder' /\ Done' = Done /\ PageIsWhole'
  BY <1>1 DEF LinksInOrder, Done, PageIsWhole
<1>5. ArchiveInOrder'
  <2>1. run.broken = 0 /\ ~run.cacheOnly
    BY DEF MoreChunks
  <2>2. \A l \in run.links : l[1] \in Int
    BY <1>1, LinkType DEF Run
  <2>3. \A l \in run.links : ChunkEnd + 1 <= l[1]
    BY <1>2, <1>3, <2>2
  <2> QED
    BY <1>3, <2>1, <2>3 DEF ArchiveInOrder
<1>6. ASSUME NEW u \in Url
      PROVE  /\ Archived(u)' <=> Archived(u) \/ Asked(u)
             /\ ~(Archived(u) /\ Asked(u))
  <2>1. DayOf[u] \in Nat
    BY EksAssumption DEF Day
  <2>2. Archived(u)' <=> DayOf[u] < ChunkEnd + 1
    BY DEF Archived
  <2> QED
    BY <1>1, <1>3, <2>1, <2>2 DEF Archived, Asked
<1> QED
  BY <1>4, <1>5, <1>6

LEMMA FetchChunkInv ==
  ASSUME EksInv, FetchChunk
  PROVE  EksInv'
<1> DEFINE times == [u \in Url |-> IF Asked(u) THEN run.times[u] + 1 ELSE run.times[u]]
           filed == [u \in Url |-> IF Asked(u) THEN run.filed[u] \union {DayOf[u]}
                                   ELSE run.filed[u]]
<1>1. /\ phase = "archive" /\ phase' = "archive" /\ run \in Run /\ MoreChunks
      /\ published' = published /\ manifest' = manifest
      /\ today' = today /\ oldest' = oldest /\ cache' = cache
  BY DEF FetchChunk, site, EksInv, EksTypeOK
<1>2. /\ run.times \in [Url -> Nat] /\ run.filed \in [Url -> SUBSET Day] /\ run.chunk \in Nat
      /\ Counted /\ Filed
  BY <1>1 DEF Run, EksInv, RunInv
<1>3. run' = [run EXCEPT !.times = times, !.filed = filed, !.chunk = ChunkEnd + 1]
  BY DEF FetchChunk, NextChunk
<1>4. times \in [Url -> Nat] /\ filed \in [Url -> SUBSET Day]
  BY <1>2, EksAssumption
<1>5. ChunkEnd + 1 \in Nat
  BY <1>1, <1>2, ChunkBounds
<1> HIDE DEF times, filed
<1>6. /\ run' \in Run
      /\ run'.todo = run.todo /\ run'.current = run.current /\ run'.got = run.got
      /\ run'.failed = run.failed /\ run'.links = run.links /\ run'.times = times
      /\ run'.filed = filed /\ run'.chunk = ChunkEnd + 1 /\ run'.empty = run.empty
      /\ run'.broken = run.broken /\ run'.cacheOnly = run.cacheOnly /\ run'.dateTo = run.dateTo
  BY <1>1, <1>3, <1>4, <1>5 DEF Run
<1>7. /\ LinksInOrder' /\ ArchiveInOrder' /\ PageIsWhole' /\ Done' = Done
      /\ \A u \in Url : /\ Archived(u)' <=> Archived(u) \/ Asked(u)
                        /\ ~(Archived(u) /\ Asked(u))
  BY <1>1, <1>6, ChunkStep
<1>8. Counted'
  <2> SUFFICES ASSUME NEW u \in Url PROVE TimesOf(u)'
    BY DEF Counted
  <2>1. ReadFor(u)' = ReadFor(u) /\ TimesOf(u)
    BY <1>2, <1>7 DEF ReadFor, Counted
  <2>2. CASE ~Asked(u)
    <3>1. run'.times[u] = run.times[u] /\ (Archived(u)' <=> Archived(u))
      BY <1>6, <1>7, <2>2 DEF times
    <3> QED
      BY <2>1, <3>1 DEF TimesOf
  <2>3. CASE Asked(u)
    <3>1. run'.times[u] = run.times[u] + 1 /\ run.times[u] \in Nat
      BY <1>2, <1>6, <2>3 DEF times
    <3>2. Archived(u)' /\ ~Archived(u)
      BY <1>7, <2>3
    <3>3. run'.times[u] > 1 => run.times[u] >= 1
      BY <3>1
    <3> QED
      BY <2>1, <3>2, <3>3 DEF TimesOf
  <2> QED
    BY <2>2, <2>3
<1>9. Filed'
  <2> SUFFICES ASSUME NEW u \in Url PROVE FiledOf(u)'
    BY DEF Filed
  <2>1. FiledOf(u) /\ run.filed[u] \subseteq run'.filed[u]
    BY <1>2, <1>6 DEF Filed, filed
  <2>2. Asked(u) => DayOf[u] \in run'.filed[u]
    BY <1>6 DEF filed
  <2> QED
    BY <1>6, <1>7, <2>1, <2>2 DEF FiledOf, OwnName
<1> QED
  BY <1>1, <1>6, <1>7, <1>8, <1>9, PublishedStands DEF EksInv, EksTypeOK, CopiesNamed, RunInv

LEMMA FetchEmptyChunkInv ==
  ASSUME EksInv, FetchEmptyChunk
  PROVE  EksInv'
<1>1. /\ phase = "archive" /\ phase' = "archive" /\ run \in Run /\ MoreChunks
      /\ run' = [run EXCEPT !.empty = @ \union (run.chunk..ChunkEnd), !.chunk = ChunkEnd + 1]
      /\ published' = published /\ manifest' = manifest
      /\ today' = today /\ oldest' = oldest /\ cache' = cache
  BY DEF FetchEmptyChunk, NextChunk, site, EksInv, EksTypeOK
<1>2. run.empty \in SUBSET Day /\ run.chunk \in Nat /\ Counted /\ Filed /\ ArchiveInOrder
  BY <1>1 DEF Run, EksInv, RunInv
<1>3. ArchiveTo \in 0..LastDay /\ ChunkEnd \in run.chunk..ArchiveTo
  BY <1>1, ChunkBounds
<1>4. ChunkEnd + 1 \in Nat /\ run.chunk..ChunkEnd \subseteq Day
  BY <1>2, <1>3, EksAssumption DEF ArchiveInOrder, Day
<1>5. /\ run' \in Run
      /\ run'.todo = run.todo /\ run'.current = run.current /\ run'.got = run.got
      /\ run'.failed = run.failed /\ run'.links = run.links /\ run'.times = run.times
      /\ run'.filed = run.filed /\ run'.chunk = ChunkEnd + 1
      /\ run'.empty = run.empty \union (run.chunk..ChunkEnd)
      /\ run'.broken = run.broken /\ run'.cacheOnly = run.cacheOnly /\ run'.dateTo = run.dateTo
  BY <1>1, <1>2, <1>4 DEF Run
<1>6. /\ LinksInOrder' /\ ArchiveInOrder' /\ PageIsWhole' /\ Done' = Done
      /\ \A u \in Url : /\ Archived(u)' <=> Archived(u) \/ Asked(u)
                        /\ ~(Archived(u) /\ Asked(u))
  BY <1>1, <1>5, ChunkStep
<1>7. Counted'
  BY <1>2, <1>5, <1>6 DEF Counted, TimesOf, ReadFor
<1>8. Filed'
  BY <1>2, <1>5, <1>6 DEF Filed, FiledOf, OwnName, Asked
<1> QED
  BY <1>1, <1>5, <1>6, <1>7, <1>8, PublishedStands DEF EksInv, EksTypeOK, CopiesNamed, RunInv

LEMMA ChunkFailsInv ==
  ASSUME EksInv, ChunkFails
  PROVE  EksInv'
<1>1. /\ phase = "archive" /\ phase' = "archive" /\ run \in Run /\ MoreChunks
      /\ run' = [run EXCEPT !.broken = run.chunk]
      /\ published' = published /\ manifest' = manifest
      /\ today' = today /\ oldest' = oldest /\ cache' = cache
  BY DEF ChunkFails, site, EksInv, EksTypeOK
<1>2. run.chunk \in 0..LastDay
  BY <1>1, ChunkBounds, EksAssumption DEF MoreChunks, Run
<1>3. /\ run' \in Run
      /\ run'.todo = run.todo /\ run'.current = run.current /\ run'.got = run.got
      /\ run'.failed = run.failed /\ run'.links = run.links /\ run'.times = run.times
      /\ run'.filed = run.filed /\ run'.empty = run.empty
      /\ run'.chunk = run.chunk /\ run'.broken = run.chunk
      /\ run'.cacheOnly = run.cacheOnly /\ run'.dateTo = run.dateTo
  BY <1>1, <1>2 DEF Run
<1>4. RunInv'
  BY <1>1, <1>3
  DEF EksInv, RunInv, LinksInOrder, ArchiveInOrder, Counted, TimesOf, Filed, FiledOf, Archived,
      ReadFor, PageIsWhole, Done
<1> QED
  BY <1>1, <1>3, <1>4, PublishedStands DEF EksInv, EksTypeOK, CopiesNamed

LEMMA PublishInv ==
  ASSUME EksInv, Publish
  PROVE  EksInv'
<1>1. /\ phase = "archive" /\ ~MoreChunks /\ EndRun /\ run \in Run /\ published' = run
      /\ manifest' = manifest /\ today' = today /\ oldest' = oldest /\ cache' = cache
  BY DEF Publish, site, EksInv, EksTypeOK
<1>2. LinksInOrder /\ ArchiveInOrder /\ Counted /\ Filed /\ PageIsWhole
  BY <1>1 DEF EksInv, RunInv
<1>3. /\ run.links \in SUBSET Link /\ run.chunk \in Nat /\ run.dateTo \in 0..LastDay
      /\ run.broken \in 0..LastDay /\ Done = run.links \ run.failed
  BY <1>1, <1>2 DEF Run, Done, LinksInOrder
<1>4. ASSUME NEW u \in Url, run.times[u] > 1
      PROVE  \/ \E k, l \in CopiesOf(u, run.links) : k # l
             \/ /\ ~run.cacheOnly /\ CopiesOf(u, run.links) # {}
                /\ \A l \in run.links : DayOf[u] < l[1]
  <2>1. ReadFor(u) \subseteq CopiesOf(u, run.links)
    BY <1>3 DEF ReadFor, CopiesOf
  <2>2. CASE \E k, l \in ReadFor(u) : k # l
    BY <2>1, <2>2
  <2>3. CASE ReadFor(u) # {} /\ Archived(u)
    <3>1. DayOf[u] \in Nat /\ DayOf[u] >= 1 /\ \A l \in run.links : l[1] \in Nat
      BY <1>3, LinkType, EksAssumption DEF Day
    <3>2. ~run.cacheOnly
      BY <1>2, <2>3, <3>1 DEF ArchiveInOrder, Archived
    <3>3. \A l \in run.links : DayOf[u] < l[1]
      BY <1>2, <1>3, <2>3, <3>1 DEF ArchiveInOrder, Archived
    <3> QED
      BY <2>1, <2>3, <3>2, <3>3
  <2> QED
    BY <1>2, <1>4, <2>2, <2>3 DEF Counted, TimesOf
<1>5. CountedOnce'
  BY <1>1, <1>4 DEF CountedOnce
<1>6. ASSUME ~run.cacheOnly, NEW u \in Url, DayOf[u] <= run.dateTo, DayOf[u] \notin run.filed[u]
      PROVE  \/ <<DayOf[u], u>> \in run.failed
             \/ <<DayOf[u], u>> \in run.links /\ \E v \in Url \ {u} : NameOf[v] = NameOf[u]
             \/ run.broken \in 1..DayOf[u]
             \/ DayOf[u] \in run.empty
             \/ <<DayOf[u], u>> \notin Link /\ \E l \in run.links : l[1] <= DayOf[u]
  <2>1. DayOf[u] \in Nat /\ FiledOf(u)
    BY <1>2, EksAssumption DEF Day, Filed
  <2>2. CASE Archived(u)
    BY <1>6, <2>1, <2>2 DEF FiledOf
  <2>3. CASE ~Archived(u) /\ run.broken # 0
    BY <1>2, <1>3, <2>1, <2>3 DEF ArchiveInOrder, Archived
  <2>4. CASE ~Archived(u) /\ run.broken = 0
    <3>1. run.chunk <= DayOf[u] /\ ~(run.chunk <= ArchiveTo)
      BY <1>1, <1>3, <1>6, <2>1, <2>4 DEF MoreChunks, Archived
    <3>2. run.links # {}
      BY <1>3, <1>6, <2>1, <3>1 DEF ArchiveTo
    <3>3. PICK k \in run.links : k[1] = FirstLinked /\ FirstLinked \in Day
      BY <1>3, <3>2, FirstLinkedIsFirst
    <3>4. k[1] <= DayOf[u]
      BY <1>3, <2>1, <3>1, <3>2, <3>3, EksAssumption DEF ArchiveTo, Day
    <3>5. CASE <<DayOf[u], u>> \in Link
      <4>1. <<DayOf[u], u>> \in run.links
        BY <1>2, <1>6, <3>4, <3>5 DEF PageIsWhole
      <4>2. CASE <<DayOf[u], u>> \in run.failed
        BY <4>2
      <4>3. CASE <<DayOf[u], u>> \in Done
        BY <1>6, <2>1, <4>1, <4>3 DEF FiledOf, OwnName
      <4> QED
        BY <1>3, <4>1, <4>2, <4>3
    <3> QED
      BY <3>4, <3>5
  <2> QED
    BY <2>2, <2>3, <2>4
<1>7. HolesAreExplained'
  BY <1>1, <1>6 DEF HolesAreExplained
<1>8. EksTypeOK' /\ CopiesNamed'
  BY <1>1 DEF EksInv, EksTypeOK, CopiesNamed, EndRun
<1>9. RunInv'
  BY <1>1 DEF EndRun, RunInv
<1> QED
  BY <1>5, <1>7, <1>8, <1>9 DEF EksInv

(***************************************************************************)
(* The theorems.                                                           *)
(***************************************************************************)
LEMMA EksStepInv == EksInv /\ [EksNext]_eksVars => EksInv'
<1> SUFFICES ASSUME EksInv, [EksNext]_eksVars
             PROVE  EksInv'
  OBVIOUS
<1>1. CASE NextDay \/ PageDropsADay
  BY <1>1, SiteInv
<1>2. CASE \E cacheOnly \in BOOLEAN : StartRun(cacheOnly)
  BY <1>2, StartRunInv
<1>3. CASE \E l \in Link : TakeLink(l)
  BY <1>3, TakeLinkInv
<1>4. CASE FillSource \/ OpenManifest \/ FillManifest
  BY <1>4, FillSourceInv, OpenManifestInv, FillManifestInv
<1>5. CASE StartArchive \/ FetchChunk \/ FetchEmptyChunk \/ ChunkFails \/ Publish
  BY <1>5, StartArchiveInv, FetchChunkInv, FetchEmptyChunkInv, ChunkFailsInv, PublishInv
<1>6. CASE Killed
  <2>1. /\ EndRun /\ published' = published /\ today' = today /\ oldest' = oldest
        /\ cache' = cache /\ manifest' = manifest
    BY <1>6 DEF Killed, site
  <2>2. manifest' = TornFile \/ manifest' \subseteq Link
    BY <2>1 DEF EksInv, EksTypeOK
  <2> QED
    BY <2>1, <2>2, IdleInv
<1>7. CASE UNCHANGED eksVars
  BY <1>7, RunStands, PublishedStands DEF EksInv, EksTypeOK, CopiesNamed, eksVars, site
<1> QED
  BY <1>1, <1>2, <1>3, <1>4, <1>5, <1>6, <1>7 DEF EksNext

\* The variables of the parser are of their types; a run has all its fields, a broken archive
\* names one of the days.
THEOREM EksTypes == EksSpec => []EksTypeOK
<1>1. EksInv => EksTypeOK
  BY DEF EksInv
<1> QED
  BY EksInitInv, EksStepInv, <1>1, PTL DEF EksSpec

\* An auction is counted more than once only if two links of the run name its file, or if a
\* link names it and every label is later than its day, so that the archive has it as well:
\* a link is read once (Done), and the archive's days end before the first label
\* (archive_date_to, chunk_start). Whatever the site's names, labels and dates are.
THEOREM CountedOnceAlways == EksSpec => []CountedOnce
<1>1. EksInv => CountedOnce
  BY DEF EksInv
<1> QED
  BY EksInitInv, EksStepInv, <1>1, PTL DEF EksSpec

\* What the bound comes to on a site that gives every file a name of its own and labels it
\* with the day of its auction: nothing published counts an auction twice, whatever was
\* cached, dropped from the page, broken off or killed in between.
THEOREM RegularSiteCountsOnce ==
  ASSUME \A u, v \in Url : NameOf[u] = NameOf[v] => u = v,
         \A l \in Link : l[1] = DayOf[l[2]]
  PROVE  EksSpec => [](published # NoCsv => \A u \in Url : published.times[u] <= 1)
<1>1. EksInv => (published # NoCsv => \A u \in Url : published.times[u] <= 1)
  <2> SUFFICES ASSUME EksInv, published # NoCsv, NEW u \in Url, ~(published.times[u] <= 1)
               PROVE  FALSE
    OBVIOUS
  <2>1. published.links \in SUBSET Link /\ published.times[u] \in Nat
    BY DEF EksInv, EksTypeOK, Run
  <2>2. \A l \in CopiesOf(u, published.links) : l = <<DayOf[u], u>> /\ l[1] = DayOf[u]
    BY <2>1, LinkType DEF CopiesOf, CopyOf
  <2>3. ~(DayOf[u] < DayOf[u])
    BY EksAssumption DEF Day
  <2>4. CASE \E k, l \in CopiesOf(u, published.links) : k # l
    BY <2>2, <2>4
  <2>5. CASE /\ CopiesOf(u, published.links) # {}
             /\ \A l \in published.links : DayOf[u] < l[1]
    BY <2>2, <2>3, <2>5 DEF CopiesOf
  <2>6. published.times[u] > 1
    BY <2>1
  <2> QED
    BY <2>4, <2>5, <2>6 DEF EksInv, CountedOnce
<1> QED
  BY EksInitInv, EksStepInv, <1>1, PTL DEF EksSpec

\* An auction that is missing on its day in what is published has a link that failed in that
\* run or whose file name is another's, too, or the archive broke at the day or before it or
\* had no content for it, or the page reached back to the day without a link for it.
THEOREM HolesExplainedAlways == EksSpec => []HolesAreExplained
<1>1. EksInv => HolesAreExplained
  BY DEF EksInv
<1> QED
  BY EksInitInv, EksStepInv, <1>1, PTL DEF EksSpec

-----------------------------------------------------------------------------
(***************************************************************************)
(* The raw files of one source.                                            *)
(***************************************************************************)
RawSpec == RawInit /\ [][RawNext]_rawVars

\* The newest of some days is one of them, or zero.
LEMMA NewestOf ==
  ASSUME NEW days \in SUBSET SourceDay
  PROVE  /\ Newest(days) \in Nat /\ Newest(days) <= SourceDays
         /\ \A d \in days : d <= Newest(days)
         /\ days # {} => Newest(days) \in days
         /\ Newest({}) = 0
<1>1. days \union {0} \in SUBSET Int /\ SourceDays \in Int
      /\ \A x \in days \union {0} : x <= SourceDays
  BY RawFilesAssumption DEF SourceDay
<1>2. /\ Newest(days) \in days \union {0}
      /\ \A y \in days \union {0} : y <= Newest(days)
  BY <1>1, BoundedMax DEF Newest
<1>3. {} \union {0} \in SUBSET Int /\ {} \union {0} # {}
      /\ \A x \in {} \union {0} : x <= 0
  OBVIOUS
<1>4. Newest({}) = 0
  BY <1>3, BoundedMax DEF Newest
<1>5. \A d \in days : d \in Nat /\ d >= 1 /\ d <= SourceDays
  BY RawFilesAssumption DEF SourceDay
<1>6. Newest(days) \in Nat /\ Newest(days) <= SourceDays
  BY <1>1, <1>2, <1>5, RawFilesAssumption
<1>7. days # {} => Newest(days) \in days
  BY <1>2, <1>5
<1> QED
  BY <1>2, <1>4, <1>6, <1>7

(***************************************************************************)
(* The names of the files, and what the files and the job hold.            *)
(***************************************************************************)
FileName == (HistoryFrom..SourceDays) \X SourceDay
RawFile == [name : FileName, days : SUBSET SourceDay, torn : BOOLEAN]
Job == [mode : {"latest", "historical"},
        step : {"fetch", "save", "writing", "build", "built"},
        name : FileName \union {<<>>}, days : SUBSET SourceDay]

\* The latest mode names a file after the first day of its range, later than the history.
IsLatest(name) ==
  /\ HistoryFrom < name[1]
  /\ name[2] = IF source = "ruonia" THEN name[1] + Window ELSE name[1]
IsHistorical(name) == name[1] = HistoryFrom

\* The first day of the range that the latest mode would ask for now.
Frontier ==
  CASE source = "ruonia" -> now - Window
    [] source = "reserves" -> Newest(InRange(HistoryFrom, now))
    [] source = "tax" -> Newest(InRange(1, SourceDays))

Saving == job # NoJob /\ job.step \in {"save", "writing"}

RawShape ==
  /\ rawFiles \subseteq RawFile
  /\ \A f, g \in rawFiles : f.name = g.name => f = g
  /\ \A f \in rawFiles : IsHistorical(f.name) \/ (IsLatest(f.name) /\ f.name[1] <= Frontier)
  /\ job # NoJob => job \in Job
  /\ Saving => job.name \in FileName
  /\ job # NoJob /\ job.step = "writing" => source # "ruonia"

\* The job at work on a file of the latest mode has rows that are still on the page, the
\* newest of them no older than any saved so far, and no file is ahead of its own.
JobIsNewest ==
  Saving =>
    /\ job.mode = "historical" => IsHistorical(job.name)
    /\ job.mode = "latest" =>
         /\ IsLatest(job.name) /\ job.name[1] <= Frontier
         /\ \A f \in rawFiles : IsLatest(f.name) => f.name[1] <= job.name[1]
         /\ \A d \in job.days : Published(d) /\ (source # "tax" => d <= now)
         /\ saved <= Newest(job.days)

\* The newest day saved is still on the page.
SavedOnPage == saved # 0 => Published(saved) /\ (source # "tax" => saved <= now)

\* No file is ahead of f.
IsGreatest(f) == \A g \in rawFiles \ {f} : Precedes(g, f)

\* The greatest file of the latest mode is torn or goes to the newest day saved.
GreatestIsNewest ==
  /\ saved # 0 => \E f \in rawFiles : IsLatest(f.name)
  /\ \A f \in rawFiles :
       IsLatest(f.name) /\ (\A g \in rawFiles : IsLatest(g.name) => g.name[1] <= f.name[1])
         => f.torn \/ saved <= Newest(f.days)

\* The table just built is the one of the last file.
BuiltFromLast ==
  JobAt("built") => known = IF rawFiles = {} THEN {} ELSE LatestFile.days

RawInv ==
  RawTypeOK /\ RawShape /\ JobIsNewest /\ SavedOnPage /\ GreatestIsNewest /\ BuiltFromLast

\* The last of the names: one file is ahead of all others.
LEMMA LastName ==
  ASSUME RawShape, rawFiles # {}
  PROVE  LatestFile \in rawFiles /\ IsGreatest(LatestFile)
<1> DEFINE First == {f.name[1] : f \in rawFiles}
<1>1. /\ HistoryFrom \in Int /\ SourceDays \in Int
      /\ \A f \in rawFiles : /\ f.name \in FileName
                             /\ f.name[1] \in Int /\ f.name[1] <= SourceDays
                             /\ f.name[2] \in Int /\ f.name[2] <= SourceDays
                             /\ f.name = <<f.name[1], f.name[2]>>
  BY RawFilesAssumption DEF RawShape, RawFile, FileName, HistoryFrom, SourceDay
<1>2. PICK m \in First : \A x \in First : x <= m
  <2>1. First \in SUBSET Int /\ First # {} /\ \A x \in First : x <= SourceDays
    BY <1>1
  <2> HIDE DEF First
  <2> QED
    BY <1>1, <2>1, BoundedMax
<1> DEFINE Second == {f.name[2] : f \in {g \in rawFiles : g.name[1] = m}}
<1>3. PICK n \in Second : \A x \in Second : x <= n
  <2>1. Second \in SUBSET Int /\ Second # {} /\ \A x \in Second : x <= SourceDays
    BY <1>1, <1>2
  <2> HIDE DEF Second
  <2> QED
    BY <1>1, <2>1, BoundedMax
<1>4. PICK f \in rawFiles : f.name[1] = m /\ f.name[2] = n
  BY <1>3
<1>5. IsGreatest(f)
  <2> SUFFICES ASSUME NEW g \in rawFiles \ {f}
               PROVE  Precedes(g, f)
    BY DEF IsGreatest
  <2>1. g.name # f.name
    BY DEF RawShape
  <2>2. g.name[1] <= m /\ (g.name[1] = m => g.name[2] <= n)
    BY <1>2, <1>3
  <2>3. g.name[1] = m => g.name[2] # n
    BY <1>1, <1>4, <2>1
  <2> QED
    BY <1>1, <1>4, <2>2, <2>3 DEF Precedes
<1> QED
  BY <1>5 DEF LatestFile, IsGreatest

\* What has been announced stays, and the frontier does not go back.
LEMMA FrontierForward ==
  ASSUME RawTypeOK, now' \in SourceDay, now <= now', source' = source,
         \A d \in SourceDay : Published(d) => Published(d)'
  PROVE  Frontier <= Frontier' /\ Frontier \in Int /\ Frontier' \in Int /\ Frontier' <= SourceDays
<1>1. now \in Int /\ now' \in Int /\ Window \in Int /\ now' <= SourceDays /\ SourceDays \in Int
      /\ Window >= 0
  BY RawFilesAssumption DEF RawTypeOK, SourceDay
<1>2. ASSUME NEW A \in SUBSET SourceDay, NEW B \in SUBSET SourceDay, A \subseteq B
      PROVE  Newest(A) <= Newest(B) /\ Newest(A) \in Int /\ Newest(B) \in Int
             /\ Newest(B) <= SourceDays
  <2>1. Newest(A) \in Nat /\ Newest(B) \in Nat /\ Newest(B) <= SourceDays
    BY NewestOf
  <2>2. A # {} => Newest(A) <= Newest(B)
    BY <1>2, NewestOf
  <2>3. A = {} => Newest(A) = 0
    BY NewestOf
  <2> QED
    BY <2>1, <2>2, <2>3
<1>3. /\ InRange(HistoryFrom, now) \in SUBSET SourceDay
      /\ InRange(HistoryFrom, now)' \in SUBSET SourceDay
      /\ InRange(HistoryFrom, now) \subseteq InRange(HistoryFrom, now)'
  BY <1>1 DEF InRange, HistoryFrom, SourceDay
<1>4. /\ InRange(1, SourceDays) \in SUBSET SourceDay
      /\ InRange(1, SourceDays)' \in SUBSET SourceDay
      /\ InRange(1, SourceDays) \subseteq InRange(1, SourceDays)'
  BY DEF InRange
<1>5. CASE source = "ruonia"
  BY <1>1, <1>5 DEF Frontier
<1>6. CASE source = "reserves"
  <2>1. Frontier = Newest(InRange(HistoryFrom, now))
        /\ Frontier' = Newest(InRange(HistoryFrom, now)')
    BY <1>6 DEF Frontier, Newest
  <2> QED
    BY <1>2, <1>3, <2>1
<1>7. CASE source = "tax"
  <2>1. Frontier = Newest(InRange(1, SourceDays))
        /\ Frontier' = Newest(InRange(1, SourceDays)')
    BY <1>7 DEF Frontier, Newest
  <2> QED
    BY <1>2, <1>4, <2>1
<1> QED
  BY <1>5, <1>6, <1>7 DEF RawTypeOK

-----------------------------------------------------------------------------
(***************************************************************************)
(* The steps.                                                              *)
(***************************************************************************)
\* The source moves on: the files and the job stay.
LEMMA SourceKeepsInv ==
  ASSUME RawInv, NextSourceDay \/ \E d \in SourceDay : PublishRow(d)
  PROVE  RawInv'
<1>1. /\ now' \in SourceDay /\ now <= now' /\ source' = source
      /\ page' \in [SourceDay -> {"none", "blank", "value"}]
      /\ UNCHANGED <<rawFiles, job, known, saved, jobs>>
  BY RawFilesAssumption DEF RawInv, RawTypeOK, NextSourceDay, PublishRow, SourceDay
<1>2. \A d \in SourceDay : Published(d) => Published(d)'
  BY DEF NextSourceDay, PublishRow, Published, RawInv, RawTypeOK
<1>3. Frontier <= Frontier' /\ Frontier \in Int /\ Frontier' \in Int
  BY <1>1, <1>2, FrontierForward DEF RawInv
<1>4. RawTypeOK'
  BY <1>1 DEF RawInv, RawTypeOK
<1>5. \A x \in Int : x <= Frontier => x <= Frontier'
  BY <1>3
<1>6. RawShape'
  <2>1. \A f \in rawFiles : f.name[1] \in Int
    BY RawFilesAssumption DEF RawInv, RawShape, RawFile, FileName, HistoryFrom
  <2> QED
    BY <1>1, <1>5, <2>1 DEF RawInv, RawShape, Saving, IsLatest, IsHistorical
<1>7. now \in Int /\ now' \in Int /\ \A d \in SourceDay : d \in Int /\ (d <= now => d <= now')
  BY <1>1 DEF RawInv, RawTypeOK, SourceDay
<1>8. JobIsNewest'
  <2>1. Saving => job.name[1] \in Int
    BY RawFilesAssumption DEF RawInv, RawShape, FileName, HistoryFrom
  <2>2. Saving => job.days \subseteq SourceDay
    BY DEF RawInv, RawShape, Job, Saving
  <2> QED
    BY <1>1, <1>2, <1>5, <1>7, <2>1, <2>2
       DEF RawInv, JobIsNewest, Saving, IsLatest, IsHistorical
<1>9. SavedOnPage'
  <2>1. saved # 0 => saved \in SourceDay
    BY RawFilesAssumption DEF RawInv, RawTypeOK, SourceDay
  <2> QED
    BY <1>1, <1>2, <1>7, <2>1 DEF RawInv, SavedOnPage
<1>10. GreatestIsNewest'
  BY <1>1 DEF RawInv, GreatestIsNewest, IsLatest
<1>11. BuiltFromLast'
  BY <1>1 DEF RawInv, BuiltFromLast, JobAt, LatestFile
<1> QED
  BY <1>4, <1>6, <1>8, <1>9, <1>10, <1>11 DEF RawInv

\* A job begins, gets nothing, or ends: neither the files nor the page change.
LEMMA JobKeepsInv ==
  ASSUME RawInv, (\E mode \in {"latest", "historical"} : StartJob(mode)) \/ NoRows \/ EndJob
  PROVE  RawInv'
<1>1. /\ UNCHANGED <<source, now, page, rawFiles, known, saved>>
      /\ job' # NoJob => job' \in Job /\ job'.step \in {"fetch", "build"}
  BY DEF RawInv, RawShape, StartJob, NoRows, EndJob, Goes, JobAt, Job
<1>2. jobs' \in 0..MaxJobs
  BY RawFilesAssumption DEF RawInv, RawTypeOK, StartJob, NoRows, EndJob
<1>3. ~Saving' /\ ~JobAt("built")'
  BY <1>1 DEF Saving, JobAt
<1>4. Frontier' = Frontier
  BY <1>1 DEF Frontier, InRange, Published
<1>5. RawTypeOK'
  BY <1>1, <1>2 DEF RawInv, RawTypeOK, Job
<1>6. RawShape'
  BY <1>1, <1>3, <1>4 DEF RawInv, RawShape, IsLatest, IsHistorical
<1>7. JobIsNewest' /\ BuiltFromLast'
  BY <1>3 DEF JobIsNewest, BuiltFromLast
<1>8. SavedOnPage' /\ GreatestIsNewest'
  BY <1>1 DEF RawInv, SavedOnPage, GreatestIsNewest, IsLatest, Published
<1> QED
  BY <1>5, <1>6, <1>7, <1>8 DEF RawInv

\* What the latest mode gets from a page: rows still on it, none older than what was saved,
\* named after the frontier.
LEMMA LatestRecords ==
  ASSUME RawInv, NEW days, days = Records("latest"), days # {}
  PROVE  /\ days \in SUBSET SourceDay
         /\ \A d \in days : Published(d) /\ (source # "tax" => d <= now)
         /\ saved <= Newest(days)
         /\ LET name == FileRange("latest", days)
            IN name \in FileName /\ IsLatest(name) /\ name[1] = Frontier
<1>1. /\ now \in SourceDay /\ now \in Int /\ Window \in Nat /\ SourceDays \in Nat
      /\ saved \in Nat /\ (saved # 0 => saved \in SourceDay)
      /\ \A d \in SourceDay : d \in Nat /\ 1 <= d /\ d <= SourceDays
      /\ source \in {"ruonia", "reserves", "tax"}
  BY RawFilesAssumption DEF RawInv, RawTypeOK, SourceDay
<1>2. CASE source = "ruonia"
  <2>1. days = InRange(now - Window, now)
    BY <1>2 DEF Records, RuoniaRecords
  <2>2. days \in SUBSET SourceDay /\ \A d \in days : Published(d) /\ d <= now /\ now - Window <= d
    BY <2>1 DEF InRange
  <2>3. /\ Newest(days) \in days /\ Newest(days) \in Nat
        /\ \A d \in days : d <= Newest(days)
    BY <2>2, NewestOf
  <2>4. saved <= Newest(days)
    <3>1. CASE saved = 0
      BY <2>3, <3>1
    <3>2. CASE saved # 0 /\ now - Window <= saved
      <4>1. saved \in days
        BY <1>1, <1>2, <2>1, <3>2 DEF RawInv, SavedOnPage, InRange
      <4> QED
        BY <2>3, <4>1
    <3>3. CASE saved < now - Window
      <4>1. now - Window <= Newest(days)
        BY <2>2, <2>3
      <4> QED
        BY <1>1, <2>3, <3>3, <4>1
    <3> QED
      BY <1>1, <3>1, <3>2, <3>3
  <2>5. FileRange("latest", days) = <<now - Window, now>>
    BY <1>2 DEF FileRange
  <2>6. /\ <<now - Window, now>> \in FileName
        /\ IsLatest(<<now - Window, now>>)
        /\ <<now - Window, now>>[1] = Frontier
    BY <1>1, <1>2 DEF FileName, IsLatest, HistoryFrom, Frontier, SourceDay
  <2> QED
    BY <2>2, <2>4, <2>5, <2>6
<1>3. CASE source = "reserves"
  <2> DEFINE dated == InRange(HistoryFrom, now)
  <2>1. days = WithValue({d \in dated : d = Newest(dated)})
    BY <1>3 DEF Records, ReservesRecords
  <2>2. dated \in SUBSET SourceDay /\ \A d \in dated : Published(d) /\ d <= now
    BY DEF InRange
  <2>3. days = {Newest(dated)} /\ Newest(dated) \in dated
    BY <2>1 DEF WithValue
  <2>4. Newest(days) = Newest(dated)
    <3>1. days \in SUBSET SourceDay /\ days # {}
      BY <2>2, <2>3
    <3>2. Newest(days) \in days
      BY <3>1, NewestOf
    <3> QED
      BY <2>3, <3>2
  <2>5. saved <= Newest(dated)
    <3>1. saved # 0 => saved \in dated
      BY <1>1, <1>3 DEF RawInv, SavedOnPage, InRange, HistoryFrom
    <3>2. saved # 0 => saved <= Newest(dated)
      BY <2>2, <3>1, NewestOf
    <3>3. 0 <= Newest(dated)
      BY <2>2, NewestOf
    <3> QED
      BY <3>2, <3>3
  <2>6. FileRange("latest", days) = <<Newest(dated), Newest(dated)>> /\ Frontier = Newest(dated)
    BY <1>3, <2>4 DEF FileRange, Frontier
  <2>7. Newest(dated) \in SourceDay
    BY <2>2, <2>3
  <2> HIDE DEF dated
  <2>8. <<Newest(dated), Newest(dated)>> \in FileName
        /\ IsLatest(<<Newest(dated), Newest(dated)>>)
    BY <1>1, <1>3, <2>7 DEF FileName, IsLatest, HistoryFrom, SourceDay
  <2> QED
    BY <2>2, <2>3, <2>4, <2>5, <2>6, <2>8
<1>4. CASE source = "tax"
  <2> DEFINE events == InRange(1, SourceDays)
  <2>1. days = {d \in events : Release(d) = Release(Newest(events))}
    BY <1>4 DEF Records, TaxRecords
  <2>2. events \in SUBSET SourceDay /\ (\A d \in events : Published(d)) /\ events # {}
    BY <2>1 DEF InRange
  <2>3. Newest(events) \in events /\ \A d \in events : d <= Newest(events)
    BY <2>2, NewestOf
  <2>4. Newest(events) \in days /\ days \in SUBSET SourceDay /\ days \subseteq events
    BY <2>1, <2>2, <2>3
  <2>5. Newest(days) = Newest(events)
    <3>1. /\ Newest(days) \in days /\ Newest(events) <= Newest(days)
          /\ Newest(days) <= Newest(events)
      BY <2>3, <2>4, NewestOf
    <3>2. Newest(days) \in Nat /\ Newest(events) \in Nat
      BY <1>1, <2>2, <2>3, <2>4, <3>1
    <3> QED
      BY <3>1, <3>2
  <2>6. saved <= Newest(events)
    <3>1. saved # 0 => saved \in events
      BY <1>1, <1>4 DEF RawInv, SavedOnPage, InRange
    <3>2. 0 <= Newest(events)
      BY <2>2, NewestOf
    <3> QED
      BY <2>3, <3>1, <3>2
  <2>7. FileRange("latest", days) = <<Newest(events), Newest(events)>>
        /\ Frontier = Newest(events)
    BY <1>4, <2>5 DEF FileRange, Frontier
  <2>8. Newest(events) \in SourceDay
    BY <2>2, <2>3
  <2> HIDE DEF events
  <2>9. <<Newest(events), Newest(events)>> \in FileName
        /\ IsLatest(<<Newest(events), Newest(events)>>)
    BY <1>1, <1>4, <2>8 DEF FileName, IsLatest, HistoryFrom, SourceDay
  <2> QED
    BY <1>4, <2>2, <2>4, <2>5, <2>6, <2>7, <2>9
<1> QED
  BY <1>1, <1>2, <1>3, <1>4

\* A run has got its rows.
LEMMA FetchKeepsInv ==
  ASSUME RawInv, FetchRows
  PROVE  RawInv'
<1> DEFINE days == Records(job.mode)
           name == FileRange(job.mode, days)
<1>1. /\ UNCHANGED <<source, now, page, rawFiles, known, saved, jobs>>
      /\ job # NoJob /\ job \in Job /\ days # {}
      /\ job' = [job EXCEPT !.step = "save", !.name = name, !.days = days]
  BY DEF RawInv, RawShape, FetchRows, JobAt
<1>2. /\ now \in SourceDay /\ Window \in Nat /\ SourceDays \in Nat /\ now \in Int
  BY RawFilesAssumption DEF RawInv, RawTypeOK, SourceDay
<1>3. CASE job.mode = "latest"
  <2>1. /\ days \in SUBSET SourceDay
        /\ \A d \in days : Published(d) /\ (source # "tax" => d <= now)
        /\ saved <= Newest(days)
        /\ name \in FileName /\ IsLatest(name) /\ name[1] = Frontier
    BY <1>1, <1>3, LatestRecords
  <2> HIDE DEF days, name
  <2>2. /\ job' \in Job /\ job'.step = "save" /\ job'.name = name /\ job'.days = days
        /\ job'.mode = "latest"
    BY <1>1, <1>3, <2>1 DEF Job
  <2>3. Frontier' = Frontier
    BY <1>1 DEF Frontier, InRange, Published
  <2>4. name[1] \in Int
    BY <2>1, RawFilesAssumption DEF FileName, HistoryFrom
  <2>5. RawTypeOK'
    BY <1>1, <2>1, <2>2 DEF RawInv, RawTypeOK
  <2>6. RawShape'
    BY <1>1, <2>1, <2>2, <2>3 DEF RawInv, RawShape, IsLatest, IsHistorical
  <2>7. JobIsNewest'
    <3>1. \A f \in rawFiles : IsLatest(f.name) => f.name[1] <= name[1]
      BY <1>2, <2>1 DEF RawInv, RawShape, IsHistorical, IsLatest, HistoryFrom
    <3>2. name[1] <= Frontier
      BY <2>1, <2>4
    <3> QED
      BY <1>1, <2>1, <2>2, <2>3, <3>1, <3>2 DEF JobIsNewest, IsLatest, Published, Newest
  <2>8. SavedOnPage' /\ GreatestIsNewest'
    BY <1>1 DEF RawInv, SavedOnPage, GreatestIsNewest, IsLatest, Published
  <2>9. BuiltFromLast'
    BY <2>2 DEF BuiltFromLast, JobAt
  <2> QED
    BY <2>5, <2>6, <2>7, <2>8, <2>9 DEF RawInv
<1>4. CASE job.mode = "historical"
  <2>1. days \in SUBSET SourceDay
    BY <1>4 DEF Records, RuoniaRecords, ReservesRecords, TaxRecords, InRange, WithValue,
                RawInv, RawTypeOK
  <2>2. name = <<HistoryFrom, now>> /\ name \in FileName
    BY <1>2, <1>4 DEF FileRange, FileName, HistoryFrom, SourceDay
  <2> HIDE DEF days, name
  <2>3. /\ job' \in Job /\ job'.step = "save" /\ job'.name = name /\ job'.days = days
        /\ job'.mode = "historical"
    BY <1>1, <1>4, <2>1, <2>2 DEF Job
  <2>4. Frontier' = Frontier
    BY <1>1 DEF Frontier, InRange, Published
  <2>5. RawTypeOK'
    BY <1>1, <2>1, <2>3 DEF RawInv, RawTypeOK
  <2>6. RawShape'
    BY <1>1, <2>2, <2>3, <2>4 DEF RawInv, RawShape, IsLatest, IsHistorical
  <2>7. JobIsNewest'
    BY <2>2, <2>3 DEF JobIsNewest, IsHistorical
  <2>8. SavedOnPage' /\ GreatestIsNewest'
    BY <1>1 DEF RawInv, SavedOnPage, GreatestIsNewest, IsLatest, Published
  <2>9. BuiltFromLast'
    BY <2>3 DEF BuiltFromLast, JobAt
  <2> QED
    BY <2>5, <2>6, <2>7, <2>8, <2>9 DEF RawInv
<1> QED
  BY <1>1, <1>3, <1>4 DEF Job

\* A file is written under the job's name, as far as it got.
LEMMA WriteKeepsInv ==
  ASSUME RawInv, Saving, NEW days \in SUBSET SourceDay, NEW torn \in BOOLEAN,
         NEW stage \in {"writing", "build"},
         rawFiles' = Replaced(File(job.name, days, torn)), Goes(stage),
         stage = "writing" => source # "ruonia" /\ torn /\ saved' = saved /\ job.days # {},
         stage = "build" => ~torn /\ Newest(days) = Newest(job.days) /\ saved' = Noted,
         UNCHANGED <<source, now, page, known, jobs>>
  PROVE  RawInv'
<1> DEFINE new == File(job.name, days, torn)
<1>1. /\ job \in Job /\ job # NoJob /\ job.name \in FileName
      /\ job' = [job EXCEPT !.step = stage]
  BY DEF RawInv, RawShape, Saving, Goes
<1>2. job' \in Job /\ job'.name = job.name /\ job'.days = job.days /\ job'.mode = job.mode
      /\ job'.step = stage
  BY <1>1 DEF Job
<1>3. new \in RawFile /\ new.name = job.name /\ new.days = days /\ new.torn = torn
  BY <1>1 DEF File, RawFile
<1> HIDE DEF new
<1>4. /\ new \in rawFiles'
      /\ \A f \in rawFiles' : f = new \/ (f \in rawFiles /\ f.name # job.name)
      /\ \A f \in rawFiles : f.name # job.name => f \in rawFiles'
  BY <1>3 DEF Replaced, new
<1>5. Frontier' = Frontier
  BY DEF Frontier, InRange, Published
<1>6. /\ \A f \in RawFile : IsLatest(f.name)' = IsLatest(f.name)
      /\ IsLatest(job.name)' = IsLatest(job.name)
  BY <1>2 DEF IsLatest
<1>7. /\ HistoryFrom \in Int /\ now \in Int /\ saved \in Nat /\ SourceDays \in Nat
      /\ \A f \in rawFiles : f.name \in FileName /\ f.name[1] \in Int
      /\ job.name[1] \in Int
      /\ \A n \in FileName : n = <<n[1], n[2]>>
  BY <1>1, RawFilesAssumption
     DEF RawInv, RawShape, RawTypeOK, RawFile, FileName, HistoryFrom, SourceDay
<1>8. IsHistorical(job.name) \/ (IsLatest(job.name) /\ job.name[1] <= Frontier)
  BY <1>1 DEF RawInv, JobIsNewest, Saving, Job
<1>9. job.mode = "latest" => saved' \in 0..SourceDays /\ saved <= saved'
                             /\ (stage = "build" => saved' = Newest(job.days))
  <2> SUFFICES ASSUME job.mode = "latest", stage = "build"
               PROVE  saved' \in 0..SourceDays /\ saved <= saved' /\ saved' = Newest(job.days)
    BY <1>7 DEF RawInv, RawTypeOK
  <2>1. saved' = Newest({saved} \union job.days)
    BY DEF Noted
  <2>2. /\ job.days \in SUBSET SourceDay /\ saved <= Newest(job.days)
    BY <1>1 DEF RawInv, JobIsNewest, Job
  <2>3. /\ Newest(job.days) \in Nat /\ Newest(job.days) <= SourceDays
        /\ \A d \in job.days : d <= Newest(job.days)
        /\ Newest(job.days) \in job.days \/ Newest(job.days) = 0
    BY <2>2, NewestOf
  <2>4. Newest(job.days) \in {saved} \union job.days \union {0}
    BY <2>3
  <2>5. \A d \in {saved} \union job.days \union {0} : d <= Newest(job.days)
    BY <2>2, <2>3
  <2>6. {saved} \union job.days \union {0} \in SUBSET Int
    BY <1>7, <2>2, RawFilesAssumption DEF SourceDay
  <2>7. Newest({saved} \union job.days) = Newest(job.days)
    BY <2>3, <2>4, <2>5, <2>6, BoundedMax DEF Newest
  <2> QED
    BY <2>1, <2>2, <2>3, <2>7
<1>10. job.mode = "historical" => saved' = saved
  BY DEF Noted
<1>11. job.mode \in {"latest", "historical"} /\ job.days \subseteq SourceDay
  BY <1>1 DEF Job
<1>12. RawTypeOK'
  <2>1. saved' \in 0..SourceDays
    BY <1>9, <1>10, <1>11 DEF RawInv, RawTypeOK
  <2>2. \A f \in rawFiles' : f.days \subseteq SourceDay /\ f.torn \in BOOLEAN
    BY <1>3, <1>4 DEF RawInv, RawTypeOK
  <2> QED
    BY <1>2, <1>11, <2>1, <2>2 DEF RawInv, RawTypeOK
<1>13. RawShape'
  <2>1. rawFiles' \subseteq RawFile
    BY <1>3, <1>4 DEF RawInv, RawShape
  <2>2. \A f, g \in rawFiles' : f.name = g.name => f = g
    BY <1>3, <1>4 DEF RawInv, RawShape
  <2>3. \A f \in rawFiles' : IsHistorical(f.name) \/ (IsLatest(f.name) /\ f.name[1] <= Frontier)
    BY <1>3, <1>4, <1>8 DEF RawInv, RawShape
  <2> QED
    BY <1>1, <1>2, <1>5, <2>1, <2>2, <2>3 DEF RawShape, Saving, IsHistorical, IsLatest
<1>14. JobIsNewest'
  <2>1. CASE stage = "build"
    BY <1>2, <2>1 DEF JobIsNewest, Saving
  <2>2. CASE stage = "writing"
    <3>1. \A f \in rawFiles' : IsLatest(f.name) /\ job.mode = "latest" => f.name[1] <= job.name[1]
      BY <1>3, <1>4, <1>7 DEF RawInv, JobIsNewest
    <3> QED
      BY <1>2, <1>5, <2>2, <3>1
         DEF RawInv, JobIsNewest, Saving, IsHistorical, IsLatest, Published, Newest
  <2> QED
    BY <2>1, <2>2
<1>15. SavedOnPage'
  <2>1. saved' = saved \/ (saved' = Newest(job.days) /\ job.mode = "latest")
    BY <1>9, <1>10, <1>11
  <2>2. CASE saved' = saved
    BY <2>2 DEF RawInv, SavedOnPage, Published
  <2>3. CASE saved' = Newest(job.days) /\ job.mode = "latest" /\ saved' # 0
    <3>1. saved' \in job.days
      BY <1>11, <2>3, NewestOf
    <3> QED
      BY <2>3, <3>1 DEF RawInv, JobIsNewest, SavedOnPage, Published
  <2> QED
    BY <2>1, <2>2, <2>3 DEF SavedOnPage
<1>16. GreatestIsNewest'
  <2>1. CASE job.mode = "historical"
    <3>1. IsHistorical(job.name) /\ ~IsLatest(job.name)
      BY <1>7, <2>1 DEF RawInv, JobIsNewest, IsHistorical, IsLatest
    <3>2. \A f \in rawFiles' : IsLatest(f.name) => f \in rawFiles
      BY <1>3, <1>4, <3>1
    <3>3. \A f \in rawFiles : IsLatest(f.name) => f \in rawFiles'
      BY <1>4, <3>1
    <3> QED
      BY <1>10, <2>1, <3>2, <3>3 DEF RawInv, GreatestIsNewest, IsLatest
  <2>2. CASE job.mode = "latest"
    <3>1. IsLatest(job.name) /\ \A f \in rawFiles : IsLatest(f.name) => f.name[1] <= job.name[1]
      BY <2>2 DEF RawInv, JobIsNewest
    <3>2. ASSUME NEW f \in rawFiles', IsLatest(f.name),
                 \A g \in rawFiles' : IsLatest(g.name) => g.name[1] <= f.name[1]
          PROVE  f.torn \/ saved' <= Newest(f.days)
      <4>1. f = new
        <5> SUFFICES ASSUME f \in rawFiles, f.name # job.name
                     PROVE  FALSE
          BY <1>4
        <5>1. job.name[1] <= f.name[1] /\ f.name[1] <= job.name[1]
          BY <1>3, <1>4, <3>1, <3>2
        <5>2. f.name[1] = job.name[1]
          BY <1>7, <5>1
        <5>3. f.name[2] = job.name[2]
          BY <3>1, <3>2, <5>2 DEF IsLatest
        <5> QED
          BY <1>1, <1>7, <5>2, <5>3
      <4>2. stage = "build" => saved' = Newest(days)
        BY <1>9, <2>2
      <4>3. stage = "build" => saved' <= Newest(days)
        BY <1>9, <2>2, <4>2
      <4> QED
        BY <1>3, <4>1, <4>3
    <3>3. \E f \in rawFiles' : IsLatest(f.name)
      BY <1>3, <1>4, <3>1
    <3> QED
      BY <3>2, <3>3 DEF GreatestIsNewest, IsLatest, Newest
  <2> QED
    BY <1>11, <2>1, <2>2
<1>17. BuiltFromLast'
  BY <1>2 DEF BuiltFromLast, JobAt
<1> QED
  BY <1>12, <1>13, <1>14, <1>15, <1>16, <1>17 DEF RawInv

\* The table is made of the last file.
LEMMA BuildKeepsInv ==
  ASSUME RawInv, BuildTable
  PROVE  RawInv'
<1>1. /\ UNCHANGED <<source, now, page, rawFiles, saved, jobs>>
      /\ job \in Job /\ job # NoJob /\ job' = [job EXCEPT !.step = "built"]
      /\ known' = IF rawFiles = {} THEN {} ELSE LatestFile.days
  BY DEF BuildTable, JobAt, Goes, RawInv, RawShape
<1>2. job' \in Job /\ job'.step = "built"
  BY <1>1 DEF Job
<1>3. known' \subseteq SourceDay
  <2>1. rawFiles # {} => LatestFile \in RawFile
    BY LastName DEF RawInv, RawShape
  <2> QED
    BY <1>1, <2>1 DEF RawFile
<1>4. Frontier' = Frontier
  BY <1>1 DEF Frontier, InRange, Published
<1>5. RawTypeOK'
  BY <1>1, <1>2, <1>3 DEF RawInv, RawTypeOK, Job
<1>6. RawShape' /\ JobIsNewest'
  BY <1>1, <1>2, <1>4 DEF RawInv, RawShape, JobIsNewest, Saving, IsLatest, IsHistorical
<1>7. SavedOnPage' /\ GreatestIsNewest'
  BY <1>1 DEF RawInv, SavedOnPage, GreatestIsNewest, IsLatest, Published
<1>8. BuiltFromLast'
  BY <1>1 DEF BuiltFromLast, LatestFile
<1> QED
  BY <1>5, <1>6, <1>7, <1>8 DEF RawInv

\* A save of RUONIA's file, or one step of another file's.
LEMMA SaveKeepsInv ==
  ASSUME RawInv, SaveAtomic \/ OpenFileToSave \/ WriteRows
  PROVE  RawInv'
<1>1. Saving /\ job \in Job /\ job # NoJob /\ UNCHANGED <<source, now, page, known, jobs>>
  BY DEF SaveAtomic, OpenFileToSave, WriteRows, JobAt, Saving, RawInv, RawShape
<1>2. job.days \in SUBSET SourceDay
  BY <1>1 DEF Job
<1>3. job.days # {}
  BY <1>1 DEF RawInv, RawTypeOK, Saving
<1>4. CASE SaveAtomic /\ rawFiles' = Replaced(File(job.name, job.days, FALSE)) /\ saved' = Noted
  BY <1>1, <1>2, <1>4, WriteKeepsInv DEF SaveAtomic
<1>5. CASE SaveAtomic /\ UNCHANGED <<rawFiles, saved>>
  <2>1. job' \in Job /\ job'.step = "build"
    BY <1>1, <1>5 DEF SaveAtomic, Goes, Job
  <2>2. Frontier' = Frontier
    BY <1>1 DEF Frontier, InRange, Published
  <2>3. RawTypeOK'
    BY <1>1, <1>2, <1>5, <2>1 DEF RawInv, RawTypeOK, Job
  <2>4. RawShape' /\ JobIsNewest'
    BY <1>1, <1>5, <2>1, <2>2 DEF RawInv, RawShape, JobIsNewest, Saving, IsLatest, IsHistorical
  <2>5. SavedOnPage' /\ GreatestIsNewest' /\ BuiltFromLast'
    BY <1>1, <1>5, <2>1
       DEF RawInv, SavedOnPage, GreatestIsNewest, IsLatest, Published, BuiltFromLast, JobAt
  <2> QED
    BY <2>3, <2>4, <2>5 DEF RawInv
<1>6. CASE OpenFileToSave
  <2>1. {} \in SUBSET SourceDay
    OBVIOUS
  <2> QED
    BY <1>1, <1>3, <1>6, <2>1, WriteKeepsInv DEF OpenFileToSave
<1>7. CASE WriteRows
  <2>1. PICK last \in job.days :
          LET full == last = Newest(job.days)
          IN /\ rawFiles' = Replaced(File(job.name, {d \in job.days : d <= last}, ~full))
             /\ Goes(IF full THEN "build" ELSE "writing")
             /\ saved' = IF full THEN Noted ELSE saved
    BY <1>7 DEF WriteRows
  <2> DEFINE part == {d \in job.days : d <= last}
  <2>2. part \in SUBSET SourceDay
    BY <1>2
  <2>3. source # "ruonia"
    BY <1>7 DEF WriteRows, JobAt, RawInv, RawShape
  <2>4. CASE last = Newest(job.days)
    <3>1. part = job.days
      BY <1>2, <2>4, NewestOf
    <3> QED
      BY <1>1, <2>1, <2>2, <2>4, <3>1, WriteKeepsInv
  <2>5. CASE last # Newest(job.days)
    BY <1>1, <1>3, <2>1, <2>2, <2>3, <2>5, WriteKeepsInv
  <2> QED
    BY <2>4, <2>5
<1> QED
  BY <1>4, <1>5, <1>6, <1>7 DEF SaveAtomic

LEMMA RawInitInv == RawInit => RawInv
<1> SUFFICES ASSUME RawInit PROVE RawInv
  OBVIOUS
<1>1. RawTypeOK
  BY RawFilesAssumption DEF RawInit, RawTypeOK, SourceDay
<1>2. RawShape /\ JobIsNewest /\ SavedOnPage /\ GreatestIsNewest /\ BuiltFromLast
  BY DEF RawInit, RawShape, JobIsNewest, SavedOnPage, GreatestIsNewest, BuiltFromLast, Saving,
         JobAt
<1> QED
  BY <1>1, <1>2 DEF RawInv

LEMMA RawStep == RawInv /\ [RawNext]_rawVars => RawInv'
<1> SUFFICES ASSUME RawInv, [RawNext]_rawVars PROVE RawInv'
  OBVIOUS
<1>1. CASE UNCHANGED rawVars
  BY <1>1 DEF rawVars, RawInv, RawTypeOK, RawShape, JobIsNewest, SavedOnPage, GreatestIsNewest,
              BuiltFromLast, Saving, JobAt, IsLatest, IsHistorical, Frontier, InRange,
              Published, LatestFile
<1> QED
  BY <1>1, SourceKeepsInv, JobKeepsInv, FetchKeepsInv, SaveKeepsInv, BuildKeepsInv DEF RawNext

\* The files, the job and what is known of a source are of their types.
THEOREM RawTypeCorrect == RawSpec => []RawTypeOK
<1>1. RawInv => RawTypeOK
  BY DEF RawInv
<1> QED
  BY <1>1, RawInitInv, RawStep, PTL DEF RawSpec

\* Whatever files earlier runs and bootstraps left, a table goes at least to the newest day
\* that the latest mode has saved, unless the file read was cut off.
THEOREM NewestRowsAreRead == RawSpec => []LatestIsRead
<1>1. RawInv => LatestIsRead
  <2> SUFFICES ASSUME RawInv, JobAt("built")
               PROVE  (rawFiles # {} /\ LatestFile.torn) \/ Newest(known) >= saved
    BY DEF LatestIsRead
  <2>1. saved \in Nat
    BY RawFilesAssumption DEF RawInv, RawTypeOK
  <2>2. CASE saved = 0
    <3>1. Newest(known) \in Nat
      BY NewestOf DEF RawInv, RawTypeOK
    <3> QED
      BY <2>2, <3>1
  <2>3. CASE saved # 0
    <3>1. PICK f \in rawFiles : IsLatest(f.name)
      BY <2>3 DEF RawInv, GreatestIsNewest
    <3>2. LatestFile \in rawFiles /\ IsGreatest(LatestFile) /\ known = LatestFile.days
      BY <3>1, LastName DEF RawInv, BuiltFromLast
    <3>3. \A g \in rawFiles : g.name[1] \in Int
      BY RawFilesAssumption DEF RawInv, RawShape, RawFile, FileName, HistoryFrom
    <3>4. \A g \in rawFiles : g.name[1] <= LatestFile.name[1]
      BY <3>2, <3>3 DEF IsGreatest, Precedes
    <3>5. IsLatest(LatestFile.name)
      BY <3>1, <3>2, <3>3, <3>4, RawFilesAssumption
         DEF RawInv, RawShape, IsLatest, IsHistorical, HistoryFrom
    <3>6. LatestFile.torn \/ saved <= Newest(LatestFile.days)
      BY <3>2, <3>4, <3>5 DEF RawInv, GreatestIsNewest
    <3>7. Newest(known) \in Nat
      BY NewestOf DEF RawInv, RawTypeOK
    <3> QED
      BY <2>1, <3>1, <3>2, <3>6, <3>7
  <2> QED
    BY <2>2, <2>3
<1> QED
  BY <1>1, RawInitInv, RawStep, PTL DEF RawSpec

-----------------------------------------------------------------------------
(***************************************************************************)
(* The formula of the index.                                               *)
(***************************************************************************)
FormulaSpec == FormulaInit /\ [][FormulaNext]_formulaVars

(***************************************************************************)
(* Arithmetic.                                                             *)
(***************************************************************************)
LEMMA ClipBounds ==
  ASSUME NEW v \in Int, NEW low \in Int, NEW high \in Int, low <= high
  PROVE  Clip(v, low, high) \in Int /\ low <= Clip(v, low, high) /\ Clip(v, low, high) <= high
  BY DEF Clip

LEMMA MinusZero == -0 = 0
<1>1. \A v \in Int : -v = 0 - v
  OBVIOUS
<1>2. 0 \in Int /\ 0 - 0 = 0
  OBVIOUS
<1>3. -0 = 0 - 0
  BY <1>1, <1>2, Zenon
<1> QED
  BY <1>2, <1>3, Zenon

LEMMA Monotone ==
  ASSUME NEW x \in Int, NEW y \in Int, NEW k \in Int, k > 0, x <= y
  PROVE  x * k <= y * k
<1>1. (y - x) * k >= 0
  OBVIOUS
<1>2. (y - x) * k = y * k - x * k
  OBVIOUS
<1> QED
  BY <1>1, <1>2

LEMMA SignOfDifference ==
  ASSUME NEW x \in Int, NEW y \in Int, NEW k \in Int, k > 0
  PROVE  /\ x * k * 115 - y * k * 115 > 0 => x > y
         /\ x * k * 115 - y * k * 115 < 0 => x < y
<1>1. x * k \in Int /\ y * k \in Int
  OBVIOUS
<1>2. x <= y => x * k <= y * k
  BY Monotone
<1>3. y <= x => y * k <= x * k
  BY Monotone
<1> DEFINE a == x * k
           b == y * k
<1>4. a \in Int /\ b \in Int /\ (x <= y => a <= b) /\ (y <= x => b <= a)
  BY <1>1, <1>2, <1>3
<1>5. (a * 115 - b * 115 > 0 => x > y) /\ (a * 115 - b * 115 < 0 => x < y)
  <2> HIDE DEF a, b
  <2> QED
    BY <1>4
<1> QED
  BY <1>5

LEMMA ProductSign ==
  ASSUME NEW x \in Int, NEW y \in Int
  PROVE  /\ x * y > 0 <=> (x > 0 /\ y > 0) \/ (x < 0 /\ y < 0)
         /\ x * y < 0 <=> (x > 0 /\ y < 0) \/ (x < 0 /\ y > 0)
  OBVIOUS

(***************************************************************************)
(* The stress as a sum of one part for each feature.                       *)
(***************************************************************************)
Summand == Feature \ {Season}
Part(f, v) ==
  CASE f = "M1_spread" -> 120 * Stress(v)
    [] f = "M1_RUONIA" -> 60 * Stress(v)
    [] f = "M1_EndOfPeriod" -> 20 * FlagBonus(v, 20)
    [] f = "M2_cover" -> 135 * Stress(v)
    [] f = "M2_rate_spread" -> 105 * Stress(v)
    [] f = "M2_repo_volume" -> 30 * Stress(v)
    [] f = "M2_Demand" -> 30 * FlagBonus(v, 20)
    [] f = "M3_cover" -> 110 * InverseStress(v)
    [] f = "M3_yield_spread" -> 40 * Stress(v)
    [] f = "M3_Nedospros" -> 30 * FlagBonus(v, 20)
    [] f = "M3_Perespros" -> (-20) * FlagBonus(v, 10)
    [] f = "M5_CBR" -> 180 * InverseStress(v)
    [] f = "M5_Roskazna" -> 75 * InverseStress(v)
    [] f = "M5_Budget_Drain" -> 45 * FlagBonus(v, 20)

Weighted(part) ==
  part["M1_spread"] + part["M1_RUONIA"] + part["M1_EndOfPeriod"] + part["M2_cover"]
    + part["M2_rate_spread"] + part["M2_repo_volume"] + part["M2_Demand"]
    + part["M3_cover"] + part["M3_yield_spread"] + part["M3_Nedospros"]
    + part["M3_Perespros"] + part["M5_CBR"] + part["M5_Roskazna"]
    + part["M5_Budget_Drain"]

LEMMA SummandNames ==
  {"M1_spread", "M1_RUONIA", "M1_EndOfPeriod", "M2_cover", "M2_rate_spread",
   "M2_repo_volume", "M2_Demand", "M3_cover", "M3_yield_spread", "M3_Nedospros",
   "M3_Perespros", "M5_CBR", "M5_Roskazna", "M5_Budget_Drain"}
    = Summand
  BY DEF Summand, Feature, DirectScore, InverseScore, Flag, Season

LEMMA WeightedIsNumber ==
  ASSUME NEW part, \A f \in Summand : part[f] \in Int
  PROVE  Weighted(part) \in Int
<1>1. /\ part["M1_spread"] \in Int /\ part["M1_RUONIA"] \in Int
      /\ part["M1_EndOfPeriod"] \in Int /\ part["M2_cover"] \in Int
      /\ part["M2_rate_spread"] \in Int /\ part["M2_repo_volume"] \in Int
      /\ part["M2_Demand"] \in Int /\ part["M3_cover"] \in Int
      /\ part["M3_yield_spread"] \in Int /\ part["M3_Nedospros"] \in Int
      /\ part["M3_Perespros"] \in Int /\ part["M5_CBR"] \in Int
      /\ part["M5_Roskazna"] \in Int /\ part["M5_Budget_Drain"] \in Int
  BY SummandNames
<1> QED
  BY <1>1 DEF Weighted

LEMMA PartIsNumber == ASSUME NEW f \in Summand, NEW v \in Int PROVE Part(f, v) \in Int
<1>1. Stress(v) \in Int /\ InverseStress(v) \in Int
  BY DEF Stress, InverseStress, Clip, Cap
<1>2. FlagBonus(v, 20) \in Int /\ FlagBonus(v, 10) \in Int
  BY DEF FlagBonus
<1> QED
  BY <1>1, <1>2 DEF Part, Summand, Feature, DirectScore, InverseScore, Flag, Season

LEMMA StressIsSum ==
  ASSUME NEW s \in [Feature -> Int], NEW part, part = [f \in Summand |-> Part(f, s[f])]
  PROVE  BaseStress(s) = Weighted(part)
<1>1. \A v \in Int : /\ Stress(v) \in Int /\ InverseStress(v) \in Int
                     /\ FlagBonus(v, 20) \in Int /\ FlagBonus(v, 10) \in Int
  BY DEF Stress, InverseStress, FlagBonus, Clip, Cap
<1>2. \A f \in Summand : s[f] \in Int
  BY DEF Summand
<1> USE <1>1, <1>2 DEF Summand, Feature, DirectScore, InverseScore, Flag, Season
<1>3. 2 * M1(s) = part["M1_spread"] + part["M1_RUONIA"] + part["M1_EndOfPeriod"]
  BY DEF M1, Part
<1>4. 3 * M2(s) = part["M2_cover"] + part["M2_rate_spread"] + part["M2_repo_volume"]
                  + part["M2_Demand"]
  BY DEF M2, Part
<1>5. 2 * M3(s) = part["M3_cover"] + part["M3_yield_spread"] + part["M3_Nedospros"]
                  + part["M3_Perespros"]
  BY DEF M3, Part
<1>6. 3 * M5(s) = part["M5_CBR"] + part["M5_Roskazna"] + part["M5_Budget_Drain"]
  BY DEF M5, Part
<1>7. M1(s) \in Int /\ M2(s) \in Int /\ M3(s) \in Int /\ M5(s) \in Int
  BY DEF M1, M2, M3, M5
<1> QED
  <2> HIDE DEF Summand, Feature, DirectScore, InverseScore, Flag, Season
  <2>1. \A f \in Summand : part[f] \in Int
    BY PartIsNumber
  <2>2. /\ part["M1_spread"] \in Int /\ part["M1_RUONIA"] \in Int
        /\ part["M1_EndOfPeriod"] \in Int /\ part["M2_cover"] \in Int
        /\ part["M2_rate_spread"] \in Int /\ part["M2_repo_volume"] \in Int
        /\ part["M2_Demand"] \in Int /\ part["M3_cover"] \in Int
        /\ part["M3_yield_spread"] \in Int /\ part["M3_Nedospros"] \in Int
        /\ part["M3_Perespros"] \in Int /\ part["M5_CBR"] \in Int
        /\ part["M5_Roskazna"] \in Int /\ part["M5_Budget_Drain"] \in Int
    BY <2>1, SummandNames
  <2> QED
    BY <1>3, <1>4, <1>5, <1>6, <1>7, <2>2 DEF BaseStress, Weighted

LEMMA StressIsNumber == ASSUME NEW s \in [Feature -> Int] PROVE BaseStress(s) \in Int
<1> DEFINE part == [f \in Summand |-> Part(f, s[f])]
<1>1. \A f \in Summand : part[f] \in Int
  BY PartIsNumber DEF Summand
<1>2. BaseStress(s) = Weighted(part)
  BY StressIsSum
<1> QED
  BY <1>1, <1>2, WeightedIsNumber

\* Two snapshots that differ in one summand differ by what it adds.
LEMMA OneSummand ==
  ASSUME NEW s \in [Feature -> Int], NEW b \in [Feature -> Int], NEW f \in Summand,
         \A g \in Feature : g # f => b[g] = s[g]
  PROVE  BaseStress(s) - BaseStress(b) = Part(f, s[f]) - Part(f, b[f])
<1> DEFINE part == [g \in Summand |-> Part(g, s[g])]
           rest == [g \in Summand |-> Part(g, b[g])]
<1>1. \A g \in Summand : part[g] \in Int /\ rest[g] \in Int
  BY PartIsNumber DEF Summand
<1>2. \A g \in Summand : g # f => rest[g] = part[g]
  BY DEF Summand
<1>3. part[f] = Part(f, s[f]) /\ rest[f] = Part(f, b[f])
  OBVIOUS
<1>4. BaseStress(s) = Weighted(part) /\ BaseStress(b) = Weighted(rest)
  BY StressIsSum
<1>5. /\ f = "M1_spread" \/ rest["M1_spread"] = part["M1_spread"]
      /\ f = "M1_RUONIA" \/ rest["M1_RUONIA"] = part["M1_RUONIA"]
      /\ f = "M1_EndOfPeriod" \/ rest["M1_EndOfPeriod"] = part["M1_EndOfPeriod"]
      /\ f = "M2_cover" \/ rest["M2_cover"] = part["M2_cover"]
      /\ f = "M2_rate_spread" \/ rest["M2_rate_spread"] = part["M2_rate_spread"]
      /\ f = "M2_repo_volume" \/ rest["M2_repo_volume"] = part["M2_repo_volume"]
      /\ f = "M2_Demand" \/ rest["M2_Demand"] = part["M2_Demand"]
      /\ f = "M3_cover" \/ rest["M3_cover"] = part["M3_cover"]
      /\ f = "M3_yield_spread" \/ rest["M3_yield_spread"] = part["M3_yield_spread"]
      /\ f = "M3_Nedospros" \/ rest["M3_Nedospros"] = part["M3_Nedospros"]
      /\ f = "M3_Perespros" \/ rest["M3_Perespros"] = part["M3_Perespros"]
      /\ f = "M5_CBR" \/ rest["M5_CBR"] = part["M5_CBR"]
      /\ f = "M5_Roskazna" \/ rest["M5_Roskazna"] = part["M5_Roskazna"]
      /\ f = "M5_Budget_Drain" \/ rest["M5_Budget_Drain"] = part["M5_Budget_Drain"]
  BY <1>2, SummandNames
<1>6. /\ part["M1_spread"] \in Int /\ part["M1_RUONIA"] \in Int
      /\ part["M1_EndOfPeriod"] \in Int /\ part["M2_cover"] \in Int
      /\ part["M2_rate_spread"] \in Int /\ part["M2_repo_volume"] \in Int
      /\ part["M2_Demand"] \in Int /\ part["M3_cover"] \in Int
      /\ part["M3_yield_spread"] \in Int /\ part["M3_Nedospros"] \in Int
      /\ part["M3_Perespros"] \in Int /\ part["M5_CBR"] \in Int
      /\ part["M5_Roskazna"] \in Int /\ part["M5_Budget_Drain"] \in Int
      /\ rest["M1_spread"] \in Int /\ rest["M1_RUONIA"] \in Int
      /\ rest["M1_EndOfPeriod"] \in Int /\ rest["M2_cover"] \in Int
      /\ rest["M2_rate_spread"] \in Int /\ rest["M2_repo_volume"] \in Int
      /\ rest["M2_Demand"] \in Int /\ rest["M3_cover"] \in Int
      /\ rest["M3_yield_spread"] \in Int /\ rest["M3_Nedospros"] \in Int
      /\ rest["M3_Perespros"] \in Int /\ rest["M5_CBR"] \in Int
      /\ rest["M5_Roskazna"] \in Int /\ rest["M5_Budget_Drain"] \in Int
  BY <1>1, SummandNames
<1>7. BaseStress(s) - BaseStress(b) = part[f] - rest[f]
  <2> HIDE DEF part, rest
  <2>0. Weighted(part) - Weighted(rest) =
          (part["M1_spread"] - rest["M1_spread"]) + (part["M1_RUONIA"] - rest["M1_RUONIA"])
          + (part["M1_EndOfPeriod"] - rest["M1_EndOfPeriod"])
          + (part["M2_cover"] - rest["M2_cover"])
          + (part["M2_rate_spread"] - rest["M2_rate_spread"])
          + (part["M2_repo_volume"] - rest["M2_repo_volume"])
          + (part["M2_Demand"] - rest["M2_Demand"]) + (part["M3_cover"] - rest["M3_cover"])
          + (part["M3_yield_spread"] - rest["M3_yield_spread"])
          + (part["M3_Nedospros"] - rest["M3_Nedospros"])
          + (part["M3_Perespros"] - rest["M3_Perespros"])
          + (part["M5_CBR"] - rest["M5_CBR"]) + (part["M5_Roskazna"] - rest["M5_Roskazna"])
          + (part["M5_Budget_Drain"] - rest["M5_Budget_Drain"])
    BY <1>6 DEF Weighted
  <2>1. CASE f = "M1_spread"
    BY <1>4, <1>5, <1>6, <2>0, <2>1
  <2>2. CASE f = "M1_RUONIA"
    BY <1>4, <1>5, <1>6, <2>0, <2>2
  <2>3. CASE f = "M1_EndOfPeriod"
    BY <1>4, <1>5, <1>6, <2>0, <2>3
  <2>4. CASE f = "M2_cover"
    BY <1>4, <1>5, <1>6, <2>0, <2>4
  <2>5. CASE f = "M2_rate_spread"
    BY <1>4, <1>5, <1>6, <2>0, <2>5
  <2>6. CASE f = "M2_repo_volume"
    BY <1>4, <1>5, <1>6, <2>0, <2>6
  <2>7. CASE f = "M2_Demand"
    BY <1>4, <1>5, <1>6, <2>0, <2>7
  <2>8. CASE f = "M3_cover"
    BY <1>4, <1>5, <1>6, <2>0, <2>8
  <2>9. CASE f = "M3_yield_spread"
    BY <1>4, <1>5, <1>6, <2>0, <2>9
  <2>10. CASE f = "M3_Nedospros"
    BY <1>4, <1>5, <1>6, <2>0, <2>10
  <2>11. CASE f = "M3_Perespros"
    BY <1>4, <1>5, <1>6, <2>0, <2>11
  <2>12. CASE f = "M5_CBR"
    BY <1>4, <1>5, <1>6, <2>0, <2>12
  <2>13. CASE f = "M5_Roskazna"
    BY <1>4, <1>5, <1>6, <2>0, <2>13
  <2>14. CASE f = "M5_Budget_Drain"
    BY <1>4, <1>5, <1>6, <2>0, <2>14
  <2> QED
    BY <2>1, <2>2, <2>3, <2>4, <2>5, <2>6, <2>7,
       <2>8, <2>9, <2>10, <2>11, <2>12, <2>13, <2>14, SummandNames
<1> QED
  BY <1>3, <1>7

LEMMA PartSign ==
  ASSUME NEW f \in Summand, NEW v \in Int, f \in Flag => v \in {0, 1}
  PROVE  /\ Part(f, 0) = 0
         /\ Part(f, v) > 0 => \/ f \in DirectScore /\ v > 0
                              \/ f \in InverseScore /\ v < 0
                              \/ f \in Flag \ {"M3_Perespros"} /\ v = 1
         /\ Part(f, v) < 0 => f = "M3_Perespros" /\ v = 1
<1>1. /\ Stress(0) = 0 /\ Stress(v) \in Int /\ Stress(v) >= 0
      /\ Stress(v) > 0 => v > 0
  BY DEF Stress, Clip, Cap
<1>2. /\ InverseStress(0) = 0 /\ InverseStress(v) \in Int /\ InverseStress(v) >= 0
      /\ InverseStress(v) > 0 => v < 0
  <2>1. -v \in Int /\ (-v > 0 => v < 0)
    OBVIOUS
  <2> QED
    BY <2>1, MinusZero DEF InverseStress, Clip, Cap
<1>3. /\ FlagBonus(0, 20) = 0 /\ FlagBonus(0, 10) = 0
      /\ FlagBonus(v, 20) \in Int /\ FlagBonus(v, 20) >= 0 /\ (FlagBonus(v, 20) > 0 => v = 1)
      /\ FlagBonus(v, 10) \in Int /\ FlagBonus(v, 10) >= 0 /\ (FlagBonus(v, 10) > 0 => v = 1)
  BY DEF FlagBonus
<1> USE DEF Summand, Feature, DirectScore, InverseScore, Flag, Season
<1>4. CASE f \in DirectScore
  BY <1>1, <1>4 DEF Part
<1>5. CASE f \in InverseScore
  BY <1>2, <1>5 DEF Part
<1>6. CASE f \in Flag
  BY <1>3, <1>6 DEF Part
<1> QED
  BY <1>4, <1>5, <1>6

(***************************************************************************)
(* What leaving out one feature does to the formula.                       *)
(***************************************************************************)
Without(s, f) == [s EXCEPT ![f] = Baseline(f)]
Effect(s, f) == AdjustedStress(s) - AdjustedStress(Without(s, f))

LEMMA WithoutOne ==
  ASSUME NEW s \in Snapshot, NEW f \in Feature
  PROVE  /\ s \in [Feature -> Int]
         /\ Without(s, f) \in [Feature -> Int]
         /\ Without(s, f)[f] = Baseline(f)
         /\ \A g \in Feature : g # f => Without(s, f)[g] = s[g]
  BY DEF Snapshot, Without, Baseline

LEMMA SeasonBounds ==
  ASSUME NEW s \in [Feature -> Int]
  PROVE  SeasonalFactor(s) \in 80..125
  BY DEF SeasonalFactor, Clip, Feature

\* A score or flag is named with the sign of what it adds.
LEMMA SummandEffect ==
  ASSUME NEW s \in Snapshot, NEW f \in Summand
  PROVE  /\ Effect(s, f) > 0 => Pushes(s, f)
         /\ Effect(s, f) < 0 => Relieves(s, f)
<1> DEFINE b == Without(s, f)
<1>1. f \in Feature /\ f # Season /\ Season \in Feature /\ Baseline(f) = 0
  BY DEF Summand, Baseline, Feature
<1>2. /\ s \in [Feature -> Int] /\ b \in [Feature -> Int] /\ b[f] = 0
      /\ \A g \in Feature : g # f => b[g] = s[g]
  BY <1>1, WithoutOne
<1>3. s[f] \in Int /\ (f \in Flag => s[f] \in {0, 1})
  BY <1>1, <1>2 DEF Snapshot, ValueOf
<1>4. SeasonalFactor(b) = SeasonalFactor(s) /\ SeasonalFactor(s) \in 80..125
  BY <1>1, <1>2, SeasonBounds DEF SeasonalFactor
<1>5. BaseStress(s) \in Int /\ BaseStress(b) \in Int
  BY <1>2, StressIsNumber
<1>6. BaseStress(s) - BaseStress(b) = Part(f, s[f])
  <2>1. BaseStress(s) - BaseStress(b) = Part(f, s[f]) - Part(f, 0)
    BY <1>2, OneSummand
  <2>2. Part(f, 0) = 0 /\ Part(f, s[f]) \in Int
    BY <1>3, PartSign, PartIsNumber
  <2> QED
    BY <2>1, <2>2
<1>7. /\ Effect(s, f) > 0 => BaseStress(s) > BaseStress(b)
      /\ Effect(s, f) < 0 => BaseStress(s) < BaseStress(b)
  <2> DEFINE x == BaseStress(s)
             y == BaseStress(b)
             k == SeasonalFactor(s)
  <2>1. Effect(s, f) = x * k * 115 - y * k * 115
    BY <1>4 DEF Effect, AdjustedStress
  <2>2. x \in Int /\ y \in Int /\ k \in Int /\ k > 0
    BY <1>4, <1>5
  <2> HIDE DEF x, y, k
  <2>3. /\ x * k * 115 - y * k * 115 > 0 => x > y
        /\ x * k * 115 - y * k * 115 < 0 => x < y
    BY <2>2, SignOfDifference
  <2>4. (Effect(s, f) > 0 => x > y) /\ (Effect(s, f) < 0 => x < y)
    BY <2>1, <2>3
  <2> QED
    BY <2>4 DEF x, y
<1>8. /\ Effect(s, f) > 0 => Part(f, s[f]) > 0
      /\ Effect(s, f) < 0 => Part(f, s[f]) < 0
  BY <1>5, <1>6, <1>7
<1> QED
  BY <1>3, <1>8, PartSign DEF Pushes, Relieves

\* The season is named with the sign of what it amplifies.
LEMMA SeasonEffect ==
  ASSUME NEW s \in Snapshot
  PROVE  /\ Effect(s, Season) > 0 => Pushes(s, Season)
         /\ Effect(s, Season) < 0 => Relieves(s, Season)
<1> DEFINE b == Without(s, Season)
           x == BaseStress(s)
           k == SeasonalFactor(s)
<1>1. Season \in Feature /\ Baseline(Season) = 100
  BY DEF Feature, Baseline
<1>2. /\ s \in [Feature -> Int] /\ b \in [Feature -> Int] /\ b[Season] = 100
      /\ \A g \in Feature : g # Season => b[g] = s[g]
  BY <1>1, WithoutOne
<1>3. BaseStress(b) = x
  BY <1>2, SummandNames DEF BaseStress, M1, M2, M3, M5, Summand
<1>4. SeasonalFactor(b) = 100
  BY <1>2 DEF SeasonalFactor, Clip
<1>5. /\ s[Season] \in Int /\ k \in Int
      /\ k > 100 => s[Season] > 100
      /\ k < 100 => s[Season] < 100
  BY <1>1, <1>2 DEF SeasonalFactor, Clip
<1>6. x \in Int
  BY <1>2, StressIsNumber
<1>7. Effect(s, Season) = x * k * 115 - x * 100 * 115
  BY <1>3, <1>4 DEF Effect, AdjustedStress
<1> DEFINE v == s[Season]
<1>8. /\ Effect(s, Season) > 0 => (v - 100) * x > 0
      /\ Effect(s, Season) < 0 => (v - 100) * x < 0
  <2>1. v \in Int /\ k \in Int /\ x \in Int /\ (k > 100 => v > 100) /\ (k < 100 => v < 100)
    BY <1>5, <1>6
  <2> HIDE DEF v, k, x
  <2>2. x * k * 115 - x * 100 * 115 = 115 * (x * (k - 100))
    BY <2>1
  <2>3. x * (k - 100) \in Int
    BY <2>1
  <2>4. /\ Effect(s, Season) > 0 => x * (k - 100) > 0
        /\ Effect(s, Season) < 0 => x * (k - 100) < 0
    BY <1>7, <2>2, <2>3
  <2>5. /\ x * (k - 100) > 0 => (x > 0 /\ k - 100 > 0) \/ (x < 0 /\ k - 100 < 0)
        /\ x * (k - 100) < 0 => (x > 0 /\ k - 100 < 0) \/ (x < 0 /\ k - 100 > 0)
    BY <2>1, ProductSign
  <2>6. /\ (v - 100 > 0 /\ x > 0) \/ (v - 100 < 0 /\ x < 0) => (v - 100) * x > 0
        /\ (v - 100 > 0 /\ x < 0) \/ (v - 100 < 0 /\ x > 0) => (v - 100) * x < 0
    BY <2>1, ProductSign
  <2> QED
    BY <2>1, <2>4, <2>5, <2>6
<1> QED
  BY <1>8 DEF Pushes, Relieves

LEMMA EffectExplained ==
  ASSUME NEW s \in Snapshot, NEW f \in Feature
  PROVE  /\ Effect(s, f) > 0 => Pushes(s, f)
         /\ Effect(s, f) < 0 => Relieves(s, f)
  BY SummandEffect, SeasonEffect DEF Summand

(***************************************************************************)
(* The invariant: what a formula result was calculated from is still the   *)
(* snapshot, and what the history shows is what the model remembers.       *)
(***************************************************************************)
Remembers == memory # NoIndex => model
Explained ==
  result.version = "formula" =>
    \A f \in DOMAIN result.shap : f \in Feature /\ result.shap[f] = Effect(snapshot, f)
Remembered == shown # NoIndex => shown = memory /\ result.index = memory

FormulaInv == snapshot \in Snapshot /\ Remembers /\ Explained /\ Remembered

\* A result of the formula is explained by the effects of the features.
LEMMA OutcomeExplained ==
  ASSUME NEW m, NEW s, m # NoIndex => model, Outcome(m, s).version = "formula"
  PROVE  \A f \in DOMAIN Outcome(m, s).shap :
           f \in Feature /\ Outcome(m, s).shap[f] = Effect(s, f)
<1>1. ~model
  BY DEF Outcome
<1>2. m = NoIndex
  BY <1>1
<1>3. \A t : Index(m, t) = AdjustedStress(t)
  BY <1>1, <1>2 DEF Index, LookupLsiByDate, PredictForSnapshot
<1>4. \A f : ShapValue(m, s, f) = Effect(s, f)
  BY <1>3 DEF ShapValue, Effect, Without
<1> DEFINE listed == {f \in Feature : ShapValue(m, s, f) # 0}
<1>5. ShapValues(m, s) = [f \in listed |-> ShapValue(m, s, f)]
  BY DEF ShapValues
<1> QED
  BY <1>4, <1>5 DEF Outcome

LEMMA OutcomeRemembers ==
  ASSUME NEW m, NEW s, m # NoIndex
  PROVE  Outcome(m, s).index = m
  BY DEF Outcome, Index, LookupLsiByDate

LEMMA FormulaInitInv == FormulaInit => FormulaInv
<1> SUFFICES ASSUME FormulaInit
             PROVE  FormulaInv
  OBVIOUS
<1>1. snapshot \in Snapshot
  BY FormulaAssumption DEF FormulaInit, Snapshot, ValueOf, Baseline
<1>2. Remembers
  BY DEF FormulaInit, Remembers
<1>3. result = Outcome(memory, snapshot) /\ shown = NoIndex
  BY DEF FormulaInit
<1>4. Explained
  BY <1>2, <1>3, OutcomeExplained DEF Explained, Remembers
<1> QED
  BY <1>1, <1>2, <1>3, <1>4 DEF FormulaInv, Remembered

LEMMA CalculateInv ==
  ASSUME NEW f \in Feature, NEW v \in ValueOf(f), FormulaInv, Calculate(f, v)
  PROVE  FormulaInv'
<1>1. /\ snapshot \in Snapshot /\ Remembers /\ Remembered
      /\ snapshot' = [snapshot EXCEPT ![f] = v]
      /\ result' = Outcome(memory, snapshot')
      /\ UNCHANGED <<model, memory, shown>>
  BY DEF FormulaInv, Calculate
<1>2. v \in Int
  BY FormulaAssumption DEF ValueOf
<1>3. snapshot' \in Snapshot
  BY <1>1, <1>2 DEF Snapshot
<1>4. Explained'
  BY <1>1, OutcomeExplained DEF Explained, Remembers
<1>5. Remembered'
  BY <1>1, OutcomeRemembers DEF Remembered
<1> QED
  BY <1>1, <1>3, <1>4, <1>5 DEF FormulaInv, Remembers

LEMMA CalculateHistoryInv == ASSUME FormulaInv, CalculateHistory PROVE FormulaInv'
<1>1. /\ snapshot \in Snapshot /\ Remembers
      /\ memory' \in PredictLsiForWideDf
      /\ result' = Outcome(memory', snapshot)
      /\ shown' = memory'
      /\ UNCHANGED <<snapshot, model>>
  BY DEF FormulaInv, CalculateHistory
<1>2. memory' # NoIndex => model
  BY <1>1 DEF PredictLsiForWideDf
<1>3. Explained'
  BY <1>1, <1>2, OutcomeExplained DEF Explained
<1>4. Remembered'
  BY <1>1, OutcomeRemembers DEF Remembered
<1> QED
  BY <1>1, <1>2, <1>3, <1>4 DEF FormulaInv, Remembers

LEMMA LoadModelInv == ASSUME FormulaInv, LoadModel PROVE FormulaInv'
<1>1. /\ snapshot \in Snapshot /\ Explained
      /\ memory' \in IF model' THEN {DayIndex, NoIndex} ELSE {NoIndex}
      /\ shown' = NoIndex
      /\ UNCHANGED <<snapshot, result>>
  BY DEF FormulaInv, LoadModel
<1>2. Remembers'
  BY <1>1 DEF Remembers
<1> QED
  BY <1>1, <1>2 DEF FormulaInv, Explained, Remembered, Effect, Without

LEMMA FormulaStepInv == FormulaInv /\ [FormulaNext]_formulaVars => FormulaInv'
<1> SUFFICES ASSUME FormulaInv, [FormulaNext]_formulaVars
             PROVE  FormulaInv'
  OBVIOUS
<1>1. CASE UNCHANGED formulaVars
  BY <1>1 DEF formulaVars, FormulaInv, Remembers, Explained, Remembered, Effect, Without
<1> QED
  BY <1>1, CalculateInv, CalculateHistoryInv, LoadModelInv DEF FormulaNext

\* The variables of the formula are of their types, for a forest whose score of a day is a
\* number: what the history remembers is an index from 0 to 100, and only with a model.
THEOREM FormulaTypes ==
  ASSUME \A s \in Snapshot : PredictWide(s) \in Int
  PROVE  FormulaSpec => []FormulaTypeOK
<1>1. \A m, s : /\ DOMAIN Outcome(m, s).shap \subseteq Feature
                /\ Outcome(m, s).version \in {"iso", "formula"}
  BY DEF Outcome, ShapValues
<1>2. FormulaInit => FormulaTypeOK
  <2> SUFFICES ASSUME FormulaInit
               PROVE  FormulaTypeOK
    OBVIOUS
  <2>1. snapshot \in Snapshot
    BY FormulaInitInv DEF FormulaInv
  <2> QED
    BY <1>1, <2>1, FormulaAssumption DEF FormulaInit, FormulaTypeOK
<1>3. FormulaInv /\ FormulaTypeOK /\ [FormulaNext]_formulaVars => FormulaTypeOK'
  <2> SUFFICES ASSUME FormulaInv, FormulaTypeOK, [FormulaNext]_formulaVars
               PROVE  FormulaTypeOK'
    OBVIOUS
  <2>1. snapshot' \in Snapshot
    BY FormulaStepInv DEF FormulaInv
  <2>2. ASSUME Changes
        PROVE  changes' \in 0..MaxChanges
    BY <2>2, FormulaAssumption DEF Changes, FormulaTypeOK
  <2>3. ASSUME NEW f, NEW v, Calculate(f, v)
        PROVE  FormulaTypeOK'
    <3>1. Changes /\ result' = Outcome(memory, snapshot') /\ UNCHANGED <<model, memory, shown>>
      BY <2>3 DEF Calculate
    <3> QED
      BY <1>1, <2>1, <2>2, <3>1 DEF FormulaTypeOK
  <2>4. CASE CalculateHistory
    <3>1. /\ Changes /\ memory' \in PredictLsiForWideDf
          /\ result' = Outcome(memory', snapshot) /\ shown' = memory' /\ model' = model
      BY <2>4 DEF CalculateHistory
    <3>2. Clip(PredictWide(snapshot), 0, 100) \in 0..100
      <4>1. \A v \in Int : Clip(v, 0, 100) \in 0..100
        BY DEF Clip
      <4>2. PredictWide(snapshot) \in Int
        BY DEF FormulaTypeOK
      <4> QED
        BY <4>1, <4>2
    <3>3. memory' \in (0..100) \union {NoIndex} /\ (memory' # NoIndex => model)
      BY <3>1, <3>2 DEF FormulaTypeOK, PredictLsiForWideDf
    <3> QED
      BY <1>1, <2>1, <2>2, <3>1, <3>3 DEF FormulaTypeOK
  <2>5. CASE LoadModel
    <3>1. /\ Changes /\ model' \in BOOLEAN
          /\ memory' \in IF model' THEN {DayIndex, NoIndex} ELSE {NoIndex}
          /\ shown' = NoIndex /\ result' = result
      BY <2>5 DEF LoadModel
    <3>2. memory' \in (0..100) \union {NoIndex} /\ (memory' # NoIndex => model')
      BY <3>1, FormulaAssumption
    <3> QED
      BY <2>1, <2>2, <3>1, <3>2 DEF FormulaTypeOK
  <2>6. CASE UNCHANGED formulaVars
    BY <2>6 DEF formulaVars, FormulaTypeOK
  <2> QED
    BY <2>3, <2>4, <2>5, <2>6 DEF FormulaNext
<1> QED
  BY FormulaInitInv, FormulaStepInv, <1>2, <1>3, PTL DEF FormulaSpec

\* The formula explains itself: a feature is named as raising the index only when it shows
\* stress and as lowering it only when it shows relief (calculate_formula_shap).
THEOREM ExplanationsFollow == FormulaSpec => []ShapFollowsStress
<1>1. FormulaInv => ShapFollowsStress
  BY EffectExplained DEF FormulaInv, Explained, ShapFollowsStress
<1> QED
  BY FormulaInitInv, FormulaStepInv, <1>1, PTL DEF FormulaSpec

\* A day that the history shows keeps its index under the model that showed it
\* (predict_lsi_for_wide_df, lookup_lsi_by_date).
THEOREM HistoryStandsAlways == FormulaSpec => []HistoryStands
<1>1. FormulaInv => HistoryStands
  BY DEF FormulaInv, Remembered, HistoryStands
<1> QED
  BY FormulaInitInv, FormulaStepInv, <1>1, PTL DEF FormulaSpec

-----------------------------------------------------------------------------
(***************************************************************************)
(* The artifacts of the isolation forest.                                  *)
(***************************************************************************)
ArtifactsSpec == ArtifactsInit /\ [][ArtifactsNext]_artifactVars

\* Only a process that serves has finished a startup or loaded anything.
InService == /\ trained => process = "serving"
             /\ loaded # NotLoaded => process = "serving"

\* A training has written the files before its position, of the version it read.
Dumped ==
  process \in {"fitting", "dumping"} =>
    \A i \in DOMAIN DumpOrder :
      i < position => Exists(DumpOrder[i]) /\ files[DumpOrder[i]].version = fitted

\* As long as no dataset came in between, a date says of which dataset a file is.
DatesTell ==
  ~overtaken =>
    /\ process \in {"fitting", "dumping"} => fitted = dataset
    /\ \A a \in Artifact : Exists(a) => /\ files[a].time = files[a].version
                                        /\ files[a].time <= dataset

\* After a startup without an exception the files on disk are of one training.
OneTraining ==
  trained /\ ~overtaken => \A a, b \in Artifact : /\ Exists(a)
                                                  /\ files[a].version = files[b].version

\* What is in memory is what is on disk.
AsOnDisk == HasModel => \A a \in Artifact : loaded[a] = files[a].version

ArtifactsInv ==
  /\ ArtifactsTypeOK /\ InService /\ Dumped /\ DatesTell /\ OneTraining /\ AsOnDisk

LEMMA OrderOfFiles ==
  /\ Len(DumpOrder) \in Nat \ {0} /\ DOMAIN DumpOrder = 1..Len(DumpOrder)
  /\ \A i \in DOMAIN DumpOrder : DumpOrder[i] \in Artifact
  /\ \A a \in Artifact : \E i \in DOMAIN DumpOrder : a = DumpOrder[i]
<1>1. DumpOrder \in Seq(STRING) /\ DumpOrder # <<>>
  BY ArtifactsAssumption
<1>2. Len(DumpOrder) \in Nat \ {0} /\ DOMAIN DumpOrder = 1..Len(DumpOrder)
  BY <1>1
<1> QED
  BY <1>2 DEF Artifact

LEMMA ArtifactsInitInv == ArtifactsInit => ArtifactsInv
<1> SUFFICES ASSUME ArtifactsInit
             PROVE  ArtifactsInv
  OBVIOUS
<1>1. 1 \in DOMAIN DumpOrder /\ 1 \in 1..MaxVersion
  BY ArtifactsAssumption, OrderOfFiles
<1>2. ArtifactsTypeOK
  BY <1>1 DEF ArtifactsInit, ArtifactsTypeOK
<1>3. \A a \in Artifact : ~Exists(a)
  BY DEF ArtifactsInit, Exists
<1> QED
  BY <1>2, <1>3
  DEF ArtifactsInit, ArtifactsInv, InService, Dumped, DatesTell, OneTraining, AsOnDisk, HasModel

(***************************************************************************)
(* A file that is written, torn or in full.                                *)
(***************************************************************************)
LEMMA Written ==
  ASSUME NEW torn \in BOOLEAN, ArtifactsTypeOK,
         files' = [files EXCEPT ![DumpOrder[position]] =
                     [version |-> fitted, time |-> dataset, torn |-> torn]]
  PROVE  /\ files' \in [Artifact -> {NoFile} \union
                          [version : 1..MaxVersion, time : 1..MaxVersion, torn : BOOLEAN]]
         /\ files'[DumpOrder[position]] # NoFile
         /\ files'[DumpOrder[position]].version = fitted
         /\ files'[DumpOrder[position]].time = dataset
         /\ \A a \in Artifact : a # DumpOrder[position] => files'[a] = files[a]
         /\ \A i \in DOMAIN DumpOrder : i # position => files'[DumpOrder[i]] = files[DumpOrder[i]]
<1> DEFINE file == [version |-> fitted, time |-> dataset, torn |-> torn]
<1>1. DumpOrder[position] \in Artifact
  BY OrderOfFiles DEF ArtifactsTypeOK
<1>2. file \in [version : 1..MaxVersion, time : 1..MaxVersion, torn : BOOLEAN]
  BY DEF ArtifactsTypeOK
<1>3. file \in [version : Nat, time : Nat, torn : BOOLEAN]
  BY ArtifactsAssumption, <1>2
<1>4. file # NoFile
  BY ArtifactsAssumption, <1>3
<1>5. /\ files'[DumpOrder[position]] = file
      /\ \A a \in Artifact : a # DumpOrder[position] => files'[a] = files[a]
  BY <1>1 DEF ArtifactsTypeOK
<1>6. ASSUME NEW i \in DOMAIN DumpOrder, i # position
      PROVE  DumpOrder[i] # DumpOrder[position] /\ DumpOrder[i] \in Artifact
  BY <1>6, ArtifactsAssumption, OrderOfFiles DEF ArtifactsTypeOK
<1>7. files' \in [Artifact -> {NoFile} \union
                    [version : 1..MaxVersion, time : 1..MaxVersion, torn : BOOLEAN]]
  BY <1>1, <1>2 DEF ArtifactsTypeOK
<1> QED
  BY <1>4, <1>5, <1>6, <1>7

(***************************************************************************)
(* One lemma for each action that writes a file or decides by the dates.   *)
(***************************************************************************)
LEMMA SkipTrainingInv == ASSUME ArtifactsInv, SkipTraining PROVE ArtifactsInv'
<1>1. /\ ArtifactsTypeOK /\ InService /\ Dumped /\ DatesTell /\ OneTraining /\ AsOnDisk
      /\ UNCHANGED <<dataset, files, fitted, position, loaded, overtaken>>
      /\ process = "deciding" /\ process' = "serving" /\ trained'
  BY DEF ArtifactsInv, SkipTraining
<1>2. ~overtaken => \A a \in Artifact : Exists(a) /\ files[a].version = dataset
  <2> SUFFICES ASSUME ~overtaken, NEW a \in Artifact
               PROVE  Exists(a) /\ files[a].version = dataset
    OBVIOUS
  <2>1. Exists(a) /\ files[a].time >= dataset
    BY DEF SkipTraining, UpToDate
  <2>2. files[a].time = files[a].version /\ files[a].time <= dataset
    BY <1>1, <2>1 DEF DatesTell
  <2>3. files[a].time \in Int /\ dataset \in Int
    BY <1>1, <2>1 DEF ArtifactsTypeOK, Exists
  <2> QED
    BY <2>1, <2>2, <2>3
<1>3. OneTraining'
  BY <1>1, <1>2 DEF OneTraining, Exists
<1> QED
  BY <1>1, <1>3
  DEF ArtifactsInv, ArtifactsTypeOK, InService, Dumped, DatesTell, AsOnDisk, HasModel, Exists

LEMMA OpenFileInv == ASSUME ArtifactsInv, OpenFile PROVE ArtifactsInv'
<1>1. /\ ArtifactsTypeOK /\ InService /\ Dumped /\ DatesTell /\ OneTraining /\ AsOnDisk
      /\ UNCHANGED <<dataset, fitted, position, loaded, trained, overtaken>>
      /\ process = "fitting" /\ process' = "dumping"
      /\ files' = [files EXCEPT ![DumpOrder[position]] =
                     [version |-> fitted, time |-> dataset, torn |-> TRUE]]
  BY DEF ArtifactsInv, OpenFile
<1>2. ~trained /\ loaded = NotLoaded
  BY <1>1 DEF InService
<1>3. Dumped'
  BY <1>1, Written, OrderOfFiles DEF Dumped, Exists, ArtifactsTypeOK
<1>4. DatesTell'
  BY <1>1, Written DEF DatesTell, Exists, ArtifactsTypeOK
<1>5. ArtifactsTypeOK'
  BY <1>1, Written DEF ArtifactsTypeOK
<1> QED
  BY <1>1, <1>2, <1>3, <1>4, <1>5 DEF ArtifactsInv, InService, OneTraining, AsOnDisk, HasModel

LEMMA FillFileInv == ASSUME ArtifactsInv, FillFile PROVE ArtifactsInv'
<1>1. /\ ArtifactsTypeOK /\ InService /\ Dumped /\ DatesTell /\ OneTraining /\ AsOnDisk
      /\ UNCHANGED <<dataset, fitted, loaded, overtaken>>
      /\ process = "dumping"
      /\ files' = [files EXCEPT ![DumpOrder[position]] =
                     [version |-> fitted, time |-> dataset, torn |-> FALSE]]
  BY DEF ArtifactsInv, FillFile
<1>2. loaded = NotLoaded
  BY <1>1 DEF InService
<1>3. \A i \in DOMAIN DumpOrder :
        i <= position => files'[DumpOrder[i]] # NoFile /\ files'[DumpOrder[i]].version = fitted
  <2> SUFFICES ASSUME NEW i \in DOMAIN DumpOrder, i <= position
               PROVE  files'[DumpOrder[i]] # NoFile /\ files'[DumpOrder[i]].version = fitted
    OBVIOUS
  <2>1. CASE i = position
    BY <1>1, <2>1, Written
  <2>2. CASE i # position
    <3>1. i < position
      BY <1>1, <2>2, OrderOfFiles DEF ArtifactsTypeOK
    <3> QED
      BY <1>1, <2>2, <3>1, Written DEF Dumped, Exists
  <2> QED
    BY <2>1, <2>2
<1>4. DatesTell'
  <2>1. \A a \in Artifact : ~overtaken /\ files'[a] # NoFile =>
          files'[a].time = files'[a].version /\ files'[a].time <= dataset
    BY <1>1, Written DEF DatesTell, Exists, ArtifactsTypeOK
  <2> QED
    BY <1>1, <2>1 DEF DatesTell, Exists
<1>5. CASE LastFile
  <2>1. process' = "serving" /\ position' = position /\ trained' = TRUE
    BY <1>5 DEF FillFile
  <2>2. \A a \in Artifact : files'[a] # NoFile /\ files'[a].version = fitted
    BY <1>1, <1>3, <1>5, OrderOfFiles DEF LastFile
  <2>3. ArtifactsTypeOK'
    BY <1>1, <2>1, Written DEF ArtifactsTypeOK
  <2> QED
    BY <1>1, <1>2, <1>4, <2>1, <2>2, <2>3
    DEF ArtifactsInv, InService, Dumped, OneTraining, AsOnDisk, HasModel, Exists
<1>6. CASE ~LastFile
  <2>1. process' = "fitting" /\ position' = position + 1 /\ trained' = FALSE
    BY <1>6 DEF FillFile
  <2>2. position' \in DOMAIN DumpOrder
    BY <1>1, <1>6, <2>1, OrderOfFiles DEF LastFile, ArtifactsTypeOK
  <2>3. Dumped'
    BY <1>1, <1>3, <2>1, OrderOfFiles DEF Dumped, Exists, ArtifactsTypeOK
  <2>4. ArtifactsTypeOK'
    BY <1>1, <2>1, <2>2, Written DEF ArtifactsTypeOK
  <2> QED
    BY <1>1, <1>2, <1>4, <2>1, <2>3, <2>4
    DEF ArtifactsInv, InService, OneTraining, AsOnDisk, HasModel
<1> QED
  BY <1>5, <1>6

LEMMA LoadArtifactsInv == ASSUME ArtifactsInv, LoadArtifacts PROVE ArtifactsInv'
<1>1. /\ ArtifactsTypeOK /\ InService /\ Dumped /\ DatesTell /\ OneTraining /\ AsOnDisk
      /\ UNCHANGED <<dataset, files, process, fitted, position, trained, overtaken>>
      /\ process = "serving"
      /\ loaded' = IF Loadable THEN [a \in Artifact |-> files[a].version] ELSE NoModel
  BY DEF ArtifactsInv, LoadArtifacts
<1>2. loaded' \in {NotLoaded, NoModel} \union [Artifact -> 1..MaxVersion]
  BY <1>1 DEF Loadable, Exists, ArtifactsTypeOK
<1>3. AsOnDisk'
  BY <1>1 DEF AsOnDisk, HasModel
<1> QED
  BY <1>1, <1>2, <1>3
  DEF ArtifactsInv, ArtifactsTypeOK, InService, Dumped, DatesTell, OneTraining, Exists

LEMMA ArtifactsStepInv == ArtifactsInv /\ [ArtifactsNext]_artifactVars => ArtifactsInv'
<1> SUFFICES ASSUME ArtifactsInv, [ArtifactsNext]_artifactVars
             PROVE  ArtifactsInv'
  OBVIOUS
<1> USE DEF ArtifactsInv, ArtifactsTypeOK, InService, Dumped, DatesTell, OneTraining, AsOnDisk,
            HasModel, Exists
<1>1. CASE ReplaceDataset
  <2>1. dataset' \in 1..MaxVersion /\ dataset <= dataset' /\ overtaken' \in BOOLEAN
    BY <1>1, ArtifactsAssumption DEF ReplaceDataset
  <2>2. ~overtaken' => ~overtaken /\ process \notin {"fitting", "dumping"}
    BY <1>1 DEF ReplaceDataset
  <2>3. ASSUME ~overtaken, NEW a \in Artifact, Exists(a)
        PROVE  files[a].time <= dataset'
    <3>1. files[a].time \in 1..MaxVersion /\ files[a].time <= dataset
      BY <2>3
    <3> QED
      BY <2>1, <3>1, ArtifactsAssumption
  <2> QED
    BY <1>1, <2>1, <2>2, <2>3 DEF ReplaceDataset
<1>2. CASE Start
  BY <1>2 DEF Start
<1>3. CASE Crash
  BY <1>3 DEF Crash
<1>4. CASE ReadDataset
  BY <1>4, OrderOfFiles DEF ReadDataset
<1>5. CASE TrainingFails
  BY <1>5 DEF TrainingFails
<1>6. CASE UNCHANGED artifactVars
  BY <1>6 DEF artifactVars
<1> QED
  BY <1>1, <1>2, <1>3, <1>4, <1>5, <1>6,
     SkipTrainingInv, OpenFileInv, FillFileInv, LoadArtifactsInv DEF ArtifactsNext

\* The variables of the model's files and their process are of their types (ArtifactsTypeOK).
THEOREM ArtifactsTypes == ArtifactsSpec => []ArtifactsTypeOK
<1>1. ArtifactsInv => ArtifactsTypeOK
  BY DEF ArtifactsInv
<1> QED
  BY ArtifactsInitInv, ArtifactsStepInv, <1>1, PTL DEF ArtifactsSpec

\* The files a process serves with are of one training, unless its own failed or a dataset
\* was replaced under one (train_and_persist, _cached_artifacts).
THEOREM OneTrainingServes == ArtifactsSpec => []ArtifactsOfOneTraining
<1>1. ArtifactsInv => ArtifactsOfOneTraining
  BY DEF ArtifactsInv, OneTraining, AsOnDisk, ArtifactsOfOneTraining
<1> QED
  BY ArtifactsInitInv, ArtifactsStepInv, <1>1, PTL DEF ArtifactsSpec

-----------------------------------------------------------------------------
(***************************************************************************)
(* The backtest.                                                           *)
(***************************************************************************)
BacktestSpec == BacktestInit /\ [][BacktestNext]_backtestVars

\* What is about to be stored is an answer, what is about to be cached is stored.
InHand ==
  \A r \in Request : /\ step[r] = "store" => answer[r] \in Answer
                     /\ step[r] = "cache" => answer[r] \in rows

BacktestInv == BacktestTypeOK /\ InHand /\ AnswersStand

LEMMA BacktestInitInv == BacktestInit => BacktestInv
  BY BacktestAssumption
  DEF BacktestInit, BacktestInv, BacktestTypeOK, InHand, AnswersStand, Computing, Answer

(***************************************************************************)
(* Where the requests are after a step of r, and who is still computing.   *)
(***************************************************************************)
LEMMA StepOfOne ==
  ASSUME NEW r \in Request, BacktestTypeOK,
         NEW to \in {"idle", "lookup", "compute", "store", "cache"},
         step' = [step EXCEPT ![r] = to]
  PROVE  /\ step' \in [Request -> {"idle", "lookup", "compute", "store", "cache"}]
         /\ step'[r] = to /\ \A q \in Request : q # r => step'[q] = step[q]
         /\ Computing' = IF to \in {"compute", "store"} THEN Computing \union {r}
                         ELSE Computing \ {r}
  BY DEF BacktestTypeOK, Computing

LEMMA AnswerOfOne ==
  ASSUME NEW r \in Request, BacktestTypeOK, NEW a \in Answer \union {NoAnswer},
         answer' = [answer EXCEPT ![r] = a]
  PROVE  /\ answer' \in [Request -> Answer \union {NoAnswer}]
         /\ answer'[r] = a /\ \A q \in Request : q # r => answer'[q] = answer[q]
  BY DEF BacktestTypeOK

LEMMA EndsOfOne ==
  ASSUME NEW r \in Request, BacktestTypeOK, Ends(r)
  PROVE  /\ step' \in [Request -> {"idle", "lookup", "compute", "store", "cache"}]
         /\ answer' \in [Request -> Answer \union {NoAnswer}]
         /\ step'[r] = "idle" /\ Computing' = Computing \ {r}
         /\ \A q \in Request : q # r => step'[q] = step[q] /\ answer'[q] = answer[q]
  BY StepOfOne, AnswerOfOne DEF Ends

(***************************************************************************)
(* One lemma for each step of a request.                                   *)
(***************************************************************************)
LEMMA AskCacheInv == ASSUME NEW r \in Request, BacktestInv, AskCache(r) PROVE BacktestInv'
<1>1. BacktestTypeOK /\ InHand /\ AnswersStand
  BY DEF BacktestInv
<1>2. asked' \in 0..MaxAsked
  BY <1>1, BacktestAssumption DEF BacktestTypeOK, AskCache
<1>3. CASE Ends(r)
  <2>1. ~(r \in Computing)
    BY DEF AskCache, Computing
  <2> QED
    BY <1>1, <1>2, <1>3, <2>1, EndsOfOne
    DEF AskCache, BacktestInv, BacktestTypeOK, InHand, AnswersStand, Answer
<1>4. CASE Moves(r, "lookup") /\ answer' = answer
  <2>1. ~(r \in Computing)
    BY DEF AskCache, Computing
  <2>2. /\ step' \in [Request -> {"idle", "lookup", "compute", "store", "cache"}]
        /\ step'[r] = "lookup" /\ \A q \in Request : q # r => step'[q] = step[q]
        /\ Computing' = Computing \ {r}
    BY <1>1, <1>4, StepOfOne DEF Moves
  <2> QED
    BY <1>1, <1>2, <1>4, <2>1, <2>2
    DEF AskCache, BacktestInv, BacktestTypeOK, InHand, AnswersStand, Answer
<1> QED
  BY <1>3, <1>4 DEF AskCache

LEMMA LookupInv == ASSUME NEW r \in Request, BacktestInv, Lookup(r) PROVE BacktestInv'
<1>1. BacktestTypeOK /\ InHand /\ AnswersStand
  BY DEF BacktestInv
<1>2. CASE rows = {} /\ Moves(r, "compute") /\ answer' = answer
  <2>1. /\ step' \in [Request -> {"idle", "lookup", "compute", "store", "cache"}]
        /\ step'[r] = "compute" /\ \A q \in Request : q # r => step'[q] = step[q]
    BY <1>1, <1>2, StepOfOne DEF Moves
  <2> QED
    BY <1>1, <1>2, <2>1
    DEF Lookup, BacktestInv, BacktestTypeOK, InHand, AnswersStand, Answer
<1>3. CASE (\E found \in rows : answer' = [answer EXCEPT ![r] = found]) /\ Moves(r, "cache")
  <2>1. PICK found \in rows : answer' = [answer EXCEPT ![r] = found]
    BY <1>3
  <2>2. /\ step' \in [Request -> {"idle", "lookup", "compute", "store", "cache"}]
        /\ step'[r] = "cache" /\ \A q \in Request : q # r => step'[q] = step[q]
        /\ Computing' = Computing \ {r}
    BY <1>1, <1>3, StepOfOne DEF Moves
  <2>3. found \in Answer
    BY <1>1, <2>1 DEF BacktestTypeOK
  <2>4. /\ answer' \in [Request -> Answer \union {NoAnswer}]
        /\ answer'[r] = found /\ \A q \in Request : q # r => answer'[q] = answer[q]
    BY <1>1, <2>1, <2>3, AnswerOfOne
  <2> QED
    BY <1>1, <2>1, <2>2, <2>3, <2>4
    DEF Lookup, BacktestInv, BacktestTypeOK, InHand, AnswersStand, Answer
<1> QED
  BY <1>2, <1>3 DEF Lookup

LEMMA ComputeInv == ASSUME NEW r \in Request, BacktestInv, Compute(r) PROVE BacktestInv'
<1>1. BacktestTypeOK /\ InHand /\ AnswersStand
  BY DEF BacktestInv
<1>2. history' \in Answer
  BY <1>1, BacktestAssumption DEF BacktestTypeOK, Compute, Answer
<1>3. /\ answer' \in [Request -> Answer \union {NoAnswer}]
      /\ answer'[r] = history' /\ \A q \in Request : q # r => answer'[q] = answer[q]
  BY <1>1, <1>2, AnswerOfOne DEF Compute
<1>4. /\ step' \in [Request -> {"idle", "lookup", "compute", "store", "cache"}]
      /\ step'[r] = "store" /\ \A q \in Request : q # r => step'[q] = step[q]
      /\ Computing' = Computing \union {r}
  BY <1>1, StepOfOne DEF Compute, Moves
<1>5. r \in Computing
  BY DEF Compute, Computing
<1> QED
  BY <1>1, <1>2, <1>3, <1>4, <1>5
  DEF Compute, BacktestInv, BacktestTypeOK, InHand, AnswersStand, Answer

LEMMA StoreInv == ASSUME NEW r \in Request, BacktestInv, Store(r) PROVE BacktestInv'
<1>1. BacktestTypeOK /\ InHand /\ AnswersStand
  BY DEF BacktestInv
<1>2. answer[r] \in Answer /\ rows' = rows \union {answer[r]} /\ rows' \subseteq Answer
  BY <1>1 DEF Store, InHand, BacktestTypeOK
<1>3. /\ step' \in [Request -> {"idle", "lookup", "compute", "store", "cache"}]
      /\ answer' \in [Request -> Answer \union {NoAnswer}]
      /\ step'[r] = "idle" \/ (step'[r] = "cache" /\ answer'[r] = answer[r])
      /\ Computing' = Computing \ {r}
      /\ \A q \in Request : q # r => step'[q] = step[q] /\ answer'[q] = answer[q]
  <2>1. CASE Ends(r)
    BY <1>1, <2>1, EndsOfOne
  <2>2. CASE Moves(r, "cache") /\ answer' = answer
    BY <1>1, <2>2, StepOfOne DEF Moves, BacktestTypeOK
  <2> QED
    BY <2>1, <2>2 DEF Store
<1>4. Computing' \subseteq first' /\ first' \subseteq Request
  BY <1>1, <1>3 DEF Store, AnswersStand, Computing, BacktestTypeOK
<1> QED
  BY <1>1, <1>2, <1>3, <1>4
  DEF Store, BacktestInv, BacktestTypeOK, InHand, AnswersStand

LEMMA SetCacheInv == ASSUME NEW r \in Request, BacktestInv, SetCache(r) PROVE BacktestInv'
<1>1. BacktestTypeOK /\ InHand /\ AnswersStand
  BY DEF BacktestInv
<1>2. answer[r] \in rows /\ answer[r] \in Answer
  BY <1>1 DEF SetCache, InHand, BacktestTypeOK
<1>3. ~(r \in Computing)
  BY DEF SetCache, Computing
<1>4. Ends(r)
  BY DEF SetCache
<1> QED
  BY <1>1, <1>2, <1>3, <1>4, EndsOfOne
  DEF SetCache, BacktestInv, BacktestTypeOK, InHand, AnswersStand

LEMMA RequestFailsInv == ASSUME NEW r \in Request, BacktestInv, RequestFails(r) PROVE BacktestInv'
<1>1. BacktestTypeOK /\ InHand /\ AnswersStand
  BY DEF BacktestInv
<1>2. Ends(r)
  BY DEF RequestFails
<1> QED
  BY <1>1, <1>2, EndsOfOne
  DEF RequestFails, BacktestInv, BacktestTypeOK, InHand, AnswersStand

LEMMA BacktestStepInv == BacktestInv /\ [BacktestNext]_backtestVars => BacktestInv'
<1> SUFFICES ASSUME BacktestInv, [BacktestNext]_backtestVars
             PROVE  BacktestInv'
  OBVIOUS
<1>1. ASSUME NEW r \in Request,
             AskCache(r) \/ Lookup(r) \/ Compute(r) \/ Store(r) \/ SetCache(r) \/ RequestFails(r)
      PROVE  BacktestInv'
  BY <1>1, AskCacheInv, LookupInv, ComputeInv, StoreInv, SetCacheInv, RequestFailsInv
<1>2. CASE Expires
  BY <1>2 DEF Expires, BacktestInv, BacktestTypeOK, InHand, AnswersStand, Computing
<1>3. CASE NewHistory
  BY <1>3, BacktestAssumption
  DEF NewHistory, BacktestInv, BacktestTypeOK, InHand, AnswersStand, Computing, Answer
<1>4. CASE UNCHANGED backtestVars
  BY <1>4 DEF backtestVars, BacktestInv, BacktestTypeOK, InHand, AnswersStand, Computing
<1> QED
  BY <1>1, <1>2, <1>3, <1>4 DEF BacktestNext

\* The variables of the backtest are of their types (BacktestTypeOK).
THEOREM BacktestTypes == BacktestSpec => []BacktestTypeOK
<1>1. BacktestInv => BacktestTypeOK
  BY DEF BacktestInv
<1> QED
  BY BacktestInitInv, BacktestStepInv, <1>1, PTL DEF BacktestSpec

\* What has been told of an episode stands, and only those who were computing when the first
\* row was stored tell something else (GetBacktest, SaveBacktestResult).
THEOREM AnswersStandAlways == BacktestSpec => []AnswersStand
<1>1. BacktestInv => AnswersStand
  BY DEF BacktestInv
<1> QED
  BY BacktestInitInv, BacktestStepInv, <1>1, PTL DEF BacktestSpec
=============================================================================
