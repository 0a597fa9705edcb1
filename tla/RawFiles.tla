------------------------------ MODULE RawFiles ------------------------------
(***************************************************************************)
(* The raw files of one source. A parser names its file after a range of   *)
(* dates, a reader takes the last of the names: what the index knows of a  *)
(* source is what one run of its parser has saved. Runs follow from        *)
(* recalculations (latest mode, the last days) and from the bootstrap of   *)
(* the history (historical mode, everything from HistoryFrom on).          *)
(***************************************************************************)
EXTENDS Integers, FiniteSets, FiniteSetsExt

CONSTANTS
  SourceDays,  \* bound on the days
  Window,      \* days that the latest mode of RUONIA goes back
  MaxJobs,     \* bound on the recalculations and bootstraps
  NoJob        \* the ML service is idle

ASSUME RawFilesAssumption == SourceDays \in Nat \ {0} /\ Window \in Nat /\ MaxJobs \in Nat

SourceDay == 1..SourceDays
\* RLS_BOOTSTRAP_HISTORY_FROM: before any day the latest mode asks for.
HistoryFrom == -Window
\* Tax events have the years' releases they are in.
Release(d) == (d + 1) \div 2

VARIABLES
  source,  \* which source it is
  now,
  page,      \* the row of each day on its page: none, one without a value, one with
  rawFiles,  \* the files, torn where they were not written to the end
  job,     \* the job that runs
  known,   \* the days that the last build of the table found rows of
  saved,   \* the newest day that the latest mode has saved
  jobs     \* how many jobs there have been

rawVars == <<source, now, page, rawFiles, job, known, saved, jobs>>

Published(d) == page[d] # "none"
InRange(from, to) == {d \in SourceDay : from <= d /\ d <= to /\ Published(d)}
Newest(days) == Max(days \union {0})

(***************************************************************************)
(* What a run gets from the page. RUONIA keeps rows without a value. Of    *)
(* the reserves the latest row counts, if it has values; of the tax        *)
(* calendar the newest release, with the days to come.                     *)
(***************************************************************************)
WithValue(days) == {d \in days : page[d] = "value"}
RuoniaRecords(mode) == InRange(IF mode = "latest" THEN now - Window ELSE HistoryFrom, now)
ReservesRecords(mode) ==
  LET dated == InRange(HistoryFrom, now)
  IN WithValue(IF mode = "latest" THEN {d \in dated : d = Newest(dated)} ELSE dated)
TaxRecords(mode) ==
  LET events == InRange(1, SourceDays)
  IN IF mode = "latest" THEN {d \in events : Release(d) = Release(Newest(events))}
     ELSE InRange(HistoryFrom, now)
Records(mode) ==
  CASE source = "ruonia" -> RuoniaRecords(mode)
    [] source = "reserves" -> ReservesRecords(mode)
    [] source = "tax" -> TaxRecords(mode)

\* Slip: FileRange with what the parser of the reserves asks the page for, all of its table.
AskedRange(mode, days) ==
  IF mode = "historical" THEN <<HistoryFrom, now>>
  ELSE IF source = "ruonia" THEN <<now - Window, now>>
  ELSE <<HistoryFrom - 1, now>>

\* The range in the name: the one asked for, or the newest day there is.
FileRange(mode, days) ==
  IF mode = "historical" THEN <<HistoryFrom, now>>
  ELSE IF source = "ruonia" THEN <<now - Window, now>>
  ELSE <<Newest(days), Newest(days)>>

File(name, days, torn) == [name |-> name, days |-> days, torn |-> torn]
Replaced(f) == {g \in rawFiles : g.name # f.name} \union {f}

Precedes(f, g) ==
  \/ f.name[1] < g.name[1]
  \/ f.name[1] = g.name[1] /\ f.name[2] < g.name[2]

LatestFile == CHOOSE f \in rawFiles : \A g \in rawFiles \ {f} : Precedes(g, f)

RawTypeOK ==
  /\ source \in {"ruonia", "reserves", "tax"}
  /\ now \in SourceDay
  /\ page \in [SourceDay -> {"none", "blank", "value"}]
  /\ \A f \in rawFiles : f.days \subseteq SourceDay /\ f.torn \in BOOLEAN
  /\ job # NoJob => /\ job.mode \in {"latest", "historical"}
                    /\ job.step \in {"fetch", "save", "writing", "build", "built"}
                    /\ job.step \in {"save", "writing"} => job.days # {}
  /\ known \subseteq SourceDay /\ saved \in 0..SourceDays /\ jobs \in 0..MaxJobs

RawInit ==
  /\ source \in {"ruonia", "reserves", "tax"}
  /\ now = 1 /\ page = [d \in SourceDay |-> "none"]
  /\ rawFiles = {} /\ job = NoJob
  /\ known = {} /\ saved = 0 /\ jobs = 0

(***************************************************************************)
(* The source.                                                             *)
(***************************************************************************)
NextSourceDay ==
  /\ now < SourceDays
  /\ now' = now + 1
  /\ UNCHANGED <<source, page, rawFiles, job, known, saved, jobs>>

\* Tax events are announced, rates and balances are published on the day or later.
PublishRow(d) ==
  /\ ~Published(d) /\ (d <= now \/ source = "tax")
  /\ \E row \in IF source = "tax" THEN {"value"} ELSE {"blank", "value"} :
       page' = [page EXCEPT ![d] = row]
  /\ UNCHANGED <<source, now, rawFiles, job, known, saved, jobs>>

(***************************************************************************)
(* A job: the parser, whatever becomes of it, and then the table.          *)
(***************************************************************************)
StartJob(mode) ==
  /\ job = NoJob /\ jobs < MaxJobs
  /\ job' = [mode |-> mode, step |-> "fetch", name |-> <<>>, days |-> {}]
  /\ jobs' = jobs + 1
  /\ UNCHANGED <<source, now, page, rawFiles, known, saved>>

JobAt(step) == job # NoJob /\ job.step = step
Goes(step) == job' = [job EXCEPT !.step = step]

FetchRows ==
  /\ JobAt("fetch") /\ Records(job.mode) # {}
  /\ LET days == Records(job.mode)
     IN job' = [job EXCEPT !.step = "save", !.name = FileRange(job.mode, days), !.days = days]
  /\ UNCHANGED <<source, now, page, rawFiles, known, saved, jobs>>

\* The page does not answer or has nothing, or the bootstrap runs no parsers: no file.
NoRows ==
  /\ JobAt("fetch")
  /\ Goes("build")
  /\ UNCHANGED <<source, now, page, rawFiles, known, saved, jobs>>

\* The newest day of a completed save of the latest mode.
Noted == IF job.mode = "latest" THEN Newest({saved} \union job.days) ELSE saved

\* RUONIA's file is written beside its name and renamed; if that fails nothing is left.
SaveAtomic ==
  /\ JobAt("save") /\ source = "ruonia"
  /\ \/ rawFiles' = Replaced(File(job.name, job.days, FALSE)) /\ saved' = Noted
     \/ UNCHANGED <<rawFiles, saved>>
  /\ Goes("build")
  /\ UNCHANGED <<source, now, page, known, jobs>>

\* The others are opened for writing: the old rows are gone, the new ones come.
OpenFileToSave ==
  /\ JobAt("save") /\ source # "ruonia"
  /\ rawFiles' = Replaced(File(job.name, {}, TRUE))
  /\ Goes("writing")
  /\ UNCHANGED <<source, now, page, known, saved, jobs>>
WriteRows ==
  /\ JobAt("writing")
  /\ \E last \in job.days :
       LET full == last = Newest(job.days)
       IN /\ ~\E f \in rawFiles : f.name = job.name /\ last \in f.days
          /\ rawFiles' = Replaced(File(job.name, {d \in job.days : d <= last}, ~full))
          /\ Goes(IF full THEN "build" ELSE "writing")
          /\ saved' = IF full THEN Noted ELSE saved
  /\ UNCHANGED <<source, now, page, known, jobs>>

\* The table is made of the last file; one without a header makes the build fail.
BuildTable ==
  /\ JobAt("build")
  /\ ~(rawFiles # {} /\ LatestFile.torn /\ LatestFile.days = {})
  /\ known' = IF rawFiles = {} THEN {} ELSE LatestFile.days
  /\ Goes("built")
  /\ UNCHANGED <<source, now, page, rawFiles, saved, jobs>>

\* The job ends, by an exception, with the process or done.
EndJob ==
  /\ job # NoJob
  /\ job' = NoJob
  /\ UNCHANGED <<source, now, page, rawFiles, known, saved, jobs>>

RawNext ==
  \/ NextSourceDay
  \/ \E d \in SourceDay : PublishRow(d)
  \/ \E mode \in {"latest", "historical"} : StartJob(mode)
  \/ FetchRows
  \/ NoRows
  \/ SaveAtomic
  \/ OpenFileToSave
  \/ WriteRows
  \/ BuildTable
  \/ EndJob

(***************************************************************************)
(* Properties.                                                             *)
(***************************************************************************)
\* What a recalculation has brought in is not hidden by older files: unless the file read
\* was cut off by a crash, a table goes at least to the newest day that the latest mode
\* has ever saved, whatever bootstraps came between (_latest_file sorts by name, and the
\* names begin with the first day of a range).
LatestIsRead ==
  JobAt("built") => (rawFiles # {} /\ LatestFile.torn) \/ Newest(known) >= saved
=============================================================================
