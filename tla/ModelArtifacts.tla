--------------------------- MODULE ModelArtifacts ---------------------------
(***************************************************************************)
(* The isolation forest on disk: at startup the server trains it unless    *)
(* all its files are at least as new as the dataset, writes the files one  *)
(* by one, and later loads them all and keeps them for the life of the     *)
(* process. Nothing makes the six files one: the dates decide.             *)
(*                                                                         *)
(* A file's time stamp is only ever compared with the dataset's: it stands *)
(* here as the number of the dataset that was in place when it was written.*)
(***************************************************************************)
EXTENDS Integers, Sequences, FiniteSets

CONSTANTS
  DumpOrder,   \* the files in the order they are written
  MaxVersion,  \* bound on the versions of the dataset
  NoFile,      \* a file that is not there
  NotLoaded,   \* nothing has asked for the model yet
  NoModel      \* the model cannot be loaded

ASSUME ArtifactsAssumption ==
  /\ DumpOrder \in Seq(STRING) /\ DumpOrder # <<>>
  /\ \A i, j \in DOMAIN DumpOrder : DumpOrder[i] = DumpOrder[j] => i = j
  /\ MaxVersion \in Nat \ {0}
  /\ NoFile \notin [version : Nat, time : Nat, torn : BOOLEAN]
  /\ NotLoaded \notin [{DumpOrder[i] : i \in DOMAIN DumpOrder} -> Nat]
  /\ NoModel \notin [{DumpOrder[i] : i \in DOMAIN DumpOrder} -> Nat]

Artifact == {DumpOrder[i] : i \in DOMAIN DumpOrder}

VARIABLES
  dataset,   \* all_df_date.csv: the version in place
  files,     \* the artifacts: version of the dataset they are of, time stamp, written in full?
  process,   \* where the server is: down, deciding, fitting, dumping, serving
  fitted,    \* the version it read
  position,  \* the file it writes
  loaded,    \* what the process has in memory: the version of every artifact
  trained,   \* the startup of this process ended without an exception
  overtaken  \* the dataset was replaced while a training ran

artifactVars == <<dataset, files, process, fitted, position, loaded, trained, overtaken>>

Exists(a) == files[a] # NoFile

\* Slip: UpToDate that asks the date of the forest's own file only.
ForestIsNew == (\A a \in Artifact : Exists(a)) /\ files[DumpOrder[1]].time >= dataset
UpToDate == \A a \in Artifact : Exists(a) /\ files[a].time >= dataset

ArtifactsTypeOK ==
  /\ dataset \in 1..MaxVersion
  /\ files \in [Artifact -> {NoFile} \union [version : 1..MaxVersion, time : 1..MaxVersion, torn : BOOLEAN]]
  /\ process \in {"down", "deciding", "fitting", "dumping", "serving"}
  /\ fitted \in 1..MaxVersion
  /\ position \in DOMAIN DumpOrder
  /\ loaded \in {NotLoaded, NoModel} \union [Artifact -> 1..MaxVersion]
  /\ trained \in BOOLEAN /\ overtaken \in BOOLEAN

ArtifactsInit ==
  /\ dataset = 1
  /\ files = [a \in Artifact |-> NoFile]
  /\ process = "down" /\ fitted = 1 /\ position = 1
  /\ loaded = NotLoaded /\ trained = FALSE /\ overtaken = FALSE

\* The dataset comes from outside, a deployment replaces it.
ReplaceDataset ==
  /\ dataset < MaxVersion
  /\ dataset' = dataset + 1
  /\ overtaken' = (overtaken \/ process \in {"fitting", "dumping"})
  /\ UNCHANGED <<files, process, fitted, position, loaded, trained>>

Start ==
  /\ process = "down"
  /\ process' = "deciding"
  /\ UNCHANGED <<dataset, files, fitted, position, loaded, trained, overtaken>>

Crash ==
  /\ process # "down"
  /\ process' = "down"
  /\ loaded' = NotLoaded
  /\ trained' = FALSE
  /\ UNCHANGED <<dataset, files, fitted, position, overtaken>>

(***************************************************************************)
(* train_and_persist, under _TRAIN_LOCK                                    *)
(***************************************************************************)
SkipTraining ==
  /\ process = "deciding"
  /\ UpToDate
  /\ process' = "serving"
  /\ trained' = TRUE
  /\ UNCHANGED <<dataset, files, fitted, position, loaded, overtaken>>

ReadDataset ==
  /\ process = "deciding"
  /\ ~UpToDate
  /\ process' = "fitting"
  /\ fitted' = dataset
  /\ position' = 1
  /\ UNCHANGED <<dataset, files, loaded, trained, overtaken>>

\* joblib.dump truncates the file, then fills it.
OpenFile ==
  /\ process = "fitting"
  /\ files' = [files EXCEPT ![DumpOrder[position]] = [version |-> fitted, time |-> dataset, torn |-> TRUE]]
  /\ process' = "dumping"
  /\ UNCHANGED <<dataset, fitted, position, loaded, trained, overtaken>>

\* Slip: LastFile one too late.
BeyondLast == position > Len(DumpOrder)
LastFile == position = Len(DumpOrder)

FillFile ==
  /\ process = "dumping"
  /\ files' = [files EXCEPT ![DumpOrder[position]] = [version |-> fitted, time |-> dataset, torn |-> FALSE]]
  /\ process' = IF LastFile THEN "serving" ELSE "fitting"
  /\ position' = IF LastFile THEN position ELSE position + 1
  /\ trained' = LastFile
  /\ UNCHANGED <<dataset, fitted, loaded, overtaken>>

\* bootstrap_train_if_needed swallows the exception, and the server starts all the same.
TrainingFails ==
  /\ process \in {"fitting", "dumping"}
  /\ process' = "serving"
  /\ UNCHANGED <<dataset, files, fitted, position, loaded, trained, overtaken>>

(***************************************************************************)
(* _cached_artifacts: the first question loads the files, and its answer,  *)
(* no model included, is the answer of this process.                       *)
(***************************************************************************)
Loadable == \A a \in Artifact : Exists(a) /\ ~files[a].torn
LoadArtifacts ==
  /\ process = "serving"
  /\ loaded = NotLoaded
  /\ loaded' = IF Loadable THEN [a \in Artifact |-> files[a].version] ELSE NoModel
  /\ UNCHANGED <<dataset, files, process, fitted, position, trained, overtaken>>

ArtifactsNext ==
  \/ ReplaceDataset
  \/ Start
  \/ Crash
  \/ SkipTraining
  \/ ReadDataset
  \/ OpenFile
  \/ FillFile
  \/ TrainingFails
  \/ LoadArtifacts

(***************************************************************************)
(* Properties.                                                             *)
(***************************************************************************)
HasModel == loaded \notin {NotLoaded, NoModel}

\* The files a process serves with are of one training, whatever crashed before, unless its
\* own training failed or a dataset was once replaced under a training: the scaler and the
\* limits of the index belong to the forest (train_and_persist, _cached_artifacts).
ArtifactsOfOneTraining ==
  HasModel /\ trained /\ ~overtaken => \A a, b \in Artifact : loaded[a] = loaded[b]
=============================================================================
