----------------------------- MODULE FileStores -----------------------------
(***************************************************************************)
(* The two stores the backend keeps in files of its own.                   *)
(* ExecutionJournalService rewrites a JSON file of journals under a lock;  *)
(* WorkerRunLogService rewrites a log of worker runs under none.  Both     *)
(* read the whole file, truncate it and write it again, and both read a    *)
(* file that does not parse as an empty one.                               *)
(***************************************************************************)
EXTENDS Integers, Sequences, FiniteSets

CONSTANTS
    Writers,        \* bound: the upserts and the appends there are
    NoWriter,
    Executions,     \* what journals are about
    MaxEntries      \* the entries the log keeps

ASSUME FileAssumption ==
    /\ NoWriter \notin Writers
    /\ MaxEntries \in Nat \ {0}

VARIABLES
    journal,    \* the file: the upsert each execution's journal is of
    runLog,     \* the file: the runs, by who appended them, oldest first
    writer,     \* where each upsert or append is
    upserted,   \* history: the upsert of each execution acknowledged last
    appended,   \* history: the runs appended, in order
    cut,        \* history: the files in which a write was cut short
    crossed     \* history: an append began while another was in progress

fileVars == <<journal, runLog, writer, upserted, appended, cut, crossed>>

Files == {"journal", "log"}
NoJournals == [e \in Executions |-> NoWriter]

(* torn: truncated, and not yet whole again. *)
FileInit ==
    /\ journal = [torn |-> FALSE, store |-> NoJournals]
    /\ runLog = [torn |-> FALSE, store |-> <<>>]
    /\ writer = [w \in Writers |-> [stage |-> "idle", file |-> "log"]]
    /\ upserted = NoJournals
    /\ appended = <<>>
    /\ cut = {}
    /\ crossed = FALSE

-----------------------------------------------------------------------------

Busy(file) == {w \in Writers : /\ writer[w].stage \in {"read", "truncated"}
                               /\ writer[w].file = file}

EntersAlways(file) == TRUE

(* The lock of the journal; the log has none.                              *)
Enters(file) == file = "journal" => Busy(file) = {}

(* _read_store and _read_raw.  A log torn between two lines would read as  *)
(* the lines before; that case is left out.                                *)
ReadJournal == IF journal.torn THEN NoJournals ELSE journal.store
ReadRuns == IF runLog.torn THEN <<>> ELSE runLog.store

Newest(entries) ==
    IF Len(entries) > MaxEntries
    THEN SubSeq(entries, Len(entries) - MaxEntries + 1, Len(entries)) ELSE entries

ReadForUpsert(w, e) ==
    /\ writer[w].stage = "idle" /\ Enters("journal")
    /\ writer' = [writer EXCEPT ![w] =
                     [stage |-> "read", file |-> "journal", execution |-> e,
                      store |-> [ReadJournal EXCEPT ![e] = w]]]
    /\ UNCHANGED <<journal, runLog, upserted, appended, cut, crossed>>

ReadForAppend(w) ==
    /\ writer[w].stage = "idle" /\ Enters("log")
    /\ writer' = [writer EXCEPT ![w] = [stage |-> "read", file |-> "log",
                                        store |-> Newest(Append(ReadRuns, w))]]
    /\ crossed' = (crossed \/ Busy("log") # {})
    /\ UNCHANGED <<journal, runLog, upserted, appended, cut>>

(* write_text opens the file, which empties it, and then writes. *)
Truncate(w) ==
    /\ writer[w].stage = "read"
    /\ IF writer[w].file = "journal"
       THEN journal' = [journal EXCEPT !.torn = TRUE] /\ UNCHANGED runLog
       ELSE runLog' = [runLog EXCEPT !.torn = TRUE] /\ UNCHANGED journal
    /\ writer' = [writer EXCEPT ![w].stage = "truncated"]
    /\ UNCHANGED <<upserted, appended, cut, crossed>>

WriteJournal(w) ==
    /\ writer[w].stage = "truncated" /\ writer[w].file = "journal"
    /\ journal' = [torn |-> FALSE, store |-> writer[w].store]
    /\ upserted' = [upserted EXCEPT ![writer[w].execution] = w]
    /\ writer' = [writer EXCEPT ![w] = [stage |-> "done", file |-> "journal"]]
    /\ UNCHANGED <<runLog, appended, cut, crossed>>

WriteLog(w) ==
    /\ writer[w].stage = "truncated" /\ writer[w].file = "log"
    /\ runLog' = [torn |-> FALSE, store |-> writer[w].store]
    /\ appended' = Append(appended, w)
    /\ writer' = [writer EXCEPT ![w] = [stage |-> "done", file |-> "log"]]
    /\ UNCHANGED <<journal, upserted, cut, crossed>>

(* The write fails, before the file is opened or half-way. *)
CutShort(w) ==
    /\ writer[w].stage \in {"read", "truncated"}
    /\ cut' = IF writer[w].stage = "truncated" THEN cut \union {writer[w].file} ELSE cut
    /\ writer' = [writer EXCEPT ![w] = [stage |-> "failed", file |-> @.file]]
    /\ UNCHANGED <<journal, runLog, upserted, appended, crossed>>

FileNext ==
    \E w \in Writers :
        \/ \E e \in Executions : ReadForUpsert(w, e)
        \/ ReadForAppend(w) \/ Truncate(w) \/ WriteJournal(w) \/ WriteLog(w) \/ CutShort(w)

FileSpec == FileInit /\ [][FileNext]_fileVars

-----------------------------------------------------------------------------

FileTypeOK ==
    /\ journal \in [torn : BOOLEAN, store : [Executions -> Writers \union {NoWriter}]]
    /\ runLog.torn \in BOOLEAN /\ runLog.store \in Seq(Writers) /\ Len(runLog.store) <= MaxEntries
    /\ \A w \in Writers :
          /\ writer[w].stage \in {"idle", "read", "truncated", "done", "failed"}
          /\ writer[w].file \in Files
    /\ upserted \in [Executions -> Writers \union {NoWriter}]
    /\ appended \in Seq(Writers)
    /\ cut \subseteq Files
    /\ crossed \in BOOLEAN

(* Neither store loses what was acknowledged.  The journal file holds the  *)
(* upsert of each execution acknowledged last, in whatever order they      *)
(* come; the log holds the newest runs in order, as long as no append      *)
(* began beside another.  Both except while the file is being written and  *)
(* once a write of it was cut short.                                       *)
StoresKept ==
    /\ "journal" \in cut \/ journal.torn \/ journal.store = upserted
    /\ "log" \in cut \/ runLog.torn \/ crossed \/ runLog.store = Newest(appended)

=============================================================================
