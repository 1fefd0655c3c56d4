-------------------------------- MODULE AuditLog -------------------------------
(***************************************************************************)
(* The audit trail (core/audit.py): every process that imports it opens    *)
(* ~/.eagle/audit.jsonl with a RotatingFileHandler of its own, appends one *)
(* line per record, and reads the day back for the session report.  A      *)
(* process keeps the file it has open when another one renames it.         *)
(*                                                                         *)
(* A file is a sequence of lines, a line the records in it, the days its   *)
(* text names, and whether it is a JSON document.                          *)
(***************************************************************************)
EXTENDS Integers, Sequences

CONSTANTS
  Writers,     \* processes
  MaxLines,    \* lines that fit in a file (_MAX_BYTES)
  Backups,     \* _BACKUP_COUNT
  Mentions,    \* days that a record's fields may name besides its own
  MaxRecords, MaxTears, LastDate \* bound the exploration

ASSUME AuditLogAssumption ==
  /\ MaxLines \in Nat \ {0} /\ Backups \in Nat \ {0} /\ Mentions \subseteq Int
  /\ MaxRecords \in Nat /\ MaxTears \in Nat /\ LastDate \in Nat \ {0}

VARIABLES
  today,      \* the date, in the time zone of the records
  content,    \* of each file, in the order they were created
  made,       \* how many have been created
  named,      \* files that have a name: audit.jsonl, audit.jsonl.1, ...
  stream,     \* the file each process has open
  records,    \* how many have been asked for
  dayOf,      \* of each record, the day that was on (history)
  mentioned,  \* of each record, the days its text names (history)
  lost,       \* records whose write failed (history)
  unended,    \* files whose last line has no end
  tears,      \* writes that failed or that a crash cut short
  turned,     \* the day of the last rotation (history)
  strayed     \* the day a record last went to a file that had been renamed (history)

recordVars == <<records, dayOf, mentioned, lost>>
auditVars == <<today, content, made, named, stream, recordVars, unended, tears, turned, strayed>>

Files == 1..(MaxRecords + MaxTears + 1)
Ids == 1..MaxRecords

AuditInit ==
  /\ today = 1
  /\ content = [f \in Files |-> <<>>]
  /\ made = 1 /\ named = <<1>>
  /\ stream = [p \in Writers |-> 1]
  /\ records = 0 /\ dayOf = [i \in Ids |-> 0] /\ mentioned = [i \in Ids |-> {}] /\ lost = {}
  /\ unended = {} /\ tears = 0 /\ turned = 0 /\ strayed = 0

Newest(s, n) == SubSeq(s, 1, IF Len(s) < n THEN Len(s) ELSE n)

\* shouldRollover(), doRollover(): the process that finds its file full renames
\* whatever bears the name now, and the oldest backup goes.
Full(p) == Len(content[stream[p]]) >= MaxLines
FileFor(p) == IF Full(p) THEN made + 1 ELSE stream[p]

Turn(p) ==
  IF Full(p)
    THEN /\ made' = made + 1
         /\ named' = Newest(<<made'>> \o named, Backups + 1)
         /\ turned' = today
    ELSE UNCHANGED <<made, named, turned>>

\* A line that was not ended is continued by the next write to the file.
WriteLine(f, line) ==
  LET old == content[f] n == Len(old) IN
  IF f \in unended
    THEN [old EXCEPT ![n] = [ids |-> old[n].ids \cup line.ids,
                             days |-> old[n].days \cup line.days, json |-> FALSE]]
    ELSE Append(old, line)

Stamp_Utc(d) == d - 1 \* mutant: before half past five, the date of Greenwich

\* The time stamp and today() are in the same time zone.
Stamp(d) == d

\* The text has the time of the record, and whatever the caller passes.
Text == {{Stamp(today)} \cup also : also \in SUBSET Mentions}

\* record(), under the lock of the process
Record(p) ==
  /\ records < MaxRecords
  /\ Turn(p)
  /\ records' = records + 1
  /\ dayOf' = [dayOf EXCEPT ![records'] = today]
  /\ \E text \in Text :
       /\ mentioned' = [mentioned EXCEPT ![records'] = text]
       /\ content' = [content EXCEPT ![FileFor(p)] =
            WriteLine(FileFor(p), [ids |-> {records'}, days |-> text, json |-> TRUE])]
  /\ stream' = [stream EXCEPT ![p] = FileFor(p)]
  /\ unended' = unended \ {FileFor(p)}
  /\ strayed' = IF FileFor(p) # named'[1] THEN today ELSE strayed
  /\ UNCHANGED <<today, lost, tears>>

\* Part of a line is written: its beginning, which may end before the date.
Part(f) ==
  /\ \E text \in {{}, {Stamp(today)}} :
       content' = [content EXCEPT ![f] =
         WriteLine(f, [ids |-> {}, days |-> text, json |-> FALSE])]
  /\ unended' = unended \cup {f}

\* The process dies as it writes; it opens audit.jsonl when it is back.
Tear(p) ==
  /\ tears < MaxTears
  /\ Turn(p)
  /\ tears' = tears + 1
  /\ Part(FileFor(p))
  /\ stream' = [stream EXCEPT ![p] = named'[1]]
  /\ UNCHANGED <<today, recordVars, strayed>>

\* The handler's emit() keeps an error to itself, so that record() returns as ever.
Lose ==
  /\ records < MaxRecords /\ tears < MaxTears
  /\ records' = records + 1 /\ tears' = tears + 1
  /\ dayOf' = [dayOf EXCEPT ![records'] = today]
  /\ mentioned' = [mentioned EXCEPT ![records'] = {Stamp(today)}]
  /\ lost' = lost \cup {records'}

\* The disk is full: nothing of the line is written, or part of it.
WriteFails(p) ==
  /\ Lose /\ Turn(p)
  /\ Part(FileFor(p)) \/ UNCHANGED <<content, unended>>
  /\ stream' = [stream EXCEPT ![p] = FileFor(p)]
  /\ UNCHANGED <<today, strayed>>

\* The full file is closed and cannot be renamed; the next record opens it again.
TurnFails(p) ==
  /\ Lose /\ Full(p)
  /\ stream' = [stream EXCEPT ![p] = named[1]]
  /\ UNCHANGED <<today, content, made, named, unended, turned, strayed>>

\* The process ends between two records, and is started again.
StartAgain(p) ==
  /\ stream' = [stream EXCEPT ![p] = named[1]]
  /\ UNCHANGED <<today, content, made, named, recordVars, unended, tears, turned, strayed>>

NextDate ==
  /\ today < LastDate
  /\ today' = today + 1
  /\ UNCHANGED <<content, made, named, stream, recordVars, unended, tears, turned, strayed>>

AuditNext ==
  \/ \E p \in Writers : Record(p) \/ Tear(p) \/ WriteFails(p) \/ TurnFails(p) \/ StartAgain(p)
  \/ NextDate

AuditSpec == AuditInit /\ [][AuditNext]_auditVars

-----------------------------------------------------------------------------

\* today(): the lines of audit.jsonl that name the day; one that is not JSON
\* raises, and then there are none.
Lines(day) == {i \in 1..Len(content[named[1]]) : day \in content[named[1]][i].days}
Shown(day) ==
  IF \A i \in Lines(day) : content[named[1]][i].json
    THEN UNION {content[named[1]][i].ids : i \in Lines(day)}
    ELSE {}

AuditTypeOK ==
  /\ today \in 1..LastDate /\ turned \in 0..today /\ strayed \in 0..today
  /\ records \in 0..MaxRecords /\ tears \in 0..MaxTears /\ lost \subseteq 1..records
  /\ made \in Files /\ Len(named) \in 1..(Backups + 1)
  /\ \A i, j \in 1..Len(named) : named[i] \in 1..made /\ (i < j => named[i] > named[j])
  /\ \A f \in Files : Len(content[f]) <= MaxLines
  /\ \A p \in Writers : stream[p] \in 1..made

\* What today() returns names today, and it has all records of the day whose write
\* did not fail, unless a file was turned today, or a process has written a record
\* of today to a file that another one has renamed, or a line that names the day is
\* torn, and then it is nothing at all (record(), today()).
ReportComplete ==
  LET written == {i \in 1..records : dayOf[i] = today} IN
  /\ \A i \in Shown(today) : i \in (1..records) \ lost /\ today \in mentioned[i]
  /\ \/ written \subseteq Shown(today) \cup lost
     \/ turned = today
     \/ strayed = today
     \/ /\ tears > 0 /\ Shown(today) = {}
        /\ \E i \in Lines(today) : ~content[named[1]][i].json

=============================================================================
