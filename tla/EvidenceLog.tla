----------------------------- MODULE EvidenceLog -----------------------------
(***************************************************************************)
(* One evidence file: the writer process that appends records to it        *)
(* (writer.py), the faults that cut it short, the operator's recovery, and *)
(* the dashboard (dashboard.py) with the page in a browser that follows it *)
(* through cursors.                                                        *)
(*                                                                         *)
(* The file is a sequence of bytes, a record a line of Size[r] bytes: the  *)
(* value r, and a newline at its end.  The operations file goes through    *)
(* the same code.  Permissions, links and authentication are left out; a   *)
(* page is read in one step.  A host failure keeps a prefix of the file    *)
(* that holds everything fsync covered.                                    *)
(***************************************************************************)
EXTENDS Integers, Sequences, SequencesExt, FiniteSets, FiniteSetsExt

CONSTANTS
    Records,      \* positive numbers
    Size,         \* Size[r]: bytes of the line, newline included
    Unreadable,   \* records whose JSON the dashboard refuses: NaN, depth
    MaxRead,      \* MAX_READ_BYTES
    Limit,        \* records of a page
    MaxRows,      \* rows the page in the browser keeps
    MaxChars,     \* characters of all the rows it keeps
    MaxLines,     \* bound: lines that sessions begin to write
    MaxFaults,    \* bound: kills, host failures, lost replies
    MaxMoves      \* bound: files the operator puts aside

ASSUME EvidenceAssumption ==
    /\ Records \subseteq Nat \ {0} /\ Unreadable \subseteq Records
    /\ Size \in [Records -> Nat \ {0, 1}]
    /\ {MaxRead, Limit, MaxRows, MaxChars} \subseteq Nat \ {0}
    /\ {MaxLines, MaxFaults, MaxMoves} \subseteq Nat

VARIABLES
    file,     \* [inode, data], or NoFile
    synced,   \* bytes of it that a host failure cannot take
    writer,   \* [pc, line, written]: what is left of its line, (place, record) of its lines
    acked,    \* history: (place, record) of the lines that "stopped" reports counted
    cursor,   \* cursors.findings in the browser, or NoCursor
    rows,     \* rows in the browser
    view,     \* skipped and bounded in the browser
    reply,    \* a page on its way to the browser, or NoReply
    rewound,  \* history: a host failure cut the file before the browser's cursor
    bound     \* lines, faults and moves so far

vars == <<file, synced, writer, acked, cursor, rows, view, reply, rewound, bound>>

Newline == 0
NoFile == [inode |-> 0, data |-> <<>>]
NoCursor == [inode |-> 0, offset |-> 0, discard |-> FALSE]
NoReply == [cursor |-> NoCursor, records |-> <<>>, reset |-> FALSE, skipped |-> -1, limited |-> FALSE]
Down == [pc |-> "down", line |-> <<>>, written |-> {}]

Init ==
    /\ file = NoFile /\ synced = 0 /\ writer = Down /\ acked = {}
    /\ cursor = NoCursor /\ rows = <<>> /\ view = [skipped |-> 0, bounded |-> FALSE]
    /\ reply = NoReply /\ rewound = FALSE
    /\ bound = [lines |-> 0, faults |-> 0, moves |-> 0]

Line(r) == [n \in 1 .. Size[r] |-> IF n = Size[r] THEN Newline ELSE r]
-----------------------------------------------------------------------------
(***************************************************************************)
(* writer_process                                                          *)
(***************************************************************************)

\* Mutant: any file is appended to.
AnyTail(data) == TRUE

\* The check of _restricted_text_append, and of the doctor before it.
AppendReady(data) == data # <<>> => Last(data) = Newline

\* A session starts and opens the file, which it creates if there is none.
Open ==
    /\ writer = Down
    /\ AppendReady(file.data)
    /\ writer' = [writer EXCEPT !.pc = "open"]
    /\ file' = IF file = NoFile THEN [inode |-> bound.moves + 1, data |-> <<>>] ELSE file
    /\ UNCHANGED <<synced, acked, cursor, rows, view, reply, rewound, bound>>

\* The next n bytes of a line reach the file.
Write(line, n) ==
    /\ file' = [file EXCEPT !.data = @ \o SubSeq(line, 1, n)]
    /\ UNCHANGED <<synced, acked, cursor, rows, view, reply, rewound>>

\* write_json_line: the line reaches the file at once or in parts.
WriteLine(r, n) ==
    /\ writer.pc = "open" /\ writer.line = <<>>
    /\ bound.lines < MaxLines
    /\ Write(Line(r), n)
    /\ writer' = [writer EXCEPT !.line = SubSeq(Line(r), n + 1, Size[r]),
                                !.written = @ \cup {<<Len(file.data), r>>}]
    /\ bound' = [bound EXCEPT !.lines = @ + 1]

WriteRest(n) ==
    /\ Write(writer.line, n)
    /\ writer' = [writer EXCEPT !.line = SubSeq(@, n + 1, Len(@))]
    /\ UNCHANGED bound

\* What fsync makes durable.
SyncedByStop == Len(file.data)

\* Both stop marks are read: flush and fsync.
Sync ==
    /\ writer.pc = "open" /\ writer.line = <<>>
    /\ synced' = SyncedByStop
    /\ writer' = [writer EXCEPT !.pc = "synced"]
    /\ UNCHANGED <<file, acked, cursor, rows, view, reply, rewound, bound>>

\* The "stopped" report.
Report ==
    /\ writer.pc = "synced"
    /\ acked' = acked \cup writer.written
    /\ writer' = Down
    /\ UNCHANGED <<file, synced, cursor, rows, view, reply, rewound, bound>>
-----------------------------------------------------------------------------
(***************************************************************************)
(* Faults and recovery                                                     *)
(***************************************************************************)

Fault == bound.faults < MaxFaults /\ bound' = [bound EXCEPT !.faults = @ + 1]

\* The writer is killed, or a write fails: what is left of the line is lost.
KillWriter ==
    /\ writer # Down
    /\ Fault
    /\ writer' = Down
    /\ UNCHANGED <<file, synced, acked, cursor, rows, view, reply, rewound>>

\* The host fails: bytes that were not synced may be gone.
FailHost(length) ==
    /\ Fault
    /\ file # NoFile /\ length \in synced .. Len(file.data)
    /\ file' = [file EXCEPT !.data = SubSeq(@, 1, length)]
    /\ writer' = Down
    /\ reply' = NoReply
    /\ rewound' = (rewound \/ (cursor.inode = file.inode /\ length < cursor.offset))
    /\ UNCHANGED <<synced, acked, cursor, rows, view>>

\* The operator puts the stopped file aside; the next session starts a new one.
MoveAway ==
    /\ writer = Down /\ file # NoFile
    /\ bound.moves < MaxMoves
    /\ bound' = [bound EXCEPT !.moves = @ + 1]
    /\ file' = NoFile /\ synced' = 0 /\ acked' = {}
    /\ UNCHANGED <<writer, cursor, rows, view, reply, rewound>>
-----------------------------------------------------------------------------
(***************************************************************************)
(* read_page                                                               *)
(***************************************************************************)

\* The lines of data in order, as pairs of the first byte and the newline.
LineSpans(data) ==
    LET isEnd(n) == data[n] = Newline
        ends == SelectSeq([n \in 1 .. Len(data) |-> n], isEnd)
    IN  [k \in 1 .. Len(ends) |-> <<IF k = 1 THEN 1 ELSE ends[k - 1] + 1, ends[k]>>]

\* A line parses when it is a whole record that the JSON checks accept.
Parses(line) ==
    \E r \in Records \ Unreadable : line = Line(r)

\* Mutant: a cursor is trusted whatever the file it belongs to.
ResetBySize == cursor # NoCursor /\ cursor.offset > Len(file.data)

\* The file was replaced, or is shorter than the cursor.
IsReset == cursor # NoCursor /\ (cursor.inode # file.inode \/ cursor.offset > Len(file.data))

\* Mutant: a window without a newline is read again and again.
OversizedStaysPut(offset, data) == FALSE

\* A line larger than the window: nothing but advancing past it helps.
Oversized(offset, data) == offset = 0 /\ Len(data) = MaxRead

\* The bytes up to the next newline belong to a line whose start was not read.
DiscardFirst(initial, start) == IF initial THEN start > 0 ELSE cursor.discard

\* What one request reads from the file.
Window ==
    LET initial == cursor = NoCursor \/ IsReset
        start == IF initial THEN Max({0, Len(file.data) - MaxRead}) ELSE cursor.offset
    IN  [initial |-> initial, start |-> start, discard |-> DiscardFirst(initial, start),
         data |-> SubSeq(file.data, start + 1, Min({start + MaxRead, Len(file.data)}))]

\* The lines of a window that become records.
Found(w, spans) ==
    LET readable(s) == /\ ~(w.discard /\ s = spans[1])
                       /\ Parses(SubSeq(w.data, s[1], s[2]))
    IN  SelectSeq(spans, readable)

\* The lines that are gone through: a later page stops after Limit records, the
\* first one reads on and keeps the last Limit.
Passed(w, spans, found) ==
    LET before(s) == s[1] <= found[Limit][1]
    IN  IF ~w.initial /\ Len(found) >= Limit THEN SelectSeq(spans, before) ELSE spans

Page(w, found, passed) ==
    LET kept == {n \in 1 .. Len(found) : found[n][1] <= passed[Len(passed)][1]}
        first == IF w.initial THEN Max({0, Len(found) - Limit}) ELSE 0
        offset == IF passed = <<>> THEN 0 ELSE passed[Len(passed)][2]
        pending == w.discard /\ passed = <<>>
        over == Oversized(offset, w.data)
    IN  [cursor |-> [inode |-> file.inode,
                     offset |-> w.start + (IF over THEN MaxRead ELSE offset),
                     discard |-> over \/ pending],
         records |-> [n \in 1 .. Cardinality(kept) - first |-> w.data[found[first + n][1]]],
         reset |-> IsReset,
         skipped |-> Len(passed) - Cardinality(kept)
                     - (IF w.discard /\ ~pending THEN 1 ELSE 0)
                     + (IF over /\ ~pending THEN 1 ELSE 0),
         limited |-> w.initial /\ (w.start > 0 \/ Len(found) > Limit)]

Missing == [NoReply EXCEPT !.reset = (cursor # NoCursor), !.skipped = 0]

\* A request of poll is answered; poll does not overlap itself.
AnswerMissing ==
    /\ reply = NoReply /\ file = NoFile
    /\ reply' = Missing
    /\ UNCHANGED <<file, synced, writer, acked, cursor, rows, view, rewound, bound>>

AnswerPage ==
    /\ reply = NoReply /\ file # NoFile
    /\ \E w \in {Window} : \E spans \in {LineSpans(w.data)} :
         \E found \in {Found(w, spans)} : reply' = Page(w, found, Passed(w, spans, found))
    /\ UNCHANGED <<file, synced, writer, acked, cursor, rows, view, rewound, bound>>

\* retain: as many of the last rows as both limits allow.  A row has the
\* characters of its line without the newline.
Retained(all) ==
    LET chars == [n \in DOMAIN all |-> Size[all[n]] - 1]
        fits(start) == /\ Len(all) - start <= MaxRows
                       /\ SumFunctionOnSet(chars, start + 1 .. Len(all)) <= MaxChars
    IN  SubSeq(all, Min({start \in 0 .. Len(all) : fits(start)}) + 1, Len(all))

\* The page in the browser takes the reply over.
Receive ==
    /\ reply # NoReply
    /\ LET all == (IF reply.reset THEN <<>> ELSE rows) \o reply.records
       IN  /\ rows' = Retained(all)
           /\ view' = [skipped |-> view.skipped + reply.skipped,
                       bounded |-> view.bounded \/ reply.limited \/ Retained(all) # all]
    /\ cursor' = reply.cursor
    /\ reply' = NoReply
    /\ rewound' = (rewound /\ ~reply.reset)
    /\ UNCHANGED <<file, synced, writer, acked, bound>>

\* The request fails: the page keeps its cursor and asks again.
LoseReply ==
    /\ reply # NoReply
    /\ Fault
    /\ reply' = NoReply
    /\ UNCHANGED <<file, synced, writer, acked, cursor, rows, view, rewound>>
-----------------------------------------------------------------------------
Poll == AnswerMissing \/ AnswerPage \/ Receive

Next ==
    \/ Open
    \/ \E r \in Records : \E n \in 1 .. Size[r] : WriteLine(r, n)
    \/ \E n \in 1 .. Len(writer.line) : WriteRest(n)
    \/ Sync
    \/ Report
    \/ KillWriter
    \/ \E n \in 0 .. Len(file.data) : FailHost(n)
    \/ MoveAway
    \/ Poll
    \/ LoseReply

\* The browser polls every two seconds; nothing else has to happen.
Spec == Init /\ [][Next]_vars /\ WF_vars(Poll)
-----------------------------------------------------------------------------
(***************************************************************************)
(* Properties                                                              *)
(***************************************************************************)

FileLines(length) ==
    LET spans == LineSpans(SubSeq(file.data, 1, length))
    IN  [n \in 1 .. Len(spans) |-> SubSeq(file.data, spans[n][1], spans[n][2])]

\* The record that ends with the newline at n; 0 if the line is none: torn, or two
\* glued together.
RecordAt(data, n) ==
    LET r == IF n = 1 THEN 0 ELSE data[n - 1]
    IN  IF /\ r \in Records /\ n >= Size[r]
           /\ \A k \in n - Size[r] + 1 .. n - 1 : data[k] = r
           /\ n = Size[r] \/ data[n - Size[r]] = Newline
          THEN r ELSE 0

Ends(data) == {n \in 1 .. Len(data) : data[n] = Newline}

\* The k-th line end, in a set of one.
Ranked(ends, k) == {n \in ends : Cardinality({m \in ends : m <= n}) = k}

RecordsOf(data) ==
    [k \in 1 .. Cardinality(Ends(data)) |->
        CHOOSE r \in {RecordAt(data, n) : n \in Ranked(Ends(data), k)} : TRUE]

\* The end of the last line that a "stopped" report counted.
ReportedLength == Max({0} \cup {a[1] + Size[a[2]] : a \in acked})

Promised == INSTANCE RecordLog WITH
    log <- RecordsOf(file.data),
    kept <- Cardinality({n \in 1 .. ReportedLength : n > Len(file.data) \/ file.data[n] = Newline})

\* The file implements RecordLog: whatever crash cut it short, no session glues a
\* record to a torn one, records come and go at its end only, and those up to the
\* last one that a "stopped" report of the writer counted survive a host failure.
ImplementsRecordLog == Promised!Spec

Readable(line) == Parses(line) /\ Len(line) <= MaxRead

\* As long as no host failure shortened the file under the cursor and let it grow
\* again unseen, the rows in the browser are the latest readable records before the
\* cursor, each once and in order; unless the page says that it is bounded they are
\* all of them, and unless it says that it skipped some there are no others.
ViewIsFaithful ==
    (cursor # NoCursor /\ cursor.inode = file.inode
        /\ cursor.offset <= Len(file.data) /\ ~rewound) =>
    LET lines == FileLines(cursor.offset)
        readable == SelectSeq(lines, Readable)
    IN  /\ Len(rows) <= Len(readable)
        /\ \A n \in DOMAIN rows : Line(rows[n]) = readable[Len(readable) - Len(rows) + n]
        /\ ~view.bounded => Len(rows) = Len(readable)
        /\ ~view.bounded /\ view.skipped = 0 => Len(readable) = Len(lines)

CaughtUp ==
    \/ file = NoFile
    \/ /\ cursor.inode = file.inode
       /\ \A n \in cursor.offset + 1 .. Len(file.data) : file.data[n] # Newline

\* No record, oversized, torn or unreadable, keeps the browser from reaching the end
\* of the file once it stops growing.
ViewerCatchesUp == <>[]CaughtUp
==============================================================================
