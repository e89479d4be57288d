------------------------------- MODULE Timetable -------------------------------
(***************************************************************************)
(* The timetable of a school (src/internal/schedule): the slots of the     *)
(* classes, the numbered periods of a day, the rooms, the copy of the      *)
(* timetable of a class and the import of a file.                          *)
(*                                                                         *)
(* Slots must not overlap for a teacher, a class or a room, and no         *)
(* constraint of the database says so: each operation reads the slots of a *)
(* year, looks for conflicts, and writes.  The reading and the writing of  *)
(* one slot are in one transaction, which under read committed locks       *)
(* nothing; a copy writes in a second transaction, and an import when the  *)
(* preview is confirmed, up to 15 minutes later.  A writer is a request    *)
(* between its reading and its writing, or the preview of a file.          *)
(*                                                                         *)
(* A row of the timetable leaves out its subject.  Its year is that of its *)
(* class, which validateSlotRefs has checked; only an update may give a    *)
(* slot a class of another year than the slot's own.                       *)
(***************************************************************************)
EXTENDS Naturals, FiniteSets

CONSTANTS
    Slots, Requests, Uploads,    \* identifiers, never used twice; requests; previews
    Rows, Files,                 \* what a form may ask for; the rows of a file
    Classes, Teachers, Rooms, NoRoom,
    YearOf,                      \* the academic year of a class
    NoRow, Gone, NoSlot,         \* a slot not created yet, or deleted; no slot
    MaxPeriod                    \* bound

Writers == Requests \cup Uploads
Years == {YearOf[c] : c \in Classes}
Row == [class : Classes, teacher : Teachers, room : Rooms \cup {NoRoom},
        year : Years, day : Nat, from : Nat, to : Nat]

ASSUME TimetableAssumption ==
    /\ Rows \subseteq Row /\ Files \subseteq SUBSET Rows
    /\ \A r \in Rows : r.year = YearOf[r.class]
    /\ NoRow \notin Row /\ Gone \notin Row /\ NoRow # Gone
    /\ NoSlot \notin Slots /\ NoRoom \notin Rooms
    /\ Requests \cap Uploads = {}
    /\ MaxPeriod \in Nat

VARIABLES
    slot,              \* the row of each slot
    periods,           \* the numbers 1 .. periods exist
    rooms,
    pc,                \* what each writer is about to do
    batch,             \* the rows it will write
    edits,             \* the slot it will update
    wanted,            \* the number of periods it will leave
    unread,            \* history: slots a writer has not read as they are now
    unchecked          \* history: pairs of slots that no check has compared

tables == <<slot, periods, rooms>>
writerVars == <<pc, batch, edits, wanted>>
timetableHistory == <<unread, unchecked>>
timetableVars == <<tables, writerVars, timetableHistory>>

TimetableTypeOK ==
    /\ slot \in [Slots -> Row \cup {NoRow, Gone}]
    /\ periods \in Nat
    /\ rooms \in SUBSET Rooms
    /\ pc \in [Writers -> {"idle", "insert", "update", "replace", "staged"}]
    /\ batch \in [Writers -> SUBSET Row]
    /\ edits \in [Writers -> Slots \cup {NoSlot}]
    /\ wanted \in [Writers -> Nat]
    /\ unread \in [Writers -> SUBSET Slots]
    /\ unchecked \in SUBSET (Slots \X Slots)
    /\ \A w \in Writers : pc[w] = "update" => edits[w] \in Slots

TimetableInit ==
    /\ slot = [s \in Slots |-> NoRow]
    /\ periods = MaxPeriod /\ rooms = Rooms
    /\ pc = [w \in Writers |-> "idle"]
    /\ batch = [w \in Writers |-> {}]
    /\ edits = [w \in Writers |-> NoSlot]
    /\ wanted = [w \in Writers |-> 0]
    /\ unread = [w \in Writers |-> {}]
    /\ unchecked = {}

Taken == {s \in Slots : slot[s] \in Row}
OfYear(y) == {s \in Taken : slot[s].year = y}

-----------------------------------------------------------------------------
Overlaps(a, b) == a.from <= b.to /\ a.to >= b.from

Conflict(a, b) ==
    /\ a.day = b.day /\ Overlaps(a, b)
    /\ \/ a.teacher = b.teacher
       \/ a.class = b.class
       \/ a.room # NoRoom /\ a.room = b.room

\* Mutant: only the slots of the class itself are compared.
ClearInClass(row, S) == \A s \in S : slot[s].class = row.class => ~Conflict(slot[s], row)

Clear(row, S) == \A s \in S : ~Conflict(slot[s], row)

\* The rows of a batch that can join the slots of S.  They are taken in the order
\* of the batch, and one is left out only for a slot or an earlier row it hits.
Admitted(rows_, S) ==
    {A \in SUBSET rows_ :
        /\ \A a \in A : Clear(a, S) /\ \A b \in A : a # b => ~Conflict(a, b)
        /\ \A a \in rows_ \ A : ~Clear(a, S) \/ \E b \in A : Conflict(a, b)}

\* A writer reads the slots of a year, and knows nothing of the others.
Read(w, y) == unread' = [unread EXCEPT ![w] = Taken \ OfYear(y)]

Advance(w, from, to) == pc[w] = from /\ pc' = [pc EXCEPT ![w] = to]

Return(w, from) ==
    /\ Advance(w, from, "idle")
    /\ batch' = [batch EXCEPT ![w] = {}]
    /\ edits' = [edits EXCEPT ![w] = NoSlot]
    /\ wanted' = [wanted EXCEPT ![w] = 0]

\* Writer w has written the slots of S, which it compared with all but its unread
\* slots; to the others that have read and not yet written, they are unread now.
Wrote(w, S) ==
    /\ unchecked' = {p \in unchecked : p[1] \notin S /\ p[2] \notin S}
         \cup (S \X (unread[w] \ S)) \cup ((unread[w] \ S) \X S)
    /\ unread' = [v \in Writers |->
         CASE pc'[v] = "idle" -> {} [] OTHER -> unread[v] \cup S]

-----------------------------------------------------------------------------
\* POST slots: the slots of the year are read and the new one conflicts with none ...
CreateSlot(r, row) ==
    /\ Advance(r, "idle", "insert")
    /\ Clear(row, OfYear(row.year)) /\ Read(r, row.year)
    /\ batch' = [batch EXCEPT ![r] = {row}]
    /\ UNCHANGED <<tables, edits, wanted, unchecked>>

\* POST copy: the class copied to has no slots, and gets those of the other that
\* conflict with nothing of its year, without a room ...
CopySchedule(r, source, target) ==
    LET copied == {[slot[s] EXCEPT !.class = target, !.year = YearOf[target], !.room = NoRoom] :
                     s \in {t \in OfYear(YearOf[source]) : slot[t].class = source}}
    IN
    /\ Advance(r, "idle", "insert")
    /\ source # target
    /\ \A s \in OfYear(YearOf[target]) : slot[s].class # target
    /\ \E A \in Admitted(copied, OfYear(YearOf[target])) \ {{}} : batch' = [batch EXCEPT ![r] = A]
    /\ Read(r, YearOf[target])
    /\ UNCHANGED <<tables, edits, wanted, unchecked>>

\* ... and they are inserted, unless a room is there no more.
InsertSlots(w) ==
    /\ \A row \in batch[w] : row.room \in rooms \cup {NoRoom}
    /\ \E S \in SUBSET {s \in Slots : slot[s] = NoRow} : \E new \in [S -> batch[w]] :
         /\ \A row \in batch[w] : \E s \in S : new[s] = row
         /\ \A s, t \in S : s # t => new[s] # new[t]
         /\ slot' = [s \in Slots |-> IF s \in S THEN new[s] ELSE slot[s]]
         /\ Wrote(w, S)
    /\ UNCHANGED <<periods, rooms>>

InsertBatch(r) == Return(r, "insert") /\ InsertSlots(r)

\* PATCH slots/{id}: compared with the slots of the year of the request, which
\* is that of the class asked for ...
UpdateSlot(r, s, row) ==
    /\ Advance(r, "idle", "update")
    /\ s \in Taken /\ Clear(row, OfYear(row.year) \ {s}) /\ Read(r, row.year)
    /\ batch' = [batch EXCEPT ![r] = {row}] /\ edits' = [edits EXCEPT ![r] = s]
    /\ UNCHANGED <<tables, wanted, unchecked>>

\* ... and the statement leaves the year of the slot as it is.
WriteSlot(r) ==
    LET s == edits[r] IN
    /\ Return(r, "update")
    /\ s \in Taken
    /\ \E row \in batch[r] :
         /\ row.room \in rooms \cup {NoRoom}
         /\ slot' = [slot EXCEPT ![s] = [row EXCEPT !.year = slot[s].year]]
    /\ Wrote(r, {s})
    /\ UNCHANGED <<periods, rooms>>

DeleteSlot(s) ==
    /\ s \in Taken
    /\ slot' = [slot EXCEPT ![s] = Gone]
    /\ unread' = [w \in Writers |-> unread[w] \ {s}]
    /\ unchecked' = {p \in unchecked : p[1] # s /\ p[2] # s}
    /\ UNCHANGED <<periods, rooms, writerVars>>

-----------------------------------------------------------------------------
\* The preview of a file keeps the rows that conflict with no slot of the year
\* and no row before them; the file is for the active year.
PreviewScheduleImport(u, file) ==
    /\ Advance(u, "idle", "staged")
    /\ \E y \in Years :
         /\ \A row \in file : row.year = y
         /\ \E A \in Admitted(file, OfYear(y)) \ {{}} : batch' = [batch EXCEPT ![u] = A]
         /\ Read(u, y)
    /\ UNCHANGED <<tables, edits, wanted, unchecked>>

\* The commit inserts what the preview kept; the preview stays for another commit.
CommitScheduleImport(u) ==
    /\ pc[u] = "staged" /\ UNCHANGED writerVars
    /\ InsertSlots(u)

\* Fifteen minutes, or a restart.
UploadExpires(u) ==
    /\ Return(u, "staged")
    /\ unread' = [unread EXCEPT ![u] = {}]
    /\ UNCHANGED <<tables, unchecked>>

-----------------------------------------------------------------------------
\* Mutant: a number is in use only where a slot begins.
ReplacePeriodsFrom(r, n) ==
    /\ Advance(r, "idle", "replace")
    /\ \A s \in Taken : slot[s].from <= n
    /\ wanted' = [wanted EXCEPT ![r] = n]
    /\ unread' = [unread EXCEPT ![r] = {}]
    /\ UNCHANGED <<tables, batch, edits, unchecked>>

\* PUT periods: none of the numbers in use is missing from the new ones ...
ReplacePeriods(r, n) ==
    /\ Advance(r, "idle", "replace")
    /\ \A s \in Taken : slot[s].from <= n /\ slot[s].to <= n
    /\ wanted' = [wanted EXCEPT ![r] = n]
    /\ unread' = [unread EXCEPT ![r] = {}]
    /\ UNCHANGED <<tables, batch, edits, unchecked>>

\* ... and the rows are replaced in one transaction.
WritePeriods(r) ==
    /\ Return(r, "replace")
    /\ periods' = wanted[r]
    /\ unread' = [unread EXCEPT ![r] = {}]
    /\ UNCHANGED <<slot, rooms, unchecked>>

\* A foreign key refuses the deletion of a room in use that was not counted.
DeleteRoom(room) ==
    /\ room \in rooms /\ \A s \in Taken : slot[s].room # room
    /\ rooms' = rooms \ {room}
    /\ UNCHANGED <<slot, periods, writerVars, timetableHistory>>

CreateRoom(room) ==
    /\ room \notin rooms /\ rooms' = rooms \cup {room}
    /\ UNCHANGED <<slot, periods, writerVars, timetableHistory>>

\* A statement fails, or the process stops: nothing has been written.
Fail(r) ==
    /\ \E step \in {"insert", "update", "replace"} : Return(r, step)
    /\ unread' = [unread EXCEPT ![r] = {}]
    /\ UNCHANGED <<tables, unchecked>>

TimetableNext ==
    \/ \E r \in Requests :
         \/ \E row \in Rows : CreateSlot(r, row) \/ \E s \in Slots : UpdateSlot(r, s, row)
         \/ \E source, target \in Classes : CopySchedule(r, source, target)
         \/ \E n \in 1..MaxPeriod : ReplacePeriods(r, n)
         \/ InsertBatch(r) \/ WriteSlot(r) \/ WritePeriods(r) \/ Fail(r)
    \/ \E u \in Uploads :
         \/ \E file \in Files : PreviewScheduleImport(u, file)
         \/ CommitScheduleImport(u) \/ UploadExpires(u)
    \/ \E s \in Slots : DeleteSlot(s)
    \/ \E room \in Rooms : DeleteRoom(room) \/ CreateRoom(room)

TimetableSpec == TimetableInit /\ [][TimetableNext]_timetableVars

-----------------------------------------------------------------------------
\* Two slots of a year that a teacher, a class or a room cannot both have are
\* there only because neither was compared with the other: written by requests
\* that overlapped, by the commit of an import whose preview was older (a second
\* commit of the same preview among them), or by an update that was compared with
\* another year (CreateSlotChecked, UpdateSlotChecked, CopySchedule, the import).
ConflictsUnchecked ==
    \A s, t \in Taken :
        s # t /\ slot[s].year = slot[t].year /\ Conflict(slot[s], slot[t])
            => <<s, t>> \in unchecked

\* New periods take the number of a slot away only when the slot came to use it
\* after the numbers in use were read (ReplacePeriods).
PeriodsKept ==
    [][\A s \in Taken :
         slot[s].to <= periods /\ slot[s].to > periods' =>
             \E r \in Requests : pc[r] = "replace" /\ pc'[r] = "idle" /\ s \in unread[r]]_timetableVars
=============================================================================
