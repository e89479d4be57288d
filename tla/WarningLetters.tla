----------------------------- MODULE WarningLetters -----------------------------
(***************************************************************************)
(* Violations and warning letters (src/internal/discipline/service.go).     *)
(*                                                                         *)
(* To record a violation is to insert a row and then, statement by         *)
(* statement and without a transaction, to add up the points of the        *)
(* student, read the thresholds, read the letters he has, draw a number    *)
(* and insert a letter of the highest level that is reached and missing.   *)
(* Calls of one student may overlap; a letter is unique in student and     *)
(* level, and whoever comes second gets none.  Nothing else issues letters: *)
(* neither new thresholds, nor new points of a type, nor a deletion.       *)
(*                                                                         *)
(* One academic year of a school, and one calendar year of its numbers.    *)
(* That a record is refused in a session where it is noted already is one of *)
(* the failures of a call.                                                 *)
(***************************************************************************)
EXTENDS Naturals, FiniteSets, Functions

CONSTANTS Students, Types, Records, Recorders,
          PointValues,   \* points a type may have
          Thresholds,    \* triples the settings may take
          MaxEdits, MaxNumbers,  \* bounds: edits of types and settings, numbers drawn
          NoStudent, NoType

Levels == 1..3

ASSUME LettersAssumption ==
    /\ PointValues \subseteq Nat \ {0}
    /\ Thresholds # {}
    /\ Thresholds \subseteq {T \in [Levels -> Nat \ {0}] : T[1] < T[2] /\ T[2] < T[3]}
    /\ MaxEdits \in Nat /\ MaxNumbers \in Nat
    /\ NoStudent \notin Students /\ NoType \notin Types

VARIABLES
    worth, usable,                 \* of each type: its points (0: no such type); whether active
    ofStudent, ofType,             \* of each record
    limits,                        \* the thresholds
    letters, lastSeq,              \* the number of each letter (0: none); the last one drawn
    doing, pupil, offence,         \* of each call: what it does next, and its input,
    total, reached, level, drawn,  \*   the points it read, the levels they reach, its level and number
    edits,                         \* edits so far
    overdue                        \* history: students whose case may have worsened since it was read

typeVars == <<worth, usable>>
recordVars == <<ofStudent, ofType>>
letterVars == <<letters, lastSeq>>
caller == <<pupil, offence>>
recorder == <<doing, caller, total, reached, level, drawn>>
warningVars == <<typeVars, recordVars, limits, letterVars, recorder, edits, overdue>>

Stages == {"idle", "record", "list", "settings", "letters", "number", "letter"}

WarningTypeOK ==
    /\ worth \in [Types -> PointValues \cup {0}] /\ usable \in [Types -> BOOLEAN]
    /\ ofStudent \in [Records -> Students \cup {NoStudent}]
    /\ ofType \in [Records -> Types \cup {NoType}]
    /\ limits \in Thresholds
    /\ letters \in [Students \X Levels -> Nat] /\ lastSeq \in Nat
    /\ doing \in [Recorders -> Stages]
    /\ pupil \in [Recorders -> Students \cup {NoStudent}]
    /\ offence \in [Recorders -> Types \cup {NoType}]
    /\ total \in [Recorders -> Nat] /\ reached \in [Recorders -> SUBSET Levels]
    /\ level \in [Recorders -> Levels \cup {0}] /\ drawn \in [Recorders -> Nat]
    /\ edits \in 0..MaxEdits /\ overdue \subseteq Students

WarningInit ==
    /\ worth \in [Types -> PointValues] /\ usable = [t \in Types |-> TRUE]
    /\ ofStudent = [r \in Records |-> NoStudent]
    /\ ofType = [r \in Records |-> NoType]
    /\ limits \in Thresholds
    /\ letters = [k \in Students \X Levels |-> 0] /\ lastSeq = 0
    /\ doing = [c \in Recorders |-> "idle"] /\ pupil = [c \in Recorders |-> NoStudent]
    /\ offence = [c \in Recorders |-> NoType]
    /\ total = [c \in Recorders |-> 0] /\ reached = [c \in Recorders |-> {}]
    /\ level = [c \in Recorders |-> 0] /\ drawn = [c \in Recorders |-> 0]
    /\ edits = 0 /\ overdue = {}

Go(c, stage) == doing' = [doing EXCEPT ![c] = stage]

Leave(c) ==
    /\ Go(c, "idle")
    /\ pupil' = [pupil EXCEPT ![c] = NoStudent]
    /\ offence' = [offence EXCEPT ![c] = NoType]
    /\ total' = [total EXCEPT ![c] = 0]
    /\ reached' = [reached EXCEPT ![c] = {}]
    /\ level' = [level EXCEPT ![c] = 0]
    /\ drawn' = [drawn EXCEPT ![c] = 0]

-----------------------------------------------------------------------------
(* POST /api/discipline/records. *)

RecordViolation(c, s, t) ==
    /\ doing[c] = "idle"
    /\ worth[t] # 0 /\ usable[t]
    /\ pupil' = [pupil EXCEPT ![c] = s]
    /\ offence' = [offence EXCEPT ![c] = t]
    /\ Go(c, "record")
    /\ UNCHANGED <<typeVars, recordVars, limits, letterVars, total, reached, level, drawn, edits, overdue>>

CreateStudentViolation(c) ==
    /\ doing[c] = "record"
    /\ worth[offence[c]] # 0
    /\ \E r \in Records :
        /\ ofStudent[r] = NoStudent
        /\ ofStudent' = [ofStudent EXCEPT ![r] = pupil[c]]
        /\ ofType' = [ofType EXCEPT ![r] = offence[c]]
    /\ Go(c, "list")
    /\ UNCHANGED <<typeVars, limits, letterVars, caller, total, reached, level, drawn, edits, overdue>>

Points(s) == SumFunction([r \in {r \in Records : ofStudent[r] = s} |-> worth[ofType[r]]])

ListViolations(c) ==
    /\ doing[c] = "list"
    /\ total' = [total EXCEPT ![c] = Points(pupil[c])]
    /\ Go(c, "settings")
    /\ overdue' = overdue \ {pupil[c]}
    /\ UNCHANGED <<typeVars, recordVars, limits, letterVars, caller, reached, level, drawn, edits>>

Reached(points) == {l \in Levels : points >= limits[l]}

GetSPSettings(c) ==
    /\ doing[c] = "settings"
    /\ reached' = [reached EXCEPT ![c] = Reached(total[c])]
    /\ total' = [total EXCEPT ![c] = 0]
    /\ Go(c, "letters")
    /\ UNCHANGED <<typeVars, recordVars, limits, letterVars, caller, level, drawn, edits, overdue>>

\* Mutant: only the lowest missing level is considered.
LowestMissing(s, L) == {l \in L : letters[<<s, l>>] = 0 /\ \A m \in L : m < l => letters[<<s, m>>] # 0}

HighestMissing(s, L) == {l \in L : letters[<<s, l>>] = 0 /\ \A m \in L : m > l => letters[<<s, m>>] # 0}

ListWarningLetters(c) ==
    /\ doing[c] = "letters"
    /\ IF HighestMissing(pupil[c], reached[c]) = {}
         THEN Leave(c)
         ELSE /\ \E l \in HighestMissing(pupil[c], reached[c]) : level' = [level EXCEPT ![c] = l]
              /\ reached' = [reached EXCEPT ![c] = {}]
              /\ Go(c, "number")
              /\ UNCHANGED <<caller, total, drawn>>
    /\ UNCHANGED <<typeVars, recordVars, limits, letterVars, edits, overdue>>

NextLetterNumber(c) ==
    /\ doing[c] = "number" /\ lastSeq < MaxNumbers
    /\ lastSeq' = lastSeq + 1
    /\ drawn' = [drawn EXCEPT ![c] = lastSeq + 1]
    /\ Go(c, "letter")
    /\ UNCHANGED <<typeVars, recordVars, limits, letters, caller, total, reached, level, edits, overdue>>

\* A letter of the level that another call has issued meanwhile is no error: the number is lost.
CreateWarningLetter(c) ==
    /\ doing[c] = "letter"
    /\ letters' = IF letters[<<pupil[c], level[c]>>] = 0
                    THEN [letters EXCEPT ![<<pupil[c], level[c]>>] = drawn[c]]
                    ELSE letters
    /\ Leave(c)
    /\ UNCHANGED <<typeVars, recordVars, limits, lastSeq, edits, overdue>>

\* A statement fails, the record is refused (noted in this session already, its
\* type deleted meanwhile), or it is deleted before it is read back: the call
\* ends, and a record it has inserted stays without its evaluation.
CallFails(c) ==
    /\ doing[c] # "idle"
    /\ overdue' = IF doing[c] = "record" THEN overdue ELSE overdue \cup {pupil[c]}
    /\ Leave(c)
    /\ UNCHANGED <<typeVars, recordVars, limits, letterVars, edits>>

-----------------------------------------------------------------------------
(* Records, types and settings. *)

DeleteRecord(r) ==
    /\ ofStudent[r] # NoStudent
    /\ ofStudent' = [ofStudent EXCEPT ![r] = NoStudent]
    /\ ofType' = [ofType EXCEPT ![r] = NoType]
    /\ UNCHANGED <<typeVars, limits, letterVars, recorder, edits, overdue>>

Edit ==
    /\ edits < MaxEdits /\ edits' = edits + 1
    /\ overdue' = Students
    /\ UNCHANGED <<recordVars, letterVars, recorder>>

SaveViolationType(t, points, active) ==
    /\ worth' = [worth EXCEPT ![t] = points]
    /\ usable' = [usable EXCEPT ![t] = active]
    /\ Edit
    /\ UNCHANGED limits

\* The foreign key keeps a type that a record has.
DeleteViolationType(t) ==
    /\ \A r \in Records : ofType[r] # t
    /\ worth' = [worth EXCEPT ![t] = 0]
    /\ Edit
    /\ UNCHANGED <<usable, limits>>

PutSPSettings(T) ==
    /\ limits' = T
    /\ Edit
    /\ UNCHANGED typeVars

WarningNext ==
    \/ \E c \in Recorders :
        \/ \E s \in Students, t \in Types : RecordViolation(c, s, t)
        \/ CreateStudentViolation(c) \/ ListViolations(c) \/ GetSPSettings(c) \/ ListWarningLetters(c)
        \/ NextLetterNumber(c) \/ CreateWarningLetter(c) \/ CallFails(c)
    \/ \E r \in Records : DeleteRecord(r)
    \/ \E t \in Types : \/ \E p \in PointValues, b \in BOOLEAN : SaveViolationType(t, p, b)
                        \/ DeleteViolationType(t)
    \/ \E T \in Thresholds : PutSPSettings(T)

WarningSpec == WarningInit /\ [][WarningNext]_warningVars

-----------------------------------------------------------------------------
(* Properties. *)

\* Once no call of a student is under way he has a letter of the highest level
\* his points reach, or of a higher one: of calls that overlap, the last to add
\* up his points sees every record, and issues the letter or meets it.  The
\* exception is a student for whom a call failed after its insert, or types or
\* settings were edited, since his points were last added up.
\* (evaluateAndIssueLetter, service.go:480)
ReachedIsWarned ==
    \A s \in Students \ overdue :
        (\A c \in Recorders : pupil[c] # s) =>
            \A l \in Reached(Points(s)) : \E m \in l..3 : letters[<<s, m>>] # 0

\* No two letters have a number in common: it is drawn in one statement and carried to
\* the letter by a call that may meet others, or fail (NextLetterNumber, CreateWarningLetter).
OneLetterPerNumber ==
    \A j, k \in Students \X Levels : letters[j] # 0 /\ letters[j] = letters[k] => j = k
=============================================================================
