-------------------------------- MODULE Grading --------------------------------
(***************************************************************************)
(* The grades of one subject in one class (src/internal/grading): the      *)
(* weighted components of the assessment, the grades, the mapping of       *)
(* components to learning goals (TP), the manual scores of the report, and *)
(* what a pupil's page and the report make of them.                        *)
(*                                                                         *)
(* A sheet is checked as a whole and then written row by row, without a    *)
(* transaction: a failure leaves the rows before it.  A page or a report   *)
(* reads its tables one after the other, while they change.                *)
(*                                                                         *)
(* The switch that turns the module on, the permissions, names and notes   *)
(* are left out; so is the information column "previous", and the year of  *)
(* a component and of a mapping, which no query looks at.                   *)
(***************************************************************************)
EXTENDS Naturals, FiniteSets, Functions

CONSTANTS
    Components, Pupils, SchoolYears, ClassYear,   \* ClassYear: the year of the class
    Weights, Marks, Goals,
    Teachers, Readers,             \* requests that write; pages and reports
    NoComponent, NoPupil, NoMark, NoGoal,
    MaxPuts                        \* bound on the requests that write

ASSUME GradingAssumption ==
    /\ ClassYear \in SchoolYears
    /\ Weights \subseteq Nat \ {0} /\ Marks \subseteq 0..100
    /\ NoMark \notin Marks /\ NoGoal \notin Goals
    /\ NoComponent \notin Components /\ NoPupil \notin Pupils
    /\ MaxPuts \in Nat

VARIABLES
    activeYear, inClass,           \* the active year; the pupils of the class
    type, weight,                  \* of each component
    grade, goal, manual,           \* of component and pupil; of component; of year and pupil
    published,                     \* the years in which the subject is published
    putting, on, sheet, rest, forYear,  \* each request: its step, component, sheet, rows left, year
    reading, whose, report, ofYear,     \* each reader: its step, row, whether a report, year,
    listed, marks, answer,              \*   the components and the marks it read, its answer
    touched,                       \* history: requests whose rows another one has changed
    moments, changes,              \* history: what has been true since a reader began; how often
                                   \*   its tables have changed
    puts

gradeTables == <<activeYear, inClass, type, weight, grade, goal, manual, published>>
putVars == <<putting, on, sheet, rest, forYear, puts>>
readVars == <<reading, whose, report, ofYear, listed, marks, answer>>
gradingVars == <<gradeTables, putVars, readVars, touched, moments, changes>>

Kinds == {"tp", "other"}
Live == {k \in Components : type[k] \in Kinds}
Rows == (Pupils \X (Marks \cup {NoMark})) \cup (Components \X Goals)
Answers == [source : {"manual", "computed", "none", "hidden"}, points : Nat, weight : Nat]
NoScores == [k \in {} |-> NoMark]
Hidden == [source |-> "hidden", points |-> 0, weight |-> 0]

GradingTypeOK ==
    /\ activeYear \in SchoolYears /\ inClass \subseteq Pupils
    /\ type \in [Components -> Kinds \cup {"none", "gone"}]
    /\ weight \in [Components -> Weights \cup {0}]
    /\ grade \in [Components \X Pupils -> Marks \cup {NoMark}]
    /\ goal \in [Components -> Goals \cup {NoGoal}]
    /\ manual \in [SchoolYears \X Pupils -> Marks \cup {NoMark}]
    /\ published \subseteq SchoolYears
    /\ putting \in [Teachers -> {"idle", "grades", "manual", "clear", "goals", "publish", "withdraw"}]
    /\ on \in [Teachers -> Components \cup {NoComponent}]
    /\ sheet \in [Teachers -> SUBSET Rows] /\ rest \in [Teachers -> SUBSET Rows]
    /\ forYear \in [Teachers -> SchoolYears]
    /\ reading \in [Readers -> {"idle", "published", "components", "marks", "manual", "answered"}]
    /\ whose \in [Readers -> Pupils \cup {NoPupil}] /\ report \in [Readers -> BOOLEAN]
    /\ ofYear \in [Readers -> SchoolYears]
    /\ listed \in [Readers -> SUBSET (Components \X Weights)]
    /\ marks \in [Readers -> UNION {[K -> Marks] : K \in SUBSET Components}]
    /\ answer \in [Readers -> Answers]
    /\ touched \subseteq Teachers
    /\ moments \in [Readers -> SUBSET Answers] /\ changes \in [Readers -> 0..2]
    /\ puts \in 0..MaxPuts

GradingInit ==
    /\ activeYear = ClassYear /\ inClass = Pupils
    /\ type = [k \in Components |-> "none"] /\ weight = [k \in Components |-> 0]
    /\ grade = [c \in Components \X Pupils |-> NoMark]
    /\ goal = [k \in Components |-> NoGoal]
    /\ manual = [c \in SchoolYears \X Pupils |-> NoMark]
    /\ published = {}
    /\ putting = [t \in Teachers |-> "idle"] /\ on = [t \in Teachers |-> NoComponent]
    /\ sheet = [t \in Teachers |-> {}] /\ rest = [t \in Teachers |-> {}]
    /\ forYear = [t \in Teachers |-> ClassYear]
    /\ reading = [r \in Readers |-> "idle"] /\ whose = [r \in Readers |-> NoPupil]
    /\ report = [r \in Readers |-> FALSE] /\ ofYear = [r \in Readers |-> ClassYear]
    /\ listed = [r \in Readers |-> {}] /\ marks = [r \in Readers |-> NoScores]
    /\ answer = [r \in Readers |-> Hidden]
    /\ touched = {} /\ puts = 0
    /\ moments = [r \in Readers |-> {}] /\ changes = [r \in Readers |-> 0]

-----------------------------------------------------------------------------
(* The components. *)

\* POST components: the class must be of the active year.
CreateComponent(k, y, w) ==
    /\ type[k] = "none" /\ activeYear = ClassYear
    /\ type' = [type EXCEPT ![k] = y] /\ weight' = [weight EXCEPT ![k] = w]
    /\ UNCHANGED <<activeYear, inClass, grade, goal, manual, published, putVars, readVars>>

\* PATCH components, of any year; what is mapped or graded stays.
UpdateComponent(k, y, w) ==
    /\ k \in Live
    /\ type' = [type EXCEPT ![k] = y] /\ weight' = [weight EXCEPT ![k] = w]
    /\ UNCHANGED <<activeYear, inClass, grade, goal, manual, published, putVars, readVars>>

\* DELETE components: its grades and its goal go with it.
DeleteComponent(k) ==
    /\ k \in Live
    /\ type' = [type EXCEPT ![k] = "gone"]
    /\ grade' = [c \in DOMAIN grade |-> IF c[1] = k THEN NoMark ELSE grade[c]]
    /\ goal' = [goal EXCEPT ![k] = NoGoal]
    /\ UNCHANGED <<activeYear, inClass, weight, manual, published, putVars, readVars>>

-----------------------------------------------------------------------------
(* Sheets. *)

\* The sheets over pupils: a mark for each of some, NoMark to delete it.
MarkSheets(S) == UNION {[T -> Marks \cup {NoMark}] : T \in SUBSET S \ {{}}}
GoalSheets(S) == UNION {[T -> Goals] : T \in SUBSET S}
RowsOf(f) == {<<i, f[i]>> : i \in DOMAIN f}

Put(t, step, k, rows, y) ==
    /\ putting[t] = "idle" /\ puts < MaxPuts /\ puts' = puts + 1
    /\ putting' = [putting EXCEPT ![t] = step] /\ on' = [on EXCEPT ![t] = k]
    /\ sheet' = [sheet EXCEPT ![t] = rows] /\ rest' = [rest EXCEPT ![t] = rows]
    /\ forYear' = [forYear EXCEPT ![t] = y]
    /\ UNCHANGED <<gradeTables, readVars>>

\* The request ends, with its answer or with an error.
Ends(t) ==
    /\ putting' = [putting EXCEPT ![t] = "idle"] /\ on' = [on EXCEPT ![t] = NoComponent]
    /\ sheet' = [sheet EXCEPT ![t] = {}] /\ rest' = [rest EXCEPT ![t] = {}]
    /\ forYear' = [forYear EXCEPT ![t] = ClassYear]
    /\ UNCHANGED <<puts, readVars>>

Written(t, row) ==
    /\ rest' = [rest EXCEPT ![t] = @ \ {row}]
    /\ UNCHANGED <<putting, on, sheet, forYear, puts, readVars>>

\* PUT grades: the component is there and every pupil of the sheet is in the class ...
PutGrades(t, k, f) == k \in Live /\ Put(t, "grades", k, RowsOf(f), ClassYear)

\* ... a row deletes a mark ...
DeleteGrade(t, row) ==
    /\ putting[t] = "grades" /\ row \in rest[t] /\ row[2] = NoMark
    /\ grade' = [grade EXCEPT ![<<on[t], row[1]>>] = NoMark]
    /\ Written(t, row)
    /\ UNCHANGED <<activeYear, inClass, type, weight, goal, manual, published>>

\* ... or sets it, which fails when the component has been deleted.
UpsertGrade(t, row) ==
    /\ putting[t] = "grades" /\ row \in rest[t] /\ row[2] # NoMark
    /\ \/ /\ on[t] \in Live
          /\ grade' = [grade EXCEPT ![<<on[t], row[1]>>] = row[2]]
          /\ Written(t, row)
       \/ on[t] \notin Live /\ Ends(t) /\ UNCHANGED grade
    /\ UNCHANGED <<activeYear, inClass, type, weight, goal, manual, published>>

\* PUT manual-scores: every pupil is in the class; the rows are of the active year ...
PutManualScores(t, f) == Put(t, "manual", NoComponent, RowsOf(f), activeYear)

\* ... and written or deleted one by one.
UpsertManualScore(t, row) ==
    /\ putting[t] = "manual" /\ row \in rest[t]
    /\ manual' = [manual EXCEPT ![<<forYear[t], row[1]>>] = row[2]]
    /\ Written(t, row)
    /\ UNCHANGED <<activeYear, inClass, type, weight, grade, goal, published>>

\* PUT tp-mappings: every component of the sheet is of type "tp" ...
PutTPMappings(t, f) ==
    /\ \A k \in DOMAIN f : type[k] = "tp"
    /\ Put(t, "clear", NoComponent, RowsOf(f), ClassYear)

\* Mutant: the mappings stay, and those of the sheet are written over them.
KeepTPMappings(t) ==
    /\ putting[t] = "clear" /\ putting' = [putting EXCEPT ![t] = "goals"]
    /\ goal' = [k \in Components |->
                  IF \E row \in rest[t] : row[1] = k THEN NoGoal ELSE goal[k]]
    /\ UNCHANGED <<activeYear, inClass, type, weight, grade, manual, published>>
    /\ UNCHANGED <<on, sheet, rest, forYear, puts, readVars>>

\* ... the mappings of class and subject are deleted ...
DeleteTPMappings(t) ==
    /\ putting[t] = "clear" /\ putting' = [putting EXCEPT ![t] = "goals"]
    /\ goal' = [k \in Components |-> NoGoal]
    /\ UNCHANGED <<activeYear, inClass, type, weight, grade, manual, published>>
    /\ UNCHANGED <<on, sheet, rest, forYear, puts, readVars>>

\* ... and the new ones inserted, until one is refused: a component has one goal,
\* and must still be there.
CreateTPMapping(t, row) ==
    /\ putting[t] = "goals" /\ row \in rest[t]
    /\ \/ /\ goal[row[1]] = NoGoal /\ row[1] \in Live
          /\ goal' = [goal EXCEPT ![row[1]] = row[2]]
          /\ Written(t, row)
       \/ /\ goal[row[1]] # NoGoal \/ row[1] \notin Live
          /\ Ends(t) /\ UNCHANGED goal
    /\ UNCHANGED <<activeYear, inClass, type, weight, grade, manual, published>>

\* All rows are written.
Saved(t) == putting[t] \in {"grades", "manual", "goals"} /\ rest[t] = {}

\* The request answers; or a statement fails, and the rows written before stay.
AnswerOrFail(t) ==
    /\ putting[t] # "idle" /\ Ends(t)
    /\ UNCHANGED gradeTables

-----------------------------------------------------------------------------
(* Publication, the year and the class. *)

\* PUT publication, for the active year ...
PutPublication(t, shown) ==
    Put(t, IF shown THEN "publish" ELSE "withdraw", NoComponent, {}, activeYear)

\* ... in a second statement.
SetPublication(t) ==
    /\ putting[t] \in {"publish", "withdraw"}
    /\ published' = IF putting[t] = "publish" THEN published \cup {forYear[t]}
                                              ELSE published \ {forYear[t]}
    /\ Ends(t)
    /\ UNCHANGED <<activeYear, inClass, type, weight, grade, goal, manual>>

ActivateYear(y) ==
    /\ activeYear' = y
    /\ UNCHANGED <<inClass, type, weight, grade, goal, manual, published, putVars, readVars>>

\* A pupil joins the class or leaves it; his grades stay.
Transfer(p) ==
    /\ inClass' = IF p \in inClass THEN inClass \ {p} ELSE inClass \cup {p}
    /\ UNCHANGED <<activeYear, type, weight, grade, goal, manual, published, putVars, readVars>>

-----------------------------------------------------------------------------
(* The page of a pupil, and his row of the report. *)

Ask(r, step, p, isReport) ==
    /\ reading[r] = "idle" /\ reading' = [reading EXCEPT ![r] = step]
    /\ whose' = [whose EXCEPT ![r] = p] /\ report' = [report EXCEPT ![r] = isReport]
    /\ ofYear' = [ofYear EXCEPT ![r] = activeYear]
    /\ UNCHANGED <<gradeTables, putVars, listed, marks, answer>>

\* GET my-grades: a pupil whose class of the active year this is ...
MyGrades(r, p) == p \in inClass /\ activeYear = ClassYear /\ Ask(r, "published", p, FALSE)

\* GET report, for each pupil of the class, with the manual scores of the active year.
Report(r, p) == p \in inClass /\ Ask(r, "components", p, TRUE)

Reads(r, step) ==
    /\ reading' = [reading EXCEPT ![r] = step]
    /\ UNCHANGED <<gradeTables, putVars, whose, report, ofYear>>

\* ... if the subject is published ...
ListPublishedSubjects(r) ==
    /\ reading[r] = "published"
    /\ Reads(r, IF ofYear[r] \in published THEN "components" ELSE "answered")
    /\ UNCHANGED <<listed, marks, answer>>

\* The components there are, with their weights.
ComponentsNow == {<<k, weight[k]>> : k \in Live}

ListComponentsRaw(r) ==
    /\ reading[r] = "components" /\ Reads(r, "marks")
    /\ listed' = [listed EXCEPT ![r] = ComponentsNow]
    /\ UNCHANGED <<marks, answer>>

\* Those of the components that have a mark.
Scored(components, scores) == {c \in components : c[1] \in DOMAIN scores}

\* Mutant: the mean is divided by the weights of all components.
MeanOfAll(components, scores) ==
    [points |-> SumFunction([c \in Scored(components, scores) |-> c[2] * scores[c[1]]]),
     weight |-> SumFunction([c \in components |-> c[2]])]

\* The weighted mean of the components that have a mark: points by weight.
ComputeFinal(components, scores) ==
    [points |-> SumFunction([c \in Scored(components, scores) |-> c[2] * scores[c[1]]]),
     weight |-> SumFunction([c \in Scored(components, scores) |-> c[2]])]

\* A manual score wins over the mean.
Resolve(final, score) ==
    IF score # NoMark THEN [source |-> "manual", points |-> score, weight |-> 1]
    ELSE [source |-> IF final.weight > 0 THEN "computed" ELSE "none",
          points |-> final.points, weight |-> final.weight]

\* The marks a pupil has now for these components.
ScoresNow(components, p) ==
    [k \in {k \in Components : grade[<<k, p>>] # NoMark /\ \E c \in components : c[1] = k} |-> grade[<<k, p>>]]

ListGradesForComponents(r) ==
    LET scores == ScoresNow(listed[r], whose[r])
    IN  /\ reading[r] = "marks" /\ Reads(r, IF report[r] THEN "manual" ELSE "answered")
        /\ marks' = [marks EXCEPT ![r] = scores]
        /\ answer' = IF report[r] THEN answer
                     ELSE [answer EXCEPT ![r] = Resolve(ComputeFinal(listed[r], scores), NoMark)]
        /\ UNCHANGED listed

ListManualScores(r) ==
    /\ reading[r] = "manual" /\ Reads(r, "answered")
    /\ answer' = [answer EXCEPT ![r] = Resolve(ComputeFinal(listed[r], marks[r]),
                                               manual[<<ofYear[r], whose[r]>>])]
    /\ UNCHANGED <<listed, marks>>

ReaderLeaves(r) ==
    /\ reading[r] # "idle" /\ reading' = [reading EXCEPT ![r] = "idle"]
    /\ whose' = [whose EXCEPT ![r] = NoPupil] /\ report' = [report EXCEPT ![r] = FALSE]
    /\ ofYear' = [ofYear EXCEPT ![r] = ClassYear]
    /\ listed' = [listed EXCEPT ![r] = {}] /\ marks' = [marks EXCEPT ![r] = NoScores]
    /\ answer' = [answer EXCEPT ![r] = Hidden]
    /\ UNCHANGED <<gradeTables, putVars>>

-----------------------------------------------------------------------------
(* History, and the specification. *)

\* What the tables say of the row of a reader, all at once.
Truth(r) ==
    LET graded == {k \in Live : grade[<<k, whose[r]>>] # NoMark}
        score == manual[<<ofYear[r], whose[r]>>]
    IN  CASE report[r] /\ score # NoMark -> [source |-> "manual", points |-> score, weight |-> 1]
          [] ~report[r] /\ ofYear[r] \notin published -> Hidden
          [] OTHER -> [source |-> IF graded # {} THEN "computed" ELSE "none",
                       points |-> SumFunction([k \in graded |-> weight[k] * grade[<<k, whose[r]>>]]),
                       weight |-> SumFunction([k \in graded |-> weight[k]])]

\* The rows a request is writing.
Own(t) == CASE putting[t] = "grades" -> [p \in Pupils |-> grade[<<on[t], p>>]]
            [] putting[t] = "manual" -> [p \in Pupils |-> manual[<<forYear[t], p>>]]
            [] OTHER -> goal

Observe ==
    /\ touched' = {t \in Teachers : putting'[t] # "idle" /\
                      (t \in touched \/ (rest'[t] = rest[t] /\ putting'[t] = putting[t] /\ Own(t)' # Own(t)))}
    /\ moments' = [r \in Readers |-> IF reading'[r] = "idle" THEN {} ELSE moments[r] \cup {Truth(r)'}]
    /\ changes' = [r \in Readers |->
          CASE reading'[r] = "idle" \/ reading[r] = "idle" -> 0
            [] <<type, weight, grade, manual, published>>' # <<type, weight, grade, manual, published>>
                 -> IF changes[r] = 0 THEN 1 ELSE 2
            [] OTHER -> changes[r]]

GradingStep ==
    \/ \E k \in Components :
         \/ \E y \in Kinds, w \in Weights : CreateComponent(k, y, w) \/ UpdateComponent(k, y, w)
         \/ DeleteComponent(k)
    \/ \E t \in Teachers :
         \/ \E f \in MarkSheets(inClass) : PutManualScores(t, f) \/ \E k \in Components : PutGrades(t, k, f)
         \/ \E f \in GoalSheets(Live) : PutTPMappings(t, f)
         \/ \E row \in rest[t] :
              DeleteGrade(t, row) \/ UpsertGrade(t, row) \/ UpsertManualScore(t, row) \/ CreateTPMapping(t, row)
         \/ DeleteTPMappings(t) \/ AnswerOrFail(t)
         \/ \E shown \in BOOLEAN : PutPublication(t, shown)
         \/ SetPublication(t)
    \/ \E y \in SchoolYears : ActivateYear(y)
    \/ \E p \in Pupils : Transfer(p)
    \/ \E r \in Readers :
         \/ \E p \in Pupils : MyGrades(r, p) \/ Report(r, p)
         \/ ListPublishedSubjects(r) \/ ListComponentsRaw(r) \/ ListGradesForComponents(r)
         \/ ListManualScores(r) \/ ReaderLeaves(r)

GradingNext == GradingStep /\ Observe

GradingSpec == GradingInit /\ [][GradingNext]_gradingVars

-----------------------------------------------------------------------------
(* Properties. *)

\* When a request answers, the tables hold every row of its sheet, and of mappings
\* nothing else, unless another request has changed them since it began: a row is
\* not passed over, and one that is refused ends the request with an error
\* (PutGrades, PutManualScores, ReplaceTPMappings).
AnsweredIsSaved ==
    \A t \in Teachers \ touched : Saved(t) =>
        /\ \A row \in sheet[t] : Own(t)[row[1]] = row[2]
        /\ putting[t] = "goals" => \A k \in Components : goal[k] # NoGoal => \E row \in sheet[t] : row[1] = k

\* What a page or a report says of a pupil was true of the tables at one moment since
\* the request began, although it reads them one after the other, unless two changes came
\* between its reads (MyGrades, buildReportResolutions): the deletion of a component takes
\* the weight and the marks together.
ReportIsOfOneMoment ==
    \A r \in Readers :
        reading[r] = "answered" /\ changes[r] < 2 => answer[r] \in moments[r]

\* A final score is a mean of marks: it lies between 0 and 100, and nothing is divided by
\* 0, whatever has changed between the list of the components and the marks (computeFinal).
MeanInRange ==
    \A r \in Readers :
        /\ answer[r].points <= 100 * answer[r].weight
        /\ answer[r].source \in {"manual", "computed"} => answer[r].weight > 0
=============================================================================
