----------------------------- MODULE Regression -----------------------------
(***************************************************************************)
(* The two regression tools, "custom" and "google": from the arguments to  *)
(* the pair of benchmark snapshots they select, the comparison they print  *)
(* and the reports they leave.  The tools are one program but for the      *)
(* snapshots they own and how those name a benchmark.                      *)
(*                                                                         *)
(* An argument is a record: [kind |-> "word", parts, arg] is a word, its   *)
(* parts those between underscores and arg what follows a slash;           *)
(* [kind |-> "tag", letter, number, tail] reads like a version,            *)
(* "v" "1.2.0" "-rc"; [kind |-> "id", letter, index] like the id of a      *)
(* method, "p3".  A benchmark's name is a sequence of words, and a         *)
(* snapshot a sequence of [suite, name, iterations, ns].                   *)
(***************************************************************************)
EXTENDS Integers, Sequences, SequencesExt, FiniteSets

CONSTANTS
    Disks,                 \* what benchmarks/ may hold (see Init)
    Commands,              \* the argument sequences a user may type
    Initial,               \* the first letter, in upper case, of each benchmark's name
    Spelling,              \* the benchmarks' names in alphabetical order
    Suites,                \* the names of their suites
    Tails,                 \* what may follow a version's number, in alphabetical order
    MaxRuns,               \* bound: runs of a tool in a row
    Missing                \* no file, or no number in a name

Tools == {"custom", "google"}

\* The name of a baseline folder, read as a version: its number is Missing if it
\* does not parse.
Tags == [kind : {"tag"}, letter : STRING, number : [1..3 -> Nat] \cup {Missing},
         tail : ToSet(Tails)]
Entries == [suite : Suites, name : ToSet(Spelling), iterations : Nat, ns : Nat]
Snapshots == Seq(Entries) \cup {Missing}

ASSUME TailsAssumption == Tails \in Seq(STRING) /\ IsInjective(Tails)

ASSUME DisksAssumption ==
    \A d \in Disks :
        /\ IsFiniteSet(d.folders)
        /\ \A t \in Tools : d.live[t] \in Snapshots
        /\ \A folder \in d.folders : folder.tag \in Tags /\ \A t \in Tools : folder[t] \in Snapshots

VARIABLES
    disk,                  \* benchmarks/: baseline folders, live results; whether
                           \* regression/results/ exists
    reports,               \* the JSON and the markdown report of each tool
    runs,                  \* how many runs have been started
    tool, argv,            \* the program that runs, and its arguments
    pc,                    \* how far main() has got
    files,                 \* baselineFile and currentFile
    method,                \* methodFilter
    loaded,                \* baselineResults and currentResults
    rows,                  \* regression_results()
    output,                \* the tables: "header", "line", "row" and "end" of each
    listing,               \* what list or methods has printed
    completed              \* history: the last comparison of each tool that succeeded

runVars == <<tool, argv, pc, files, method, loaded, rows, output, listing>>
vars == <<disk, reports, runs, runVars, completed>>

Live == [kind |-> "live"]
None == <<>>
NoFiles == [baseline |-> Live, current |-> Live]
NoResults == [baseline |-> <<>>, current |-> <<>>]
Word(text) == [kind |-> "word", parts |-> <<text>>, arg |-> ""]

Init ==
    /\ disk \in Disks
    /\ reports = [t \in Tools |-> [json |-> None, markdown |-> None]]
    /\ runs = 0
    /\ tool = "custom"
    /\ argv = <<>>
    /\ pc = "exit"
    /\ files = NoFiles
    /\ method = <<>>
    /\ loaded = NoResults
    /\ rows = <<>>
    /\ output = <<>>
    /\ listing = <<>>
    /\ completed = [t \in Tools |-> None]

----------------------------------------------------------------------------
\* Orders.

Position(order, x) == CHOOSE i \in DOMAIN order : order[i] = x

\* std::sort(): the elements of a set, each behind those that are less.
InOrder(S, Less(_, _)) ==
    LET less == [x \in S |-> Cardinality({y \in S : Less(y, x)})]
    IN  [n \in 1..Cardinality(S) |-> CHOOSE x \in S : less[x] = n - 1]

\* The elements of a sequence at the given positions, in their order.
Earlier(i, j) == i < j
Pick(s, positions) ==
    LET kept == InOrder(positions, Earlier) IN [n \in DOMAIN kept |-> s[kept[n]]]

----------------------------------------------------------------------------
\* Baseline folders.

\* isCustomBaselineName() looks at the name alone, isGoogleBaselineName() for
\* its snapshot too.
CustomOwns(folder) == folder.tag.letter \in {"v", "V"}
GoogleOwns(folder) == folder.tag.letter \in {"v", "V"} /\ folder.google # Missing
Owns(folder) == IF tool = "custom" THEN CustomOwns(folder) ELSE GoogleOwns(folder)

Owned == {folder \in disk.folders : folder.isDirectory /\ Owns(folder)}

\* parseBaseline() accepts whatever follows the number.
Parses(tag) == tag.number # Missing

\* A version given as an argument has nothing behind the number.
tryParseVersionArg(token) ==
    token.kind = "tag" /\ token.letter \in {"v", "V"} /\ Parses(token) /\ token.tail = ""

\* Baseline's operator<=>: the numbers and, if they are the same, the name;
\* upper case is before lower case.
NameBefore(a, b) == \/ a.letter = "V" /\ b.letter = "v"
                    \/ /\ a.letter = b.letter
                       /\ Position(Tails, a.tail) < Position(Tails, b.tail)

Before(a, b) ==
    \/ \E i \in 1..3 : /\ a.number[i] < b.number[i]
                       /\ \A j \in 1..(i - 1) : a.number[j] = b.number[j]
    \/ a.number = b.number /\ NameBefore(a, b)

OwnedTags == {folder.tag : folder \in Owned}
AllParse == \A tag \in OwnedTags : Parses(tag)
Sorted == InOrder(OwnedTags, Before)
Latest == CHOOSE tag \in OwnedTags : \A other \in OwnedTags \ {tag} : Before(other, tag)

----------------------------------------------------------------------------
\* Snapshots.

\* What is in a file: a tool's live results, or its snapshot in the folder of
\* that very name; Missing if there is none.
Stored(t, file) ==
    IF file = Live THEN disk.live[t]
    ELSE LET found == {folder \in disk.folders : folder.tag = file}
         IN  IF found = {} THEN Missing ELSE (CHOOSE folder \in found : TRUE)[t]

\* loadResults(): Missing stands for the exception.
Contents(file) == Stored(tool, file)

Names(results) == {results[i].name : i \in DOMAIN results}

ByName(a, b) == Position(Spelling, a) < Position(Spelling, b)

\* groupMethodsByLetter(uniqueOperations(results)): the methods of one letter.
Members(results, letter) ==
    InOrder({name \in Names(results) : Initial[name] = letter}, ByName)

Letters(results) == {Initial[name] : name \in Names(results)}

filterByOperation(results, name) ==
    Pick(results, {i \in DOMAIN results : results[i].name = name})

\* A sequence of words that looks like the id of a method; only letters and
\* digits make one.
looksLikeMethodId(words) == Len(words) = 1 /\ words[1].kind = "id"

\* Mutant: ids count from 0.
resolveFromZero(id, results) ==
    LET members == Members(results, id.letter)
    IN  IF id.index + 1 \in DOMAIN members THEN members[id.index + 1] ELSE Missing

\* The method that an id means, Missing if it is unknown or out of range.
resolveMethodId(id, results) ==
    LET members == Members(results, id.letter)
    IN  IF id.index \in DOMAIN members THEN members[id.index] ELSE Missing

\* getCns(): the first entry of that name, for the custom tool with as many
\* iterations; 0 if there is none.
Cns(results, found) ==
    IF found = {} THEN 0 ELSE results[CHOOSE i \in found : \A j \in found : i <= j].ns

\* Mutant: the number of iterations is not compared.
CustomCnsByName(results, entry) ==
    Cns(results, {i \in DOMAIN results : results[i].name = entry.name})

CustomCns(results, entry) ==
    Cns(results, {i \in DOMAIN results : /\ results[i].name = entry.name
                                         /\ results[i].iterations = entry.iterations})
GoogleCns(results, entry) ==
    Cns(results, {i \in DOMAIN results : results[i].name = entry.name})

\* baseName(): cut at the first slash, and then before the last underscore, with
\* whatever follows either.
BaseName(name) ==
    LET end == Min({i \in DOMAIN name : name[i].arg # ""} \cup {Len(name)})
        split == {i \in 1..end : Len(name[i].parts) > 1}
        last == IF split = {} THEN end ELSE Max(split)
        kept == IF split = {} THEN name[end].parts ELSE Front(name[last].parts)
    IN  Append(SubSeq(name, 1, last - 1), [kind |-> "word", parts |-> kept, arg |-> ""])

\* The heading under which a row is printed.
GroupIn(t, entry) == IF t = "custom" THEN entry.suite ELSE BaseName(entry.name)
GroupOf(entry) == GroupIn(tool, entry)

\* The sign and colour of a change in percent, (baseline - current) / current,
\* less than 1 being noise; by a current value of 0 it is infinite.
Verdict(baseline, current) ==
    LET gain == baseline - current
    IN  IF \/ baseline = 0
           \/ 100 * gain \in (1 - current)..(current - 1)
        THEN "tie" ELSE IF gain > 0 THEN "faster" ELSE "slower"

----------------------------------------------------------------------------
\* main().

Fail == pc' = "failed" /\ UNCHANGED <<disk, reports, runs, tool, argv, files, method, loaded,
                                      rows, output, listing, completed>>

\* A user starts one of the tools.
Start ==
    /\ pc \in {"exit", "failed"}
    /\ runs < MaxRuns
    /\ runs' = runs + 1
    /\ tool' \in Tools
    /\ argv' \in Commands
    /\ pc' = "dispatch"
    /\ files' = NoFiles
    /\ method' = <<>>
    /\ loaded' = NoResults
    /\ rows' = <<>>
    /\ output' = <<>>
    /\ listing' = <<>>
    /\ UNCHANGED <<disk, reports, completed>>

IsList == argv = <<Word("list")>>
IsMethods == argv # <<>> /\ Len(argv) <= 2 /\ argv[1] = Word("methods")
IsHelp == argv = <<Word("help")>>

\* What list, methods or help prints, and the end of the run.
Answer(lines) ==
    /\ listing' = lines
    /\ pc' = "exit"
    /\ UNCHANGED <<disk, reports, runs, tool, argv, files, method, loaded, rows, output,
                   completed>>

printUsage == pc = "dispatch" /\ IsHelp /\ Answer(<<>>)

printList ==
    /\ pc = "dispatch"
    /\ IsList
    /\ IF AllParse THEN Answer(Sorted) ELSE Fail

\* The baselines methods is asked about: one, by its name, or all.
Asked == IF Len(argv) = 1 THEN Sorted
         ELSE Pick(Sorted, {i \in DOMAIN Sorted : Sorted[i] = argv[2]})

\* What methods prints of a baseline: every method beside its id.
Methods(tag) ==
    LET results == Contents(tag)
    IN  [tag |-> tag,
         ids |-> UNION {{[letter |-> l, index |-> i, name |-> Members(results, l)[i]] :
                         i \in DOMAIN Members(results, l)} : l \in Letters(results)}]

printMethods ==
    /\ pc = "dispatch"
    /\ IsMethods
    /\ IF /\ AllParse
          /\ Len(argv) = 2 => Asked # <<>>
          /\ \A i \in DOMAIN Asked : Contents(Asked[i]) # Missing
       THEN Answer([i \in DOMAIN Asked |-> Methods(Asked[i])])
       ELSE Fail

\* How many of the first two arguments are versions.
VersionCount ==
    IF argv = <<>> \/ ~tryParseVersionArg(argv[1]) THEN 0
    ELSE IF Len(argv) >= 2 /\ tryParseVersionArg(argv[2]) THEN 2 ELSE 1

Versions(newest) ==
    CASE VersionCount = 0 -> [baseline |-> newest, current |-> Live]
      [] VersionCount = 1 -> [baseline |-> argv[1], current |-> Live]
      [] VersionCount = 2 -> [baseline |-> argv[2], current |-> argv[1]]

\* The two sides, and the words that are left, which name a method.  Without a
\* version the newest baseline is taken, if every folder's name parses.
Select ==
    /\ pc = "dispatch"
    /\ ~(IsList \/ IsMethods \/ IsHelp)
    /\ IF VersionCount = 0 /\ (OwnedTags = {} \/ ~AllParse) THEN Fail
       ELSE /\ files' = Versions(IF VersionCount = 0 THEN Latest ELSE argv[1])
            /\ method' = SubSeq(argv, VersionCount + 1, Len(argv))
            /\ pc' = "resolve"
            /\ UNCHANGED <<disk, reports, runs, tool, argv, loaded, rows, output, listing,
                           completed>>

\* An id is looked up in the baseline's methods, not the current run's.
Resolve ==
    /\ pc = "resolve"
    /\ LET results == Contents(files.baseline)
           found == resolveMethodId(method[1], results)
       IN  IF looksLikeMethodId(method) /\ (results = Missing \/ found = Missing) THEN Fail
           ELSE /\ method' = IF looksLikeMethodId(method) THEN found ELSE method
                /\ pc' = "load"
                /\ UNCHANGED <<disk, reports, runs, tool, argv, files, loaded, rows, output,
                               listing, completed>>

Load ==
    /\ pc = "load"
    /\ IF Missing \in {Contents(files.baseline), Contents(files.current)} THEN Fail
       ELSE /\ loaded' = [baseline |-> Contents(files.baseline),
                          current |-> Contents(files.current)]
            /\ pc' = "filter"
            /\ UNCHANGED <<disk, reports, runs, tool, argv, files, method, rows, output,
                           listing, completed>>

Filtered(results) == IF method = <<>> THEN results ELSE filterByOperation(results, method)

\* Mutant: a side that lacks the method is not reported.
FilterQuietly ==
    /\ pc = "filter"
    /\ loaded' = [baseline |-> Filtered(loaded.baseline), current |-> Filtered(loaded.current)]
    /\ pc' = "print"
    /\ UNCHANGED <<disk, reports, runs, tool, argv, files, method, rows, output, listing,
                   completed>>

Filter ==
    /\ pc = "filter"
    /\ LET left == [side \in {"baseline", "current"} |-> Filtered(loaded[side])]
       IN  IF method # <<>> /\ <<>> \in {left.baseline, left.current} THEN Fail
           ELSE /\ loaded' = left
                /\ pc' = "print"
                /\ UNCHANGED <<disk, reports, runs, tool, argv, files, method, rows, output,
                               listing, completed>>

----------------------------------------------------------------------------
\* printRegression(): a row per baseline entry, a table per heading.

Header(entry) == [event |-> "header", group |-> GroupOf(entry)]
Line == [event |-> "line"]
End == [event |-> "end"]

\* What comes before a row: a new table if the heading changes, in the custom
\* tool a line if only the name does.
CustomLead(entry, last) == IF entry.name # last.name THEN <<Line>> ELSE <<>>
GoogleLead(entry, last) == <<>>

Lead(entry) ==
    IF rows = <<>> THEN <<Header(entry)>>
    ELSE LET last == loaded.baseline[Len(rows)]
         IN  IF GroupOf(last) # GroupOf(entry) THEN <<End, Header(entry)>>
             ELSE IF tool = "custom" THEN CustomLead(entry, last) ELSE GoogleLead(entry, last)

\* printComparisonRow() of a baseline entry beside the current run's.
RowOf(entry, now) ==
    [event |-> "row", name |-> entry.name, iterations |-> entry.iterations,
     baseline |-> entry.ns, current |-> now, verdict |-> Verdict(entry.ns, now)]
CustomRow(entry) == RowOf(entry, CustomCns(loaded.current, entry))
GoogleRow(entry) == RowOf(entry, GoogleCns(loaded.current, entry))
Row(entry) == IF tool = "custom" THEN CustomRow(entry) ELSE GoogleRow(entry)

PrintRow ==
    /\ pc = "print"
    /\ Len(rows) < Len(loaded.baseline)
    /\ LET entry == loaded.baseline[Len(rows) + 1]
       IN  /\ rows' = Append(rows, Row(entry))
           /\ output' = output \o Lead(entry) \o <<Row(entry)>>
    /\ UNCHANGED <<disk, reports, runs, tool, argv, pc, files, method, loaded, listing,
                   completed>>

\* printSummary() counts the verdicts; it prints nothing if there are no rows.
Count(verdict) == Cardinality({i \in DOMAIN rows : rows[i].verdict = verdict})
Summary == [event |-> "summary", faster |-> Count("faster"), slower |-> Count("slower"),
            tie |-> Count("tie")]

PrintEnd ==
    /\ pc = "print"
    /\ Len(rows) = Len(loaded.baseline)
    /\ output' = IF rows = <<>> THEN output ELSE output \o <<End, Summary>>
    /\ pc' = "export"
    /\ UNCHANGED <<disk, reports, runs, tool, argv, files, method, loaded, rows, listing,
                   completed>>

\* The markdown report has the tables without their borders.
Markdown ==
    Pick(output, {i \in DOMAIN output : output[i].event \in {"header", "row", "summary"}})

\* exportJson() and exportMarkdown(), under the names of the tool's reports;
\* without the directory neither writes anything.
Written == [json |-> rows, markdown |-> Markdown]
CustomExport == IF disk.resultsExist THEN [reports EXCEPT !["custom"] = Written] ELSE reports
GoogleExport == IF disk.resultsExist THEN [reports EXCEPT !["google"] = Written] ELSE reports

Export ==
    /\ pc = "export"
    /\ reports' = IF tool = "custom" THEN CustomExport ELSE GoogleExport
    /\ completed' = [completed EXCEPT ![tool] = [files |-> files, method |-> method]]
    /\ pc' = "exit"
    /\ UNCHANGED <<disk, runs, tool, argv, files, method, loaded, rows, output, listing>>

Run == \/ printUsage \/ printList \/ printMethods \/ Select \/ Resolve \/ Load \/ Filter
       \/ PrintRow \/ PrintEnd \/ Export

\* The two main() functions take the same steps.
CustomMain == tool = "custom" /\ Run
GoogleMain == tool = "google" /\ Run

\* Every run the bound allows is over.
Finished == pc \in {"exit", "failed"} /\ runs = MaxRuns /\ UNCHANGED vars

Next == Start \/ CustomMain \/ GoogleMain \/ Finished

Spec == Init /\ [][Next]_vars

----------------------------------------------------------------------------
\* Properties.

\* What a run of the benchmarks leaves, and ComparisonShown needs: a benchmark
\* has one time, and those of one heading follow each other.
Orderly(t, s) ==
    /\ \A i, j \in DOMAIN s :
          (s[i].name = s[j].name /\ (t = "custom" => s[i].iterations = s[j].iterations))
             => s[i].ns = s[j].ns
    /\ \A i, j, k \in DOMAIN s :
          (i < j /\ j < k /\ GroupIn(t, s[i]) = GroupIn(t, s[k]))
             => GroupIn(t, s[j]) = GroupIn(t, s[i])
OrderlySnapshots ==
    \A d \in Disks, t \in Tools :
        \A s \in {d.live[t]} \cup {folder[t] : folder \in d.folders} :
            s # Missing => Orderly(t, s)

\* A comparison is over.
Compared == pc = "export"

\* The entries a snapshot has for the method asked for, or all.
Wanted(results) == Pick(results, {i \in DOMAIN results : method \in {<<>>, results[i].name}})

\* What is compared: the row of each entry of the baseline, in its order, with
\* the very benchmark of the current run if that has it: the one of the same
\* suite, name and iterations.  A method that was asked for is compared, and
\* with something.  The summary counts every row once.
ComparesLikeWithLike ==
    Compared =>
        LET entries == Wanted(Contents(files.baseline))
            others == ToSet(Contents(files.current))
        IN  /\ Len(rows) = Len(entries)
            /\ \A i \in DOMAIN rows :
                  LET twins == {e \in others : /\ e.name = entries[i].name
                                               /\ e.suite = entries[i].suite
                                               /\ tool = "custom" =>
                                                    e.iterations = entries[i].iterations}
                  IN  /\ rows[i].baseline = entries[i].ns
                      /\ \A e \in twins : rows[i].current = e.ns
            /\ method # <<>> => /\ rows # <<>>
                                /\ \E e \in others : e.name = method
            /\ rows # <<>> =>
                  LET summary == output[Len(output)]
                  IN  summary.faster + summary.slower + summary.tie = Len(rows)

\* Every row stands in an open table under its own heading, a table is ended
\* before the next begins, and each heading has one table.
TablesWellFormed ==
    LET headers(i) == {j \in 1..i : output[j].event = "header"}
        ends(i) == {j \in 1..i : output[j].event = "end"}
        rowsUpTo(i) == Cardinality({j \in 1..i : output[j].event = "row"})
        heading(i) == output[CHOOSE j \in headers(i) : \A k \in headers(i) : k <= j].group
    IN  /\ \A i \in DOMAIN output :
              /\ Cardinality(headers(i)) - Cardinality(ends(i)) \in {0, 1}
              /\ output[i].event \in {"row", "line"} =>
                    Cardinality(headers(i)) = Cardinality(ends(i)) + 1
              /\ output[i].event = "row" =>
                    heading(i) = GroupOf(loaded.baseline[rowsUpTo(i)])
        /\ Compared => Cardinality(headers(Len(output))) = Cardinality(ends(Len(output)))
        /\ Compared => Cardinality(headers(Len(output)))
                       = Cardinality({GroupOf(loaded.baseline[i]) : i \in DOMAIN rows})

\* The comparison that is printed is the one that was asked for, row by row.
ComparisonShown == ComparesLikeWithLike /\ TablesWellFormed

\* An id that methods prints beside a method of a baseline means that method
\* when it is given with that baseline, and only that one.
ListedIdsResolve ==
    (pc = "exit" /\ IsMethods) =>
        \A i \in DOMAIN listing : \A id \in listing[i].ids :
            resolveMethodId(id, Contents(listing[i].tag)) = id.name

\* The numbers of a are not after those of b.
NotAfter(a, b) ==
    \/ a.number = b.number
    \/ \E i \in 1..3 : /\ a.number[i] < b.number[i]
                        /\ \A j \in 1..(i - 1) : a.number[j] = b.number[j]

\* list shows the versions from the oldest to the newest, and a comparison that
\* names no version is with the last of them.
NewestIsLatest ==
    /\ (pc = "exit" /\ IsList) =>
          /\ ToSet(listing) = OwnedTags
          /\ \A i, j \in DOMAIN listing : i <= j => NotAfter(listing[i], listing[j])
    /\ (Compared /\ VersionCount = 0) => \A tag \in OwnedTags : NotAfter(tag, files.baseline)

\* What list and methods show is what a comparison then does.
ListingsAgree == ListedIdsResolve /\ NewestIsLatest

\* The reports of t are those of its last comparison that succeeded, complete,
\* the markdown with the rows of the JSON.
LastSuccess(t) ==
    LET of == completed[t]
        written == reports[t].markdown
        kept == Pick(written, {i \in DOMAIN written : written[i].event = "row"})
        stored == Stored(t, of.files.baseline)
        entries == Pick(stored, {i \in DOMAIN stored : of.method \in {<<>>, stored[i].name}})
    IN  IF of = None \/ ~disk.resultsExist
        THEN reports[t] = [json |-> None, markdown |-> None]
        ELSE /\ kept = reports[t].json
             /\ [i \in DOMAIN kept |-> <<kept[i].name, kept[i].baseline>>]
                = [i \in DOMAIN entries |-> <<entries[i].name, entries[i].ns>>]
             /\ of.method # <<>> => kept # <<>>

\* Between two runs the reports on disk are those of each tool's last comparison
\* that succeeded: a run that fails, or one of the other tool, leaves them alone.
ReportsOfLastSuccess == pc \in {"exit", "failed"} => \A t \in Tools : LastSuccess(t)

\* A benchmark is called faster only if both sides have measured it, and the
\* current run in less time.
FasterIsMeasured ==
    Compared => \A i \in DOMAIN rows : rows[i].verdict = "faster" =>
        \E j \in DOMAIN loaded.current :
            /\ loaded.current[j].name = rows[i].name
            /\ loaded.current[j].ns < rows[i].baseline
=============================================================================
