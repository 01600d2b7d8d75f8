---------------------------- MODULE MCRegression ----------------------------
(***************************************************************************)
(* Instance of Regression for TLC: a few baseline folders, among them the  *)
(* odd ones, and the arguments that tell the branches of main() apart.     *)
(***************************************************************************)
EXTENDS Regression, TLC

W(text) == Word(text)
Tag(letter, number, tail) == [kind |-> "tag", letter |-> letter, number |-> number, tail |-> tail]
Id(letter, index) == [kind |-> "id", letter |-> letter, index |-> index]

\* The benchmarks' names: of one word, of two, two that differ behind the
\* underscore, and one with a slash before its last word.
Pause == <<W("pause")>>
PushMany == <<W("push"), W("many")>>
SubmitImpl == <<[kind |-> "word", parts |-> <<"Submit", "Impl">>, arg |-> "8"]>>
SubmitStd == <<[kind |-> "word", parts |-> <<"Submit", "Std">>, arg |-> ""]>>
CtorDtor == <<[kind |-> "word", parts |-> <<"ctor">>, arg |-> "dtor"],
              [kind |-> "word", parts |-> <<"(PTP)">>, arg |-> "real_time"]>>
Alphabet == <<SubmitImpl, SubmitStd, CtorDtor, Pause, PushMany>>
Letter ==
    (Pause :> "P") @@ (CtorDtor :> "C") @@ (PushMany :> "P")
        @@ (SubmitImpl :> "S") @@ (SubmitStd :> "S")

Entry(suite, name, iterations, ns) ==
    [suite |-> suite, name |-> name, iterations |-> iterations, ns |-> ns]
Control == <<"Control">>
Queue == <<"Queue">>
SomeSuites == {Control, Queue}

\* Two suites; a method with two numbers of iterations.
Old == <<Entry(Control, PushMany, 10, 300), Entry(Control, PushMany, 100, 250),
         Entry(Control, Pause, 10, 0), Entry(Queue, SubmitStd, 10, 200)>>
New == <<Entry(Control, PushMany, 100, 260), Entry(Control, PushMany, 10, 299),
         Entry(Queue, SubmitImpl, 10, 40), Entry(Queue, SubmitStd, 10, 200)>>
OldGoogle == <<Entry(Queue, SubmitImpl, 7, 30), Entry(Queue, SubmitStd, 9, 20),
               Entry(Control, Pause, 5, 10), Entry(Control, CtorDtor, 4, 70)>>
NewGoogle == <<Entry(Control, CtorDtor, 3, 70), Entry(Control, Pause, 6, 9), Entry(Queue, SubmitImpl, 8, 60)>>

V190 == Tag("v", <<1, 9, 0>>, "")
V1100 == Tag("v", <<1, 10, 0>>, "")
V1100rc == Tag("v", <<1, 10, 0>>, "-rc")
V1100rc2 == Tag("v", <<1, 10, 0>>, "-rc.2")
SomeTails == <<"", "-rc", "-rc.2">>
Folder(tag, isDirectory, custom, google) ==
    [tag |-> tag, isDirectory |-> isDirectory, custom |-> custom, google |-> google]

Usual == {Folder(V190, TRUE, Old, OldGoogle), Folder(V1100, TRUE, New, Missing)}
\* Two release candidates, a plain file and a folder of another kind beside them.
Crowded == Usual \cup {Folder(V1100rc2, TRUE, Old, Missing), Folder(V1100rc, TRUE, New, NewGoogle),
                       Folder(Tag("V", <<2, 0, 0>>, ""), FALSE, Missing, Missing),
                       Folder(Tag("other", <<3, 0, 0>>, ""), TRUE, Missing, Missing)}
\* A folder that begins like a version and is none.
Odd == {Folder(V190, TRUE, Old, OldGoogle), Folder(Tag("v", Missing, ""), TRUE, Missing, Missing)}

Results(custom, google) == [custom |-> custom, google |-> google]
Disk(folders, live, exist) == [folders |-> folders, live |-> live, resultsExist |-> exist]
SomeDisks == {Disk(Usual, Results(New, NewGoogle), TRUE), Disk(Crowded, Results(New, NewGoogle), TRUE),
              Disk(Odd, Results(Old, NewGoogle), TRUE), Disk(Usual, Results(Old, Missing), FALSE),
              Disk({}, Results(New, NewGoogle), TRUE)}

ASSUME SnapshotsOrderly == OrderlySnapshots

SomeCommands ==
    {<<>>, <<W("list")>>, <<W("methods")>>, <<W("help")>>, <<W("methods"), V190>>,
     <<W("methods"), V1100rc>>, <<V190>>, <<V1100>>, <<V1100, V190>>, <<V190, V1100>>, <<V1100rc>>,
     Pause, PushMany, <<Id("P", 1)>>, <<V190, Id("P", 2)>>, <<V1100, V190, Id("S", 1)>>,
     <<Id("S", 0)>>, <<Id("Q", 1)>>, <<V190>> \o PushMany, SubmitImpl, <<W("list"), W("methods")>>}
=============================================================================
