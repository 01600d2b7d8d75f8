-------------------------- MODULE Regression_proof --------------------------
(***************************************************************************)
(* What the regression tools print and write is what was asked for, for    *)
(* any baseline folders and snapshots, arguments and number of runs.       *)
(***************************************************************************)
EXTENDS Regression, FiniteSetTheorems, SequenceTheorems, TLAPS

----------------------------------------------------------------------------
\* Orders: the elements of a finite set by how many are before each.

StrictOrder(R, S) ==
    /\ \A x \in S : <<x, x>> \notin R
    /\ \A x, y, z \in S : <<x, y>> \in R /\ <<y, z>> \in R => <<x, z>> \in R
    /\ \A x, y \in S : x = y \/ <<x, y>> \in R \/ <<y, x>> \in R

Below(R, S, x) == {y \in S : <<y, x>> \in R}
RankOf(R, S) == [x \in S |-> Cardinality(Below(R, S, x))]
Ordered(R, S) == [n \in 1..Cardinality(S) |-> CHOOSE x \in S : RankOf(R, S)[x] = n - 1]

LEMMA RanksIncrease ==
  ASSUME NEW S, IsFiniteSet(S), NEW R, StrictOrder(R, S)
  PROVE  /\ \A x \in S : RankOf(R, S)[x] \in 0..(Cardinality(S) - 1)
         /\ \A x, y \in S : <<x, y>> \in R <=> RankOf(R, S)[x] < RankOf(R, S)[y]
<1>1. ASSUME NEW x \in S PROVE RankOf(R, S)[x] \in 0..(Cardinality(S) - 1)
  <2>1. Below(R, S, x) \in SUBSET S /\ x \notin Below(R, S, x)
    BY DEF Below, StrictOrder
  <2>2. /\ IsFiniteSet(Below(R, S, x)) /\ Cardinality(Below(R, S, x)) <= Cardinality(S)
        /\ Cardinality(S) # Cardinality(Below(R, S, x))
    BY <2>1, FS_Subset
  <2>3. Cardinality(S) \in Nat /\ Cardinality(Below(R, S, x)) \in Nat
    BY <2>2, FS_CardinalityType
  <2> QED BY <2>2, <2>3 DEF RankOf
<1>2. ASSUME NEW x \in S, NEW y \in S, <<x, y>> \in R PROVE RankOf(R, S)[x] < RankOf(R, S)[y]
  <2>1. Below(R, S, x) \in SUBSET Below(R, S, y) /\ x \in Below(R, S, y) \ Below(R, S, x)
    BY <1>2 DEF Below, StrictOrder
  <2>2. Below(R, S, y) \in SUBSET S
    BY DEF Below
  <2>3. IsFiniteSet(Below(R, S, y))
    BY <2>2, FS_Subset
  <2>4. /\ Cardinality(Below(R, S, x)) <= Cardinality(Below(R, S, y))
        /\ Cardinality(Below(R, S, x)) # Cardinality(Below(R, S, y))
    BY <2>1, <2>3, FS_Subset
  <2> QED BY <1>1, <2>4 DEF RankOf
<1>3. ASSUME NEW x \in S, NEW y \in S, RankOf(R, S)[x] < RankOf(R, S)[y] PROVE <<x, y>> \in R
  <2>1. x # y /\ RankOf(R, S)[x] \in Int /\ RankOf(R, S)[y] \in Int
    BY <1>1, <1>3
  <2>2. ~(RankOf(R, S)[y] < RankOf(R, S)[x])
    BY <1>3, <2>1
  <2> QED BY <1>2, <2>1, <2>2 DEF StrictOrder
<1> QED BY <1>1, <1>2, <1>3

\* A sequence of all the elements of a set, in the order R.
OrderedAs(s, R, S) ==
    /\ s \in [1..Cardinality(S) -> S] /\ Cardinality(S) \in Nat
    /\ \A n \in 1..Cardinality(S) : RankOf(R, S)[s[n]] = n - 1
    /\ \A i, j \in 1..Cardinality(S) : i < j <=> <<s[i], s[j]>> \in R
    /\ \A x \in S : \E n \in 1..Cardinality(S) : s[n] = x

\* Every rank is that of one element.
LEMMA OrderedBy ==
  ASSUME NEW S, IsFiniteSet(S), NEW R, StrictOrder(R, S)
  PROVE  OrderedAs(Ordered(R, S), R, S)
<1> DEFINE N == Cardinality(S)  rank == RankOf(R, S)  s == Ordered(R, S)
<1>1. N \in Nat
  BY FS_CardinalityType
<1>2. /\ \A x \in S : rank[x] \in 0..(N - 1)
      /\ \A x, y \in S : <<x, y>> \in R <=> rank[x] < rank[y]
  BY RanksIncrease
<1>3. rank \in Injection(S, 0..(N - 1))
  <2>1. rank \in [S -> 0..(N - 1)]
    BY <1>2 DEF RankOf
  <2>2. ASSUME NEW x \in S, NEW y \in S, rank[x] = rank[y] PROVE x = y
    <3>1. ~(rank[x] < rank[y]) /\ ~(rank[y] < rank[x])
      BY <1>2, <2>2
    <3> QED BY <1>2, <3>1 DEF StrictOrder
  <2> QED BY <2>1, <2>2 DEF Injection, IsInjective
<1>4. rank \in Surjection(S, 0..(N - 1))
  <2>1. IsFiniteSet(0..(N - 1)) /\ Cardinality(0..(N - 1)) = N
    BY <1>1, FS_Interval
  <2> QED BY <1>3, <2>1, FS_Injection
<1>5. ASSUME NEW n \in 1..N PROVE s[n] \in S /\ rank[s[n]] = n - 1
  <2>1. \E x \in S : rank[x] = n - 1
    BY <1>1, <1>4 DEF Surjection
  <2>2. s[n] = CHOOSE x \in S : rank[x] = n - 1
    BY DEF Ordered
  <2> QED BY <2>1, <2>2
<1>6. s \in [1..N -> S]
  BY <1>5 DEF Ordered
<1>7. ASSUME NEW i \in 1..N, NEW j \in 1..N PROVE i < j <=> <<s[i], s[j]>> \in R
  <2>1. i < j <=> rank[s[i]] < rank[s[j]]
    BY <1>1, <1>5
  <2> QED BY <1>2, <1>5, <2>1
<1>8. ASSUME NEW x \in S PROVE \E n \in 1..N : s[n] = x
  <2>1. rank[x] + 1 \in 1..N /\ rank[s[rank[x] + 1]] = rank[x]
    BY <1>1, <1>2, <1>5
  <2> QED BY <1>3, <1>5, <2>1 DEF Injection, IsInjective
<1> QED BY <1>1, <1>5, <1>6, <1>7, <1>8 DEF OrderedAs

----------------------------------------------------------------------------
\* Baseline folders.

Versions3 == {tag \in Tags : tag.letter \in {"v", "V"} /\ tag.number # Missing}

LEMMA TailPositions ==
  ASSUME NEW a \in ToSet(Tails), NEW b \in ToSet(Tails)
  PROVE  /\ Position(Tails, a) \in Nat
         /\ Position(Tails, a) = Position(Tails, b) => a = b
<1>1. ASSUME NEW c \in ToSet(Tails)
      PROVE  Position(Tails, c) \in DOMAIN Tails /\ Tails[Position(Tails, c)] = c
  BY DEF ToSet, Position
<1>2. DOMAIN Tails \subseteq Nat
  BY TailsAssumption
<1> QED BY <1>1, <1>2

\* The lexicographic order of the numbers, written out.
LEMMA BeforeBy ==
  ASSUME NEW a \in Versions3, NEW b \in Versions3
  PROVE  Before(a, b) <=>
           \/ a.number[1] < b.number[1]
           \/ a.number[1] = b.number[1] /\ a.number[2] < b.number[2]
           \/ /\ a.number[1] = b.number[1] /\ a.number[2] = b.number[2]
              /\ a.number[3] < b.number[3]
           \/ a.number = b.number /\ NameBefore(a, b)
<1> DEFINE Less(i) == /\ a.number[i] < b.number[i]
                      /\ \A j \in 1..(i - 1) : a.number[j] = b.number[j]
<1>1. 1..(1 - 1) = {} /\ 1..(2 - 1) = {1} /\ 1..(3 - 1) = {1, 2} /\ 1..3 = {1, 2, 3}
  OBVIOUS
<1>2. (\E i \in 1..3 : Less(i)) <=> Less(1) \/ Less(2) \/ Less(3)
  BY <1>1
<1>3. /\ Less(1) <=> a.number[1] < b.number[1]
      /\ Less(2) <=> a.number[1] = b.number[1] /\ a.number[2] < b.number[2]
      /\ Less(3) <=> /\ a.number[1] = b.number[1] /\ a.number[2] = b.number[2]
                     /\ a.number[3] < b.number[3]
  BY <1>1
<1> QED BY <1>2, <1>3 DEF Before

LEMMA Numbers ==
  ASSUME NEW a \in Versions3, NEW b \in Versions3
  PROVE  /\ a.number[1] \in Nat /\ a.number[2] \in Nat /\ a.number[3] \in Nat
         /\ a.number = b.number <=> /\ a.number[1] = b.number[1]
                                    /\ a.number[2] = b.number[2]
                                    /\ a.number[3] = b.number[3]
<1>1. a.number \in [1..3 -> Nat] /\ b.number \in [1..3 -> Nat]
  BY DEF Versions3, Tags
<1> QED BY <1>1

LEMMA NamesOrdered ==
  ASSUME NEW a \in Versions3, NEW b \in Versions3, NEW c \in Versions3
  PROVE  /\ ~NameBefore(a, a)
         /\ NameBefore(a, b) /\ NameBefore(b, c) => NameBefore(a, c)
         /\ a.number = b.number => a = b \/ NameBefore(a, b) \/ NameBefore(b, a)
<1>1. /\ a.tail \in ToSet(Tails) /\ b.tail \in ToSet(Tails) /\ c.tail \in ToSet(Tails)
      /\ a.letter \in {"v", "V"} /\ b.letter \in {"v", "V"} /\ c.letter \in {"v", "V"}
  BY DEF Versions3, Tags
<1>2. /\ Position(Tails, a.tail) \in Nat /\ Position(Tails, b.tail) \in Nat
      /\ Position(Tails, c.tail) \in Nat
      /\ Position(Tails, a.tail) = Position(Tails, b.tail) => a.tail = b.tail
  BY <1>1, TailPositions
<1>3. a.number = b.number /\ a.letter = b.letter /\ a.tail = b.tail => a = b
  BY DEF Versions3, Tags
<1> QED BY <1>1, <1>2, <1>3 DEF NameBefore

BeforeOn(S) == {p \in S \X S : Before(p[1], p[2])}

LEMMA VersionsOrdered ==
  ASSUME NEW S \in SUBSET Versions3
  PROVE  StrictOrder(BeforeOn(S), S)
<1>1. \A x, y \in S : <<x, y>> \in BeforeOn(S) <=> Before(x, y)
  BY DEF BeforeOn
<1>2. ASSUME NEW x \in S PROVE ~Before(x, x)
  BY BeforeBy, Numbers, NamesOrdered
<1>3. ASSUME NEW x \in S, NEW y \in S, NEW z \in S, Before(x, y), Before(y, z)
      PROVE  Before(x, z)
  <2> DEFINE Tie(a, b) == a.number = b.number /\ NameBefore(a, b)
  <2>1. Tie(x, y) /\ Tie(y, z) => Tie(x, z)
    BY NamesOrdered
  <2>2. /\ x.number[1] \in Nat /\ x.number[2] \in Nat /\ x.number[3] \in Nat
        /\ y.number[1] \in Nat /\ y.number[2] \in Nat /\ y.number[3] \in Nat
        /\ z.number[1] \in Nat /\ z.number[2] \in Nat /\ z.number[3] \in Nat
    BY Numbers
  <2>3. x.number = y.number =>
          x.number[1] = y.number[1] /\ x.number[2] = y.number[2] /\ x.number[3] = y.number[3]
    OBVIOUS
  <2>4. y.number = z.number =>
          y.number[1] = z.number[1] /\ y.number[2] = z.number[2] /\ y.number[3] = z.number[3]
    OBVIOUS
  <2> HIDE DEF Tie
  <2>5. \A a, b \in S : Before(a, b) <=>
           \/ a.number[1] < b.number[1]
           \/ a.number[1] = b.number[1] /\ a.number[2] < b.number[2]
           \/ /\ a.number[1] = b.number[1] /\ a.number[2] = b.number[2]
              /\ a.number[3] < b.number[3]
           \/ Tie(a, b)
    BY BeforeBy DEF Tie
  <2>6. /\ Tie(x, y) => x.number = y.number
        /\ Tie(y, z) => y.number = z.number
    BY DEF Tie
  <2> QED BY <1>3, <2>1, <2>2, <2>3, <2>4, <2>5, <2>6
<1>4. ASSUME NEW x \in S, NEW y \in S PROVE x = y \/ Before(x, y) \/ Before(y, x)
  BY BeforeBy, Numbers, NamesOrdered
<1> QED BY <1>1, <1>2, <1>3, <1>4 DEF StrictOrder

LEMMA OwnedFinite ==
  ASSUME disk \in Disks
  PROVE  /\ IsFiniteSet(OwnedTags) /\ OwnedTags \subseteq Tags
         /\ AllParse => OwnedTags \subseteq Versions3
<1> DEFINE f == [folder \in Owned |-> folder.tag]
<1>1. IsFiniteSet(Owned)
  BY DisksAssumption, FS_Subset DEF Owned
<1>2. f \in Surjection(Owned, OwnedTags)
  BY DEF Surjection, OwnedTags
<1>3. IsFiniteSet(OwnedTags)
  BY <1>1, <1>2, FS_Surjection
<1>4. OwnedTags \subseteq Tags /\ \A tag \in OwnedTags : tag.letter \in {"v", "V"}
  BY DisksAssumption DEF OwnedTags, Owned, Owns, CustomOwns, GoogleOwns
<1> QED BY <1>3, <1>4 DEF Versions3, AllParse, Parses

\* What list shows, and the newest version.
LEMMA SortedTags ==
  ASSUME disk \in Disks, AllParse
  PROVE  /\ Cardinality(OwnedTags) \in Nat
         /\ Sorted \in [1..Cardinality(OwnedTags) -> OwnedTags]
         /\ \A i, j \in DOMAIN Sorted : i < j => Before(Sorted[i], Sorted[j])
         /\ \A tag \in OwnedTags : \E n \in DOMAIN Sorted : Sorted[n] = tag
         /\ OwnedTags # {} => /\ Latest \in OwnedTags
                              /\ \A tag \in OwnedTags \ {Latest} : Before(tag, Latest)
<1> DEFINE R == BeforeOn(OwnedTags)  N == Cardinality(OwnedTags)
<1>1. IsFiniteSet(OwnedTags) /\ StrictOrder(R, OwnedTags)
  BY OwnedFinite, VersionsOrdered
<1>2. \A x, y \in OwnedTags : <<x, y>> \in R <=> Before(x, y)
  BY DEF BeforeOn
<1>3. \A x \in OwnedTags : {y \in OwnedTags : Before(y, x)} = Below(R, OwnedTags, x)
  BY <1>2 DEF Below
<1>4. Sorted = Ordered(R, OwnedTags)
  <2>1. [x \in OwnedTags |-> Cardinality({y \in OwnedTags : Before(y, x)})] = RankOf(R, OwnedTags)
    BY <1>3 DEF RankOf
  <2> QED BY <2>1 DEF Sorted, InOrder, Ordered
<1>5. /\ Sorted \in [1..N -> OwnedTags] /\ N \in Nat
      /\ \A i, j \in 1..N : i < j <=> <<Sorted[i], Sorted[j]>> \in R
      /\ \A x \in OwnedTags : \E n \in 1..N : Sorted[n] = x
  <2> HIDE DEF R
  <2>1. OrderedAs(Sorted, R, OwnedTags)
    BY <1>1, <1>4, OrderedBy
  <2> QED BY <2>1 DEF OrderedAs
<1>6. /\ \A i, j \in 1..N : i < j => Before(Sorted[i], Sorted[j])
  BY <1>2, <1>5
<1>7. ASSUME OwnedTags # {}
      PROVE  /\ Latest \in OwnedTags
             /\ \A tag \in OwnedTags \ {Latest} : Before(tag, Latest)
  <2>1. N \in 1..N
    BY <1>1, <1>5, <1>7, FS_EmptySet
  <2>2. \A tag \in OwnedTags \ {Sorted[N]} : Before(tag, Sorted[N])
    BY <1>5, <1>6, <2>1
  <2> QED BY <1>5, <2>1, <2>2 DEF Latest
<1> QED BY <1>5, <1>6, <1>7

----------------------------------------------------------------------------
\* list, methods, and the newest version.

Comparing == {"resolve", "load", "filter", "print", "export"}

ListInv ==
    /\ disk \in Disks
    /\ (pc = "exit" /\ IsList) => AllParse /\ listing = Sorted
    /\ (pc = "exit" /\ IsMethods) => listing = [i \in DOMAIN Asked |-> Methods(Asked[i])]
    /\ pc \in Comparing => /\ ~(IsList \/ IsMethods \/ IsHelp)
                           /\ VersionCount = 0 => /\ AllParse /\ OwnedTags # {}
                                                  /\ files.baseline = Latest

\* The words that choose what main() does differ.
LEMMA Apart == /\ ~(IsList /\ IsMethods) /\ ~(IsList /\ IsHelp) /\ ~(IsMethods /\ IsHelp)
<1>1. Word("list") # Word("methods") /\ Word("list") # Word("help")
      /\ Word("methods") # Word("help")
  <2>1. ASSUME NEW a, NEW b, Word(a) = Word(b) PROVE a = b
    <3>1. Word(a).parts = Word(b).parts
      BY <2>1
    <3>2. <<a>> = <<b>>
      BY <3>1 DEF Word
    <3> QED BY <3>2
  <2> QED BY <2>1
<1> QED BY <1>1 DEF IsList, IsMethods, IsHelp

\* What is read of the disk and the arguments does not change during a run.
LEMMA SameQuestion ==
  ASSUME UNCHANGED <<disk, tool, argv>>
  PROVE  /\ IsList' = IsList /\ IsMethods' = IsMethods /\ IsHelp' = IsHelp
         /\ VersionCount' = VersionCount /\ AllParse' = AllParse /\ OwnedTags' = OwnedTags
         /\ Latest' = Latest /\ Sorted' = Sorted /\ Asked' = Asked
         /\ \A tag : Methods(tag)' = Methods(tag)
<1>1. OwnedTags' = OwnedTags
  BY DEF OwnedTags, Owned, Owns, CustomOwns, GoogleOwns
<1>2. AllParse' = AllParse /\ Latest' = Latest /\ Sorted' = Sorted
  BY <1>1 DEF AllParse, Latest, Sorted, InOrder
<1>3. Asked' = Asked
  BY <1>2 DEF Asked, Pick, InOrder
<1>4. \A tag : Contents(tag)' = Contents(tag)
  BY DEF Contents, Stored
<1>5. \A tag : Methods(tag)' = Methods(tag)
  BY <1>4 DEF Methods
<1> QED BY <1>1, <1>2, <1>3, <1>5 DEF IsList, IsMethods, IsHelp, VersionCount

LEMMA ListInit == Init => ListInv
BY DEF Init, ListInv, IsList, IsMethods, Comparing

LEMMA ListStep ==
  ASSUME ListInv, [Next]_vars
  PROVE  ListInv'
<1>1. CASE UNCHANGED vars
  <2>1. UNCHANGED <<disk, tool, argv, pc, listing, files>>
    BY <1>1 DEF vars, runVars
  <2> QED BY <2>1, SameQuestion DEF ListInv
<1>2. CASE Start
  BY <1>2 DEF Start, ListInv, Comparing
<1>3. ASSUME Run PROVE ListInv'
  <2>1. UNCHANGED <<disk, tool, argv>>
    BY <1>3 DEF Run, printUsage, printList, printMethods, Select, Resolve, Load, Filter,
                PrintRow, PrintEnd, Export, Answer, Fail
  <2>2. CASE pc' = "failed"
    BY <2>1, <2>2 DEF ListInv, Comparing
  <2>3. CASE printUsage /\ ~Fail
    BY <2>1, <2>3, Apart, SameQuestion DEF printUsage, Answer, ListInv, Comparing
  <2>4. CASE printList /\ ~Fail
    <3>1. AllParse /\ listing' = Sorted /\ pc' = "exit" /\ ~IsMethods
      BY <2>4, Apart DEF printList, Answer
    <3> QED BY <2>1, <3>1, SameQuestion DEF ListInv, Comparing
  <2>5. CASE printMethods /\ ~Fail
    <3>1. /\ listing' = [i \in DOMAIN Asked |-> Methods(Asked[i])]
          /\ pc' = "exit" /\ ~IsList
      BY <2>5, Apart DEF printMethods, Answer
    <3>2. [i \in DOMAIN Asked |-> Methods(Asked[i])]' = [i \in DOMAIN Asked |-> Methods(Asked[i])]
      BY <2>1, SameQuestion
    <3> QED BY <2>1, <3>1, <3>2, SameQuestion DEF ListInv, Comparing
  <2>6. CASE Select /\ ~Fail
    <3>1. /\ ~(IsList \/ IsMethods \/ IsHelp) /\ pc' = "resolve"
          /\ VersionCount = 0 => AllParse /\ OwnedTags # {} /\ files'.baseline = Latest
      BY <2>6 DEF Select, Versions
    <3> QED BY <2>1, <3>1, SameQuestion DEF ListInv
  <2>7. CASE (Resolve \/ Load \/ Filter \/ PrintRow \/ PrintEnd) /\ ~Fail
    <3>1. pc \in Comparing /\ pc' \in Comparing /\ files' = files
      BY <2>7 DEF Resolve, Load, Filter, PrintRow, PrintEnd, Comparing
    <3> QED BY <2>1, <3>1, SameQuestion DEF ListInv, Comparing
  <2>8. CASE Export
    BY <2>1, <2>8, SameQuestion DEF Export, ListInv, Comparing
  <2> QED BY <1>3, <2>2, <2>3, <2>4, <2>5, <2>6, <2>7, <2>8 DEF Run, Fail
<1> QED BY <1>1, <1>2, <1>3 DEF Next, CustomMain, GoogleMain, Finished

LEMMA NotAfterBefore ==
  ASSUME NEW a, NEW b, Before(a, b)
  PROVE  NotAfter(a, b)
BY DEF Before, NotAfter

LEMMA ListInvAgrees ==
  ASSUME ListInv
  PROVE  ListingsAgree
<1>1. ListedIdsResolve
  <2> SUFFICES ASSUME pc = "exit", IsMethods, NEW n \in DOMAIN listing,
                      NEW id \in listing[n].ids
               PROVE  resolveMethodId(id, Contents(listing[n].tag)) = id.name
    BY DEF ListedIdsResolve
  <2> DEFINE results == Contents(Asked[n])
  <2>1. n \in DOMAIN Asked /\ listing[n] = Methods(Asked[n])
    BY DEF ListInv
  <2>2. /\ listing[n].tag = Asked[n]
        /\ listing[n].ids = UNION {{[letter |-> l, index |-> i, name |-> Members(results, l)[i]] :
                                    i \in DOMAIN Members(results, l)} : l \in Letters(results)}
    BY <2>1 DEF Methods
  <2>3. PICK l \in Letters(results) :
           \E i \in DOMAIN Members(results, l) :
              id = [letter |-> l, index |-> i, name |-> Members(results, l)[i]]
    BY <2>2
  <2>4. id.index \in DOMAIN Members(results, id.letter)
        /\ id.name = Members(results, id.letter)[id.index]
    BY <2>3
  <2> QED BY <2>2, <2>4 DEF resolveMethodId
<1>2. ASSUME pc = "exit", IsList
      PROVE  /\ ToSet(listing) = OwnedTags
             /\ \A i, j \in DOMAIN listing : i <= j => NotAfter(listing[i], listing[j])
  <2>1. disk \in Disks /\ AllParse /\ listing = Sorted
    BY <1>2 DEF ListInv
  <2>2. /\ Cardinality(OwnedTags) \in Nat
        /\ Sorted \in [1..Cardinality(OwnedTags) -> OwnedTags]
        /\ \A i, j \in DOMAIN Sorted : i < j => Before(Sorted[i], Sorted[j])
        /\ \A tag \in OwnedTags : \E i \in DOMAIN Sorted : Sorted[i] = tag
    BY <2>1, SortedTags
  <2>3. ToSet(Sorted) = OwnedTags
    BY <2>2 DEF ToSet
  <2>4. ASSUME NEW i \in DOMAIN Sorted, NEW j \in DOMAIN Sorted, i <= j
        PROVE  NotAfter(Sorted[i], Sorted[j])
    <3>1. i = j \/ i < j
      BY <2>2, <2>4
    <3>2. CASE i = j
      BY <3>2 DEF NotAfter
    <3> QED BY <2>2, <3>1, <3>2, NotAfterBefore
  <2> QED BY <2>1, <2>3, <2>4
<1>3. ASSUME Compared, VersionCount = 0
      PROVE  \A tag \in OwnedTags : NotAfter(tag, files.baseline)
  <2>1. disk \in Disks /\ AllParse /\ OwnedTags # {} /\ files.baseline = Latest
    BY <1>3 DEF ListInv, Compared, Comparing
  <2>2. \A tag \in OwnedTags \ {Latest} : Before(tag, Latest)
    BY <2>1, SortedTags
  <2>3. NotAfter(Latest, Latest)
    BY DEF NotAfter
  <2> QED BY <2>1, <2>2, <2>3, NotAfterBefore
<1> QED BY <1>1, <1>2, <1>3 DEF ListingsAgree, NewestIsLatest

\* list shows all versions of the tool, from the oldest to the newest; a comparison
\* that names no version is with the newest; and an id that methods prints means,
\* given with that baseline, the method it stands beside.
THEOREM ListingsHold == Spec => []ListingsAgree
<1>1. Init => ListInv
  BY ListInit
<1>2. ListInv /\ [Next]_vars => ListInv'
  BY ListStep
<1>3. ListInv => ListingsAgree
  BY ListInvAgrees
<1> QED BY <1>1, <1>2, <1>3, PTL DEF Spec

----------------------------------------------------------------------------
\* Picking elements of a sequence.

LessOn(P) == {p \in P \X P : p[1] < p[2]}
Kept(P) == Ordered(LessOn(P), P)
UpTo(P, p) == {q \in P : q < p}

LEMMA KeptBy ==
  ASSUME NEW P \in SUBSET Int, IsFiniteSet(P)
  PROVE  /\ Cardinality(P) \in Nat
         /\ Kept(P) \in [1..Cardinality(P) -> P]
         /\ \A k \in 1..Cardinality(P) : Cardinality(UpTo(P, Kept(P)[k])) = k - 1
         /\ \A i, j \in 1..Cardinality(P) : i < j <=> Kept(P)[i] < Kept(P)[j]
         /\ \A p \in P : \E k \in 1..Cardinality(P) : Kept(P)[k] = p
         /\ \A s : Pick(s, P) = [k \in 1..Cardinality(P) |-> s[Kept(P)[k]]]
<1> DEFINE R == LessOn(P)
<1>2. \A x, y \in P : <<x, y>> \in R <=> x < y
  BY DEF LessOn
<1>3. StrictOrder(R, P)
  BY <1>2 DEF StrictOrder
<1>4. \A x \in P : UpTo(P, x) = Below(R, P, x) /\ {y \in P : Earlier(y, x)} = Below(R, P, x)
  BY <1>2 DEF Below, UpTo, Earlier
<1>5. /\ [x \in P |-> Cardinality({y \in P : Earlier(y, x)})] = RankOf(R, P)
      /\ \A x \in P : RankOf(R, P)[x] = Cardinality(UpTo(P, x))
  BY <1>4 DEF RankOf
<1>6. InOrder(P, Earlier) = Kept(P)
  <2> DEFINE less == [x \in P |-> Cardinality({y \in P : Earlier(y, x)})]
  <2>1. InOrder(P, Earlier) = [n \in 1..Cardinality(P) |-> CHOOSE x \in P : less[x] = n - 1]
    BY DEF InOrder
  <2>2. Kept(P) = [n \in 1..Cardinality(P) |-> CHOOSE x \in P : RankOf(R, P)[x] = n - 1]
    BY DEF Kept, Ordered
  <2>3. less = RankOf(R, P)
    BY <1>5
  <2> HIDE DEF less, R
  <2> QED BY <2>1, <2>2, <2>3
<1>7. /\ Kept(P) \in [1..Cardinality(P) -> P] /\ Cardinality(P) \in Nat
      /\ \A k \in 1..Cardinality(P) : RankOf(R, P)[Kept(P)[k]] = k - 1
      /\ \A i, j \in 1..Cardinality(P) : i < j <=> <<Kept(P)[i], Kept(P)[j]>> \in R
      /\ \A x \in P : \E k \in 1..Cardinality(P) : Kept(P)[k] = x
  <2> HIDE DEF R
  <2>1. OrderedAs(Ordered(R, P), R, P)
    BY <1>3, OrderedBy
  <2>2. Kept(P) = Ordered(R, P)
    BY DEF Kept, R
  <2> QED BY <2>1, <2>2 DEF OrderedAs
<1>8. \A i, j \in 1..Cardinality(P) : i < j <=> Kept(P)[i] < Kept(P)[j]
  BY <1>2, <1>7
<1>9. \A k \in 1..Cardinality(P) : Cardinality(UpTo(P, Kept(P)[k])) = k - 1
  BY <1>5, <1>7
<1>10. \A s : Pick(s, P) = [k \in 1..Cardinality(P) |-> s[Kept(P)[k]]]
  BY <1>6, <1>7 DEF Pick
<1> QED BY <1>7, <1>8, <1>9, <1>10

LEMMA PickBy ==
  ASSUME NEW P \in SUBSET Int, IsFiniteSet(P), NEW s
  PROVE  Pick(s, P) = [k \in 1..Cardinality(P) |-> s[Kept(P)[k]]]
BY KeptBy

LEMMA KeptUnique ==
  ASSUME NEW P \in SUBSET Int, IsFiniteSet(P), NEW p \in P,
         NEW k \in 1..Cardinality(P), Cardinality(UpTo(P, p)) = k - 1
  PROVE  Kept(P)[k] = p
<1>1. PICK j \in 1..Cardinality(P) : Kept(P)[j] = p
  BY KeptBy
<1>2. Cardinality(UpTo(P, p)) = j - 1
  BY <1>1, KeptBy
<1>3. j = k
  BY <1>2
<1> QED BY <1>1, <1>3

LEMMA Positions ==
  ASSUME NEW n \in Nat, NEW P \in SUBSET (1..n)
  PROVE  P \in SUBSET Int /\ IsFiniteSet(P)
<1>1. IsFiniteSet(1..n)
  BY FS_Interval
<1>2. IsFiniteSet(P)
  BY <1>1, FS_Subset
<1> QED BY <1>2

LEMMA PickSeq ==
  ASSUME NEW T, NEW s \in Seq(T), NEW P \in SUBSET (1..Len(s))
  PROVE  /\ Pick(s, P) \in Seq(T) /\ Len(Pick(s, P)) = Cardinality(P)
         /\ DOMAIN Pick(s, P) = 1..Cardinality(P) /\ Cardinality(P) \in Nat
         /\ \A k \in 1..Cardinality(P) : Kept(P)[k] \in P /\ Pick(s, P)[k] = s[Kept(P)[k]]
<1>1. Len(s) \in Nat /\ \A i \in 1..Len(s) : s[i] \in T
  BY LenProperties, ElementOfSeq
<1>2. /\ Cardinality(P) \in Nat /\ Kept(P) \in [1..Cardinality(P) -> P]
      /\ Pick(s, P) = [k \in 1..Cardinality(P) |-> s[Kept(P)[k]]]
  <2>1. P \in SUBSET Int /\ IsFiniteSet(P)
    BY <1>1, Positions
  <2> QED BY <2>1, KeptBy
<1>3. ASSUME NEW k \in 1..Cardinality(P) PROVE s[Kept(P)[k]] \in T
  <2>1. Kept(P)[k] \in 1..Len(s)
    BY <1>2
  <2> QED BY <1>1, <2>1
<1>4. \A k \in 1..Cardinality(P) : Kept(P)[k] \in P /\ Pick(s, P)[k] = s[Kept(P)[k]]
  BY <1>2
<1>5. Pick(s, P) \in [1..Cardinality(P) -> T]
  BY <1>2, <1>3
<1>6. Pick(s, P) \in Seq(T)
  BY <1>2, <1>5, IsASeq
<1>7. DOMAIN Pick(s, P) = 1..Cardinality(P)
  BY <1>5
<1>8. Len(Pick(s, P)) = Cardinality(P)
  BY <1>2, <1>6, <1>7
<1> QED BY <1>2, <1>4, <1>6, <1>7, <1>8

LEMMA PickAll ==
  ASSUME NEW T, NEW s \in Seq(T)
  PROVE  Pick(s, DOMAIN s) = s
<1>1. Len(s) \in Nat /\ DOMAIN s = 1..Len(s)
  OBVIOUS
<1>2. /\ Cardinality(1..Len(s)) = Len(s) /\ IsFiniteSet(1..Len(s))
      /\ 1..Len(s) \in SUBSET Int
  BY <1>1, FS_Interval
<1>3. ASSUME NEW k \in 1..Len(s) PROVE Kept(1..Len(s))[k] = k
  <2>1. UpTo(1..Len(s), k) = 1..(k - 1)
    BY <1>1 DEF UpTo
  <2>2. Cardinality(1..(k - 1)) = k - 1
    BY <1>1, FS_Interval
  <2> QED BY <1>1, <1>2, <2>1, <2>2, KeptUnique
<1>4. Pick(s, 1..Len(s)) = [k \in 1..Len(s) |-> s[Kept(1..Len(s))[k]]]
  <2> DEFINE D == 1..Len(s)
  <2>1. D \in SUBSET Int /\ IsFiniteSet(D) /\ Cardinality(D) = Len(s)
    BY <1>2
  <2> HIDE DEF D
  <2>2. Pick(s, D) = [k \in 1..Cardinality(D) |-> s[Kept(D)[k]]]
    BY <2>1, PickBy
  <2> QED BY <2>1, <2>2 DEF D
<1>5. Pick(s, 1..Len(s)) = [k \in 1..Len(s) |-> s[k]]
  BY <1>3, <1>4
<1> QED BY <1>1, <1>5

LEMMA PickNone == \A s : Pick(s, {}) = <<>>
<1>1. Cardinality({}) = 0 /\ {} \in SUBSET Int /\ IsFiniteSet({})
  BY FS_EmptySet
<1>2. \A s : Pick(s, {}) = [k \in 1..0 |-> s[Kept({})[k]]]
  BY <1>1, PickBy
<1> QED BY <1>2

\* A longer sequence has the same elements picked, or its last one more.
LEMMA PickAppend ==
  ASSUME NEW T, NEW s \in Seq(T), NEW x \in T, NEW P \in SUBSET (1..Len(s))
  PROVE  /\ Pick(Append(s, x), P) = Pick(s, P)
         /\ Pick(Append(s, x), P \cup {Len(s) + 1}) = Append(Pick(s, P), x)
<1> DEFINE n == Len(s)  u == Append(s, x)  Q == P \cup {n + 1}
<1>1. /\ n \in Nat /\ u \in Seq(T) /\ Len(u) = n + 1 /\ u[n + 1] = x
      /\ \A i \in 1..n : u[i] = s[i]
  BY AppendProperties
<1>2. /\ IsFiniteSet(P) /\ Cardinality(P) \in Nat /\ Kept(P) \in [1..Cardinality(P) -> P]
      /\ P \in SUBSET Int
      /\ Pick(s, P) = [k \in 1..Cardinality(P) |-> s[Kept(P)[k]]]
      /\ Pick(u, P) = [k \in 1..Cardinality(P) |-> u[Kept(P)[k]]]
  <2>1. P \in SUBSET Int /\ IsFiniteSet(P)
    BY <1>1, Positions
  <2> QED BY <2>1, KeptBy
<1>3. Pick(u, P) = Pick(s, P)
  BY <1>1, <1>2
<1>4. Q \in SUBSET Int /\ IsFiniteSet(Q) /\ n + 1 \notin P
  <2>1. IsFiniteSet(Q)
    BY <1>2, FS_AddElement
  <2>2. n + 1 \in Int /\ \A q \in P : q \in Int /\ q <= n
    BY <1>1
  <2>3. n + 1 \notin P
    BY <2>2
  <2>4. Q \in SUBSET Int
    BY <2>2
  <2> QED BY <2>1, <2>3, <2>4
<1>5. Cardinality(Q) = Cardinality(P) + 1
  BY <1>2, <1>4, FS_AddElement
<1>6. ASSUME NEW k \in 1..Cardinality(P) PROVE Kept(Q)[k] = Kept(P)[k]
  <2>1. Kept(P)[k] \in P /\ Kept(P)[k] \in 1..n
    BY <1>2
  <2>2. UpTo(Q, Kept(P)[k]) = UpTo(P, Kept(P)[k])
    BY <1>1, <2>1 DEF UpTo
  <2>3. Cardinality(UpTo(P, Kept(P)[k])) = k - 1
    BY <1>2, KeptBy
  <2>4. k \in 1..Cardinality(Q) /\ Kept(P)[k] \in Q
    BY <1>2, <1>5, <2>1
  <2> HIDE DEF Q
  <2> QED BY <1>1, <1>4, <2>2, <2>3, <2>4, KeptUnique
<1>7. Kept(Q)[Cardinality(P) + 1] = n + 1
  <2>1. UpTo(Q, n + 1) = P
    <3>1. \A q \in P : q < n + 1
      BY <1>1
    <3>2. ~(n + 1 < n + 1)
      BY <1>1
    <3> QED BY <3>1, <3>2 DEF UpTo
  <2>2. Cardinality(P) + 1 \in 1..Cardinality(Q) /\ n + 1 \in Q
    BY <1>2, <1>5
  <2> HIDE DEF Q
  <2> QED BY <1>1, <1>2, <1>4, <2>1, <2>2, KeptUnique
<1>8. Pick(u, Q) = [k \in 1..(Cardinality(P) + 1) |-> u[Kept(Q)[k]]]
  <2> HIDE DEF Q
  <2>1. \A r : Pick(r, Q) = [k \in 1..Cardinality(Q) |-> r[Kept(Q)[k]]]
    BY <1>4, KeptBy
  <2> QED BY <1>5, <2>1
<1>9. Pick(u, Q) = [k \in 1..(Cardinality(P) + 1) |->
                       IF k = Cardinality(P) + 1 THEN x ELSE s[Kept(P)[k]]]
  <2>1. ASSUME NEW k \in 1..(Cardinality(P) + 1)
        PROVE  u[Kept(Q)[k]] = IF k = Cardinality(P) + 1 THEN x ELSE s[Kept(P)[k]]
    <3>1. CASE k = Cardinality(P) + 1
      BY <1>1, <1>7, <3>1
    <3>2. CASE k # Cardinality(P) + 1
      <4>1. k \in 1..Cardinality(P)
        BY <1>2, <3>2
      <4>2. Kept(P)[k] \in 1..n /\ Kept(Q)[k] = Kept(P)[k]
        BY <1>2, <1>6, <4>1
      <4> QED BY <1>1, <3>2, <4>2
    <3> QED BY <3>1, <3>2
  <2> HIDE DEF Q
  <2> QED BY <1>8, <2>1
<1>10. Append(Pick(s, P), x) = [k \in 1..(Cardinality(P) + 1) |->
                                  IF k = Cardinality(P) + 1 THEN x ELSE s[Kept(P)[k]]]
  <2>1. Pick(s, P) \in Seq(T) /\ Len(Pick(s, P)) = Cardinality(P)
    BY PickSeq
  <2> QED BY <1>2, <2>1
<1> QED BY <1>3, <1>9, <1>10

\* The first of some positions.
LEMMA FirstOf ==
  ASSUME NEW P \in SUBSET Int, IsFiniteSet(P), P # {}
  PROVE  LET m == CHOOSE i \in P : \A j \in P : i <= j
         IN  m \in P /\ \A j \in P : m <= j
<1>1. /\ Cardinality(P) \in Nat /\ Kept(P) \in [1..Cardinality(P) -> P]
      /\ \A i, j \in 1..Cardinality(P) : i < j <=> Kept(P)[i] < Kept(P)[j]
      /\ \A p \in P : \E k \in 1..Cardinality(P) : Kept(P)[k] = p
  BY KeptBy
<1>2. 1 \in 1..Cardinality(P)
  <2>1. PICK k \in 1..Cardinality(P) : TRUE
    BY <1>1
  <2> QED BY <1>1, <2>1
<1>3. ASSUME NEW j \in P PROVE Kept(P)[1] <= j
  <2>1. PICK k \in 1..Cardinality(P) : Kept(P)[k] = j
    BY <1>1
  <2>2. k = 1 \/ 1 < k
    OBVIOUS
  <2>3. Kept(P)[1] \in Int /\ j \in Int
    BY <1>1, <1>2
  <2> QED BY <1>1, <1>2, <2>1, <2>2, <2>3
<1>4. Kept(P)[1] \in P
  BY <1>1, <1>2
<1> QED BY <1>3, <1>4

----------------------------------------------------------------------------
\* What the tables are made of.

Verdicts == {"tie", "faster", "slower"}
RowItems == [event : {"row"}, name : ToSet(Spelling), iterations : Nat, baseline : Nat,
             current : Nat, verdict : Verdicts]
Headings == Suites \cup {BaseName(name) : name \in ToSet(Spelling)}
HeaderItems == [event : {"header"}, group : Headings]
SummaryItems == [event : {"summary"}, faster : Nat, slower : Nat, tie : Nat]
Items == RowItems \cup HeaderItems \cup SummaryItems \cup {Line, End}

MarkedAt(o, E) == {i \in DOMAIN o : o[i].event \in E}
Marked(o, E) == Pick(o, MarkedAt(o, E))
Shown == {"header", "row", "summary"}
RowsOf(o) == Marked(Marked(o, Shown), {"row"})

LEMMA MarkedAppend ==
  ASSUME NEW o \in Seq(Items), NEW x \in Items, NEW E
  PROVE  /\ Marked(o, E) \in Seq(Items)
         /\ Marked(Append(o, x), E) = IF x.event \in E THEN Append(Marked(o, E), x)
                                      ELSE Marked(o, E)
<1> DEFINE u == Append(o, x)  P == MarkedAt(o, E)
<1>1. /\ Len(o) \in Nat /\ DOMAIN o = 1..Len(o) /\ u \in Seq(Items) /\ Len(u) = Len(o) + 1
      /\ DOMAIN u = 1..(Len(o) + 1)
      /\ u[Len(o) + 1] = x /\ \A i \in 1..Len(o) : u[i] = o[i]
  BY AppendProperties, LenProperties
<1>2. P \in SUBSET (1..Len(o))
  BY <1>1 DEF MarkedAt
<1>3. MarkedAt(u, E) = IF x.event \in E THEN P \cup {Len(o) + 1} ELSE P
  <2>1. ASSUME NEW i \in 1..Len(o) PROVE i \in MarkedAt(u, E) <=> i \in P
    BY <1>1 DEF MarkedAt
  <2>2. Len(o) + 1 \in MarkedAt(u, E) <=> x.event \in E
    BY <1>1 DEF MarkedAt
  <2>3. MarkedAt(u, E) \subseteq 1..(Len(o) + 1)
    BY <1>1 DEF MarkedAt
  <2>4. 1..(Len(o) + 1) = (1..Len(o)) \cup {Len(o) + 1}
    BY <1>1
  <2> HIDE DEF u, P
  <2>5. CASE x.event \in E
    BY <1>2, <2>1, <2>2, <2>3, <2>4, <2>5
  <2>6. CASE x.event \notin E
    <3>1. MarkedAt(u, E) \subseteq 1..Len(o)
      BY <2>2, <2>3, <2>4, <2>6
    <3>2. MarkedAt(u, E) = P
      BY <1>2, <2>1, <3>1
    <3> QED BY <2>6, <3>2
  <2> QED BY <2>5, <2>6
<1>4. Pick(o, P) \in Seq(Items)
  BY <1>2, PickSeq
<1>5. Pick(u, P) = Pick(o, P) /\ Pick(u, P \cup {Len(o) + 1}) = Append(Pick(o, P), x)
  <2> HIDE DEF P
  <2> QED BY <1>2, PickAppend
<1> QED BY <1>3, <1>4, <1>5 DEF Marked

LEMMA RowsOfAppend ==
  ASSUME NEW o \in Seq(Items), NEW x \in Items
  PROVE  RowsOf(Append(o, x)) = IF x.event = "row" THEN Append(RowsOf(o), x) ELSE RowsOf(o)
<1>1. Marked(o, Shown) \in Seq(Items)
  BY MarkedAppend
<1>2. Marked(Append(o, x), Shown) = IF x.event \in Shown THEN Append(Marked(o, Shown), x)
                                    ELSE Marked(o, Shown)
  BY MarkedAppend
<1>3. x.event \in Shown => RowsOf(Append(o, x)) = Marked(Append(Marked(o, Shown), x), {"row"})
  BY <1>2 DEF RowsOf
<1>4. Marked(Append(Marked(o, Shown), x), {"row"})
      = IF x.event \in {"row"} THEN Append(RowsOf(o), x) ELSE RowsOf(o)
  BY <1>1, MarkedAppend DEF RowsOf
<1>5. x.event \notin Shown => RowsOf(Append(o, x)) = RowsOf(o) /\ x.event # "row"
  BY <1>2 DEF RowsOf, Shown
<1> QED BY <1>3, <1>4, <1>5

LEMMA RowsOfNothing == RowsOf(<<>>) = <<>>
<1>1. \A E : Marked(<<>>, E) = <<>>
  <2> TAKE E
  <2>1. MarkedAt(<<>>, E) = {}
    BY DEF MarkedAt
  <2> QED BY <2>1, PickNone DEF Marked
<1> QED BY <1>1 DEF RowsOf

\* Snapshots.

LEMMA ContentsType == \A file : disk \in Disks /\ tool \in Tools => Contents(file) \in Snapshots
<1> SUFFICES ASSUME NEW file, disk \in Disks, tool \in Tools PROVE Stored(tool, file) \in Snapshots
  BY DEF Contents
<1> DEFINE found == {folder \in disk.folders : folder.tag = file}
<1>1. CASE file = Live
  BY <1>1, DisksAssumption DEF Stored
<1>2. CASE file # Live /\ found = {}
  BY <1>2 DEF Stored, Snapshots
<1>3. CASE file # Live /\ found # {}
  <2>1. (CHOOSE folder \in found : TRUE) \in disk.folders
    BY <1>3
  <2>2. Stored(tool, file) = (CHOOSE folder \in found : TRUE)[tool]
    BY <1>3 DEF Stored
  <2> HIDE DEF found
  <2> QED BY <2>1, <2>2, DisksAssumption
<1> QED BY <1>1, <1>2, <1>3

LEMMA FilteredType ==
  ASSUME NEW s \in Seq(Entries)
  PROVE  Filtered(s) \in Seq(Entries) /\ ToSet(Filtered(s)) \subseteq ToSet(s)
<1>1. Len(s) \in Nat /\ DOMAIN s = 1..Len(s)
  OBVIOUS
<1> DEFINE P == {i \in DOMAIN s : s[i].name = method}
<1>2. P \in SUBSET (1..Len(s))
  BY <1>1
<1>3. /\ Pick(s, P) \in Seq(Entries) /\ DOMAIN Pick(s, P) = 1..Cardinality(P)
      /\ \A k \in 1..Cardinality(P) : Kept(P)[k] \in P /\ Pick(s, P)[k] = s[Kept(P)[k]]
  <2> HIDE DEF P
  <2> QED BY <1>2, PickSeq
<1>4. ToSet(Pick(s, P)) \subseteq ToSet(s)
  <2> HIDE DEF P
  <2>1. ASSUME NEW k \in 1..Cardinality(P) PROVE Pick(s, P)[k] \in ToSet(s)
    <3>1. Kept(P)[k] \in P /\ Pick(s, P)[k] = s[Kept(P)[k]]
      BY <1>3
    <3>2. Kept(P)[k] \in DOMAIN s
      BY <1>1, <1>2, <3>1
    <3> QED BY <3>1, <3>2 DEF ToSet
  <2> QED BY <1>3, <2>1 DEF ToSet
<1>5. Filtered(s) = IF method = <<>> THEN s ELSE Pick(s, P)
  BY DEF Filtered, filterByOperation
<1> HIDE DEF P
<1> QED BY <1>3, <1>4, <1>5

LEMMA CnsType ==
  ASSUME NEW s \in Seq(Entries), NEW found \in SUBSET DOMAIN s
  PROVE  /\ Cns(s, found) \in Nat
         /\ found # {} => \E i \in found : Cns(s, found) = s[i].ns
<1>1. Len(s) \in Nat /\ DOMAIN s = 1..Len(s)
  OBVIOUS
<1>2. found \in SUBSET Int /\ IsFiniteSet(found)
  BY <1>1, Positions
<1>3. ASSUME found # {} PROVE \E i \in found : Cns(s, found) = s[i].ns
  <2> DEFINE m == CHOOSE i \in found : \A j \in found : i <= j
  <2>1. m \in found
    BY <1>2, <1>3, FirstOf
  <2>2. Cns(s, found) = s[m].ns
    BY <1>3 DEF Cns
  <2> HIDE DEF m
  <2> QED BY <2>1, <2>2
<1>4. \A i \in found : s[i].ns \in Nat
  <2>1. \A i \in 1..Len(s) : s[i] \in Entries
    BY <1>1, ElementOfSeq
  <2> QED BY <1>1, <2>1 DEF Entries
<1>5. found = {} => Cns(s, found) = 0
  BY DEF Cns
<1> QED BY <1>3, <1>4, <1>5

LEMMA RowType ==
  ASSUME loaded.current \in Seq(Entries), NEW entry \in Entries
  PROVE  /\ Row(entry) \in RowItems
         /\ Row(entry).name = entry.name /\ Row(entry).baseline = entry.ns
<1>1. CustomCns(loaded.current, entry) \in Nat /\ GoogleCns(loaded.current, entry) \in Nat
  BY CnsType DEF CustomCns, GoogleCns
<1>2. PICK now \in Nat : Row(entry) = RowOf(entry, now)
  BY <1>1 DEF Row, CustomRow, GoogleRow
<1>3. Verdict(entry.ns, now) \in Verdicts
  BY DEF Verdict, Verdicts
<1>4. entry.name \in ToSet(Spelling) /\ entry.iterations \in Nat /\ entry.ns \in Nat
  BY DEF Entries
<1> QED BY <1>2, <1>3, <1>4 DEF RowOf, RowItems

----------------------------------------------------------------------------
\* A run, from the snapshots to the tables.

Comparison ==
    /\ loaded.baseline = Filtered(Contents(files.baseline))
    /\ loaded.current = Filtered(Contents(files.current))
    /\ method # <<>> => loaded.baseline # <<>> /\ loaded.current # <<>>
    /\ Len(rows) <= Len(loaded.baseline)
    /\ \A i \in 1..Len(rows) : rows[i] = Row(loaded.baseline[i])

RunInv ==
    /\ disk \in Disks /\ tool \in Tools
    /\ output \in Seq(Items) /\ rows \in Seq(RowItems) /\ RowsOf(output) = rows
    /\ pc \in {"dispatch", "resolve", "load", "filter"} => rows = <<>> /\ output = <<>>
    /\ pc \in {"filter", "print", "export"} =>
          /\ Contents(files.baseline) \in Seq(Entries) /\ Contents(files.baseline) # Missing
          /\ Contents(files.current) \in Seq(Entries) /\ Contents(files.current) # Missing
    /\ pc = "filter" => /\ loaded.baseline = Contents(files.baseline)
                        /\ loaded.current = Contents(files.current)
    /\ pc \in {"print", "export"} => Comparison
    /\ pc = "export" => /\ Len(rows) = Len(loaded.baseline)
                        /\ rows # <<>> => output[Len(output)] = Summary

LEMMA LoadedType ==
  ASSUME RunInv, pc \in {"print", "export"}
  PROVE  loaded.baseline \in Seq(Entries) /\ loaded.current \in Seq(Entries)
BY FilteredType DEF RunInv, Comparison

LEMMA ItemTypes ==
  /\ Line \in Items /\ Line.event = "line" /\ End \in Items /\ End.event = "end"
  /\ \A item \in RowItems : item \in Items /\ item.event = "row"
  /\ \A item \in HeaderItems : item \in Items /\ item.event = "header"
  /\ \A item \in SummaryItems : item \in Items /\ item.event = "summary"
  /\ \A entry \in Entries : Header(entry) \in HeaderItems /\ Header(entry).group = GroupOf(entry)
<1>1. \A entry \in Entries : GroupOf(entry) \in Headings
  BY DEF GroupOf, GroupIn, Headings, Entries
<1> QED BY <1>1 DEF Line, End, Items, RowItems, HeaderItems, SummaryItems, Header

LEMMA Appended ==
  ASSUME NEW o \in Seq(Items), NEW a \in Items, NEW b \in Items, NEW r \in Items
  PROVE  /\ o \o <<>> \o <<r>> = Append(o, r)
         /\ o \o <<a>> \o <<r>> = Append(Append(o, a), r)
         /\ o \o <<a, b>> = Append(Append(o, a), b)
         /\ o \o <<a, b>> \o <<r>> = Append(Append(Append(o, a), b), r)
<1>1. o \o <<>> = o /\ \A u \in Seq(Items) : u \o <<r>> = Append(u, r)
  BY ConcatEmptySeq, AppendIsConcat
<1>2. o \o <<a>> = Append(o, a) /\ Append(o, a) \in Seq(Items)
  BY AppendIsConcat, AppendProperties
<1>3. o \o <<a, b>> = Append(Append(o, a), b)
  OBVIOUS
<1>4. Append(Append(o, a), b) \in Seq(Items)
  BY <1>2, AppendProperties
<1> QED BY <1>1, <1>2, <1>3, <1>4

\* What comes before a row.
LEMMA LeadBy ==
  ASSUME NEW entry
  PROVE  /\ rows = <<>> => Lead(entry) = <<Header(entry)>>
         /\ rows # <<>> =>
              IF GroupOf(loaded.baseline[Len(rows)]) # GroupOf(entry)
              THEN Lead(entry) = <<End, Header(entry)>>
              ELSE Lead(entry) \in {<<Line>>, <<>>}
BY DEF Lead, CustomLead, GoogleLead

LEMMA SummaryType ==
  ASSUME rows \in Seq(RowItems)
  PROVE  Summary \in SummaryItems
<1>1. IsFiniteSet(DOMAIN rows)
  <2>1. Len(rows) \in Nat /\ DOMAIN rows = 1..Len(rows)
    OBVIOUS
  <2> QED BY <2>1, FS_Interval
<1>2. \A verdict : Count(verdict) \in Nat
  <2> TAKE verdict
  <2>1. IsFiniteSet({i \in DOMAIN rows : rows[i].verdict = verdict})
    BY <1>1, FS_Subset
  <2> QED BY <2>1, FS_CardinalityType DEF Count
<1> QED BY <1>2 DEF Summary, SummaryItems

LEMMA PrintRowStep ==
  ASSUME RunInv, PrintRow
  PROVE  RunInv'
<1> DEFINE n == Len(rows)  entry == loaded.baseline[n + 1]
<1>1. /\ pc = "print" /\ n < Len(loaded.baseline) /\ rows' = Append(rows, Row(entry))
      /\ output' = output \o Lead(entry) \o <<Row(entry)>>
      /\ UNCHANGED <<disk, tool, pc, files, method, loaded>>
  BY DEF PrintRow
<1>2. /\ loaded.baseline \in Seq(Entries) /\ loaded.current \in Seq(Entries)
      /\ n \in Nat /\ Len(loaded.baseline) \in Nat /\ rows \in Seq(RowItems)
      /\ output \in Seq(Items) /\ RowsOf(output) = rows
  BY <1>1, LoadedType DEF RunInv
<1>3. entry \in Entries
  BY <1>1, <1>2, ElementOfSeq
<1>4. Row(entry) \in RowItems /\ Row(entry) \in Items /\ Row(entry).event = "row"
  BY <1>2, <1>3, RowType, ItemTypes
<1> HIDE DEF entry
<1>5. /\ rows' \in Seq(RowItems) /\ Len(rows') = n + 1 /\ rows'[n + 1] = Row(entry)
      /\ \A i \in 1..n : rows'[i] = rows[i]
  BY <1>1, <1>2, <1>4, AppendProperties
<1>6. output' \in Seq(Items) /\ RowsOf(output') = Append(RowsOf(output), Row(entry))
  <2> DEFINE h == Header(entry)
  <2>1. /\ h \in Items /\ h.event # "row" /\ Line \in Items /\ Line.event # "row"
        /\ End \in Items /\ End.event # "row"
    BY <1>3, ItemTypes
  <2> HIDE DEF h
  <2>2. \A u \in Seq(Items) : /\ Append(u, Row(entry)) \in Seq(Items)
                              /\ RowsOf(Append(u, Row(entry))) = Append(RowsOf(u), Row(entry))
    BY <1>4, AppendProperties, RowsOfAppend
  <2>3. \A u \in Seq(Items) : \A x \in {h, Line, End} :
           Append(u, x) \in Seq(Items) /\ RowsOf(Append(u, x)) = RowsOf(u)
    BY <2>1, AppendProperties, RowsOfAppend
  <2>4. \/ output' = Append(output, Row(entry))
        \/ \E x \in {h, Line} : output' = Append(Append(output, x), Row(entry))
        \/ output' = Append(Append(Append(output, End), h), Row(entry))
    <3>1. Lead(entry) \in {<<>>, <<h>>, <<Line>>, <<End, h>>}
      BY LeadBy DEF h
    <3>2. \A a, b \in Items :
            /\ output \o <<>> \o <<Row(entry)>> = Append(output, Row(entry))
            /\ output \o <<a>> \o <<Row(entry)>> = Append(Append(output, a), Row(entry))
            /\ output \o <<a, b>> \o <<Row(entry)>> = Append(Append(Append(output, a), b), Row(entry))
      BY <1>2, <1>4, Appended
    <3>3. CASE Lead(entry) = <<>>
      BY <1>1, <2>1, <3>2, <3>3
    <3>4. CASE Lead(entry) = <<h>>
      BY <1>1, <2>1, <3>2, <3>4
    <3>5. CASE Lead(entry) = <<Line>>
      BY <1>1, <2>1, <3>2, <3>5
    <3>6. CASE Lead(entry) = <<End, h>>
      BY <1>1, <2>1, <3>2, <3>6
    <3> QED BY <3>1, <3>3, <3>4, <3>5, <3>6
  <2>5. CASE output' = Append(output, Row(entry))
    BY <1>2, <2>2, <2>5
  <2>6. CASE \E x \in {h, Line} : output' = Append(Append(output, x), Row(entry))
    <3>1. PICK x \in {h, Line} : output' = Append(Append(output, x), Row(entry))
      BY <2>6
    <3>2. Append(output, x) \in Seq(Items) /\ RowsOf(Append(output, x)) = RowsOf(output)
      BY <1>2, <2>3
    <3> QED BY <2>2, <3>1, <3>2
  <2>7. CASE output' = Append(Append(Append(output, End), h), Row(entry))
    <3>1. /\ Append(output, End) \in Seq(Items) /\ RowsOf(Append(output, End)) = RowsOf(output)
          /\ Append(Append(output, End), h) \in Seq(Items)
          /\ RowsOf(Append(Append(output, End), h)) = RowsOf(output)
      BY <1>2, <2>3
    <3> QED BY <2>2, <2>7, <3>1
  <2> QED BY <2>4, <2>5, <2>6, <2>7
<1>7. RowsOf(output)' = rows'
  BY <1>1, <1>2, <1>6 DEF RowsOf, Marked, MarkedAt, Pick, InOrder
<1>8. \A file : Contents(file)' = Contents(file)
  BY <1>1 DEF Contents, Stored
<1>9. \A s : Filtered(s)' = Filtered(s)
  BY <1>1 DEF Filtered
<1>10. \A e : Row(e)' = Row(e)
  BY <1>1 DEF Row, CustomRow, GoogleRow, CustomCns, GoogleCns
<1>11. \A i \in 1..Len(rows') : rows'[i] = Row(loaded.baseline[i])
  <2>1. \A i \in 1..n : rows[i] = Row(loaded.baseline[i])
    BY <1>1 DEF RunInv, Comparison
  <2>2. 1..Len(rows') = (1..n) \cup {n + 1}
    BY <1>2, <1>5
  <2> QED BY <1>5, <2>1, <2>2 DEF entry
<1>12. Comparison'
  <2>1. Len(rows') <= Len(loaded.baseline)
    BY <1>1, <1>2, <1>5
  <2>2. Comparison
    BY <1>1 DEF RunInv
  <2> QED BY <1>1, <1>8, <1>9, <1>10, <1>11, <2>1, <2>2 DEF Comparison
<1> QED BY <1>1, <1>5, <1>6, <1>7, <1>8, <1>12 DEF RunInv

LEMMA PrintEndStep ==
  ASSUME RunInv, PrintEnd
  PROVE  RunInv'
<1>1. /\ pc = "print" /\ pc' = "export" /\ Len(rows) = Len(loaded.baseline)
      /\ output' = IF rows = <<>> THEN output ELSE output \o <<End, Summary>>
      /\ UNCHANGED <<disk, tool, files, method, loaded, rows>>
  BY DEF PrintEnd
<1>2. output \in Seq(Items) /\ rows \in Seq(RowItems) /\ RowsOf(output) = rows /\ Comparison
  BY <1>1 DEF RunInv
<1>3. ASSUME rows # <<>>
      PROVE  /\ output' \in Seq(Items) /\ RowsOf(output') = RowsOf(output)
             /\ output'[Len(output')] = Summary
  <2>1. /\ Summary \in Items /\ End \in Items
        /\ Summary.event # "row" /\ End.event # "row"
    BY <1>2, SummaryType, ItemTypes
  <2>2. output' = Append(Append(output, End), Summary)
    BY <1>1, <1>2, <1>3, <2>1, Appended
  <2>3. Append(output, End) \in Seq(Items) /\ RowsOf(Append(output, End)) = RowsOf(output)
    BY <1>2, <2>1, AppendProperties, RowsOfAppend
  <2> DEFINE u == Append(output, End)
  <2>4. Append(u, Summary) \in Seq(Items) /\ RowsOf(Append(u, Summary)) = RowsOf(u)
    BY <2>1, <2>3, AppendProperties, RowsOfAppend
  <2>5. Append(u, Summary)[Len(Append(u, Summary))] = Summary
    BY <2>1, <2>3, AppendProperties
  <2> QED BY <2>2, <2>3, <2>4, <2>5
<1>4. output' \in Seq(Items) /\ RowsOf(output') = rows
  BY <1>1, <1>2, <1>3
<1>5. RowsOf(output)' = rows'
  BY <1>1, <1>4 DEF RowsOf, Marked, MarkedAt, Pick, InOrder
<1>6. Summary' = Summary
  BY <1>1 DEF Summary, Count
<1>7. \A file : Contents(file)' = Contents(file)
  BY <1>1 DEF Contents, Stored
<1>8. Comparison'
  <2>1. \A s : Filtered(s)' = Filtered(s)
    BY <1>1 DEF Filtered
  <2>2. \A e : Row(e)' = Row(e)
    BY <1>1 DEF Row, CustomRow, GoogleRow, CustomCns, GoogleCns
  <2> QED BY <1>1, <1>2, <1>7, <2>1, <2>2 DEF Comparison
<1> QED BY <1>1, <1>3, <1>4, <1>5, <1>6, <1>7, <1>8 DEF RunInv

LEMMA FilterStep ==
  ASSUME RunInv, Filter
  PROVE  RunInv'
<1>1. pc = "filter" /\ UNCHANGED <<disk, tool, files, method, rows, output>>
  BY DEF Filter, Fail
<1>2. /\ Contents(files.baseline) \in Seq(Entries) /\ Contents(files.current) \in Seq(Entries)
      /\ loaded.baseline = Contents(files.baseline) /\ loaded.current = Contents(files.current)
      /\ rows = <<>> /\ output = <<>>
  BY <1>1 DEF RunInv
<1>3. CASE Fail
  <2>1. pc' = "failed" /\ UNCHANGED <<disk, tool, rows, output>>
    BY <1>3 DEF Fail
  <2>2. RowsOf(output)' = RowsOf(output)
    BY <2>1 DEF RowsOf, Marked, MarkedAt, Pick, InOrder
  <2> QED BY <2>1, <2>2 DEF RunInv
<1>4. CASE ~Fail
  <2>1. /\ pc' = "print"
        /\ loaded'.baseline = Filtered(loaded.baseline) /\ loaded'.current = Filtered(loaded.current)
        /\ method # <<>> => loaded'.baseline # <<>> /\ loaded'.current # <<>>
    BY <1>4 DEF Filter
  <2>2. \A file : Contents(file)' = Contents(file)
    BY <1>1 DEF Contents, Stored
  <2>3. \A s : Filtered(s)' = Filtered(s)
    BY <1>1 DEF Filtered
  <2>4. RowsOf(output)' = RowsOf(output)
    BY <1>1 DEF RowsOf, Marked, MarkedAt, Pick, InOrder
  <2>5. Len(rows') <= Len(loaded'.baseline) /\ 1..Len(rows') = {}
    <3>1. Filtered(loaded.baseline) \in Seq(Entries)
      BY <1>2, FilteredType
    <3>2. rows' = <<>>
      BY <1>1, <1>2
    <3> QED BY <2>1, <3>1, <3>2
  <2>6. Comparison'
    BY <1>1, <1>2, <2>1, <2>2, <2>3, <2>5 DEF Comparison
  <2> QED BY <1>1, <1>2, <2>1, <2>2, <2>4, <2>6 DEF RunInv
<1> QED BY <1>3, <1>4

LEMMA RunInit == Init => RunInv
BY RowsOfNothing DEF Init, RunInv, Tools

LEMMA RunStep ==
  ASSUME RunInv, [Next]_vars
  PROVE  RunInv'
<1>1. UNCHANGED <<disk, tool, files, method, rows, output, loaded>> => 
        /\ RowsOf(output)' = RowsOf(output) /\ Comparison' = Comparison /\ Summary' = Summary
        /\ \A file : Contents(file)' = Contents(file)
  <2> SUFFICES ASSUME UNCHANGED <<disk, tool, files, method, rows, output, loaded>>
               PROVE  /\ RowsOf(output)' = RowsOf(output) /\ Comparison' = Comparison
                      /\ Summary' = Summary /\ \A file : Contents(file)' = Contents(file)
    OBVIOUS
  <2>1. \A file : Contents(file)' = Contents(file)
    BY DEF Contents, Stored
  <2>2. \A s : Filtered(s)' = Filtered(s)
    BY DEF Filtered
  <2>3. \A e : Row(e)' = Row(e)
    BY DEF Row, CustomRow, GoogleRow, CustomCns, GoogleCns
  <2>4. Comparison' = Comparison
    BY <2>1, <2>2, <2>3 DEF Comparison
  <2>5. RowsOf(output)' = RowsOf(output) /\ Summary' = Summary
    BY DEF RowsOf, Marked, MarkedAt, Pick, InOrder, Summary, Count
  <2> QED BY <2>1, <2>4, <2>5
<1>2. CASE UNCHANGED vars
  BY <1>1, <1>2 DEF vars, runVars, RunInv
<1>3. CASE Start
  <2>1. /\ disk' = disk /\ tool' \in Tools /\ pc' = "dispatch" /\ rows' = <<>> /\ output' = <<>>
    BY <1>3 DEF Start
  <2>2. RowsOf(output)' = <<>>
    <3>1. RowsOf(output)' = RowsOf(output')
      BY DEF RowsOf, Marked, MarkedAt, Pick, InOrder
    <3> QED BY <2>1, <3>1, RowsOfNothing
  <2> QED BY <2>1, <2>2 DEF RunInv
<1>4. CASE Fail
  BY <1>1, <1>4 DEF Fail, RunInv
<1>5. CASE printUsage \/ printList \/ printMethods
  BY <1>1, <1>4, <1>5 DEF printUsage, printList, printMethods, Answer, RunInv
<1>6. CASE Select \/ Resolve
  <2>1. CASE ~Fail
    <3>1. /\ UNCHANGED <<disk, tool, rows, output>> /\ pc \in {"dispatch", "resolve"}
          /\ pc' \in {"resolve", "load"}
      BY <1>6, <2>1 DEF Select, Resolve
    <3>2. RowsOf(output)' = RowsOf(output)
      BY <3>1 DEF RowsOf, Marked, MarkedAt, Pick, InOrder
    <3> QED BY <3>1, <3>2 DEF RunInv
  <2> QED BY <1>4, <2>1
<1>7. CASE Load
  <2>1. CASE ~Fail
    <3>1. /\ pc = "load" /\ pc' = "filter" /\ UNCHANGED <<disk, tool, files, rows, output>>
          /\ Contents(files.baseline) # Missing /\ Contents(files.current) # Missing
          /\ loaded'.baseline = Contents(files.baseline) /\ loaded'.current = Contents(files.current)
      BY <1>7, <2>1 DEF Load
    <3>2. Contents(files.baseline) \in Seq(Entries) /\ Contents(files.current) \in Seq(Entries)
      BY <3>1, ContentsType DEF RunInv, Snapshots
    <3>3. RowsOf(output)' = RowsOf(output)
      BY <3>1 DEF RowsOf, Marked, MarkedAt, Pick, InOrder
    <3>4. \A file : Contents(file)' = Contents(file)
      BY <3>1 DEF Contents, Stored
    <3> QED BY <3>1, <3>2, <3>3, <3>4 DEF RunInv
  <2> QED BY <1>4, <2>1
<1>8. CASE Export
  BY <1>1, <1>8 DEF Export, RunInv
<1> QED BY <1>2, <1>3, <1>5, <1>6, <1>7, <1>8, FilterStep, PrintRowStep, PrintEndStep
    DEF Next, CustomMain, GoogleMain, Run, Finished

----------------------------------------------------------------------------
\* The reports.

WrittenInv ==
    /\ DOMAIN reports = Tools /\ DOMAIN completed = Tools
    /\ \A t \in Tools : LastSuccess(t)

LEMMA WantedFiltered ==
  ASSUME NEW s \in Seq(Entries)
  PROVE  Pick(s, {i \in DOMAIN s : method \in {<<>>, s[i].name}}) = Filtered(s)
<1>1. CASE method = <<>>
  <2>1. {i \in DOMAIN s : method \in {<<>>, s[i].name}} = DOMAIN s
    BY <1>1
  <2> QED BY <1>1, <2>1, PickAll DEF Filtered
<1>2. CASE method # <<>>
  <2>1. {i \in DOMAIN s : method \in {<<>>, s[i].name}} = {i \in DOMAIN s : s[i].name = method}
    BY <1>2
  <2> QED BY <1>2, <2>1 DEF Filtered, filterByOperation
<1> QED BY <1>1, <1>2

\* What LastSuccess asks of a report, of the results it is about.
InFile(of, t, file) ==
    IF file = Live THEN of.live[t]
    ELSE LET found == {folder \in of.folders : folder.tag = file}
         IN  IF found = {} THEN Missing ELSE (CHOOSE folder \in found : TRUE)[t]
RowsIn(written) == Pick(written, {i \in DOMAIN written : written[i].event = "row"})
EntriesFor(name, stored) == Pick(stored, {i \in DOMAIN stored : name \in {<<>>, stored[i].name}})
Success(of, report, kept, entries, exist) ==
    IF of = None \/ ~exist
    THEN report = [json |-> None, markdown |-> None]
    ELSE /\ kept = report.json
         /\ [i \in DOMAIN kept |-> <<kept[i].name, kept[i].baseline>>]
            = [i \in DOMAIN entries |-> <<entries[i].name, entries[i].ns>>]
         /\ of.method # <<>> => kept # <<>>

LEMMA SuccessBy ==
  ASSUME NEW t
  PROVE  /\ LastSuccess(t) <=>
              Success(completed[t], reports[t], RowsIn(reports[t].markdown),
                      EntriesFor(completed[t].method,
                                 InFile(disk, t, completed[t].files.baseline)),
                      disk.resultsExist)
         /\ LastSuccess(t)' <=>
              Success(completed'[t], reports'[t], RowsIn(reports'[t].markdown),
                      EntriesFor(completed'[t].method,
                                 InFile(disk', t, completed'[t].files.baseline)),
                      disk'.resultsExist)
BY DEF LastSuccess, Success, RowsIn, EntriesFor, Stored, InFile

LEMMA LastSuccessKept ==
  ASSUME NEW t \in Tools, LastSuccess(t), disk' = disk, reports'[t] = reports[t],
         completed'[t] = completed[t]
  PROVE  LastSuccess(t)'
BY SuccessBy

LEMMA ExportStep ==
  ASSUME RunInv, WrittenInv, Export
  PROVE  WrittenInv'
<1>1. /\ pc = "export" /\ UNCHANGED <<disk, tool, files, method, rows, output>>
      /\ reports' = IF disk.resultsExist THEN [reports EXCEPT ![tool] = Written] ELSE reports
      /\ completed' = [completed EXCEPT ![tool] = [files |-> files, method |-> method]]
  BY DEF Export, CustomExport, GoogleExport, RunInv, Tools
<1>2. tool \in Tools /\ DOMAIN reports = Tools /\ DOMAIN completed = Tools
  BY DEF RunInv, WrittenInv
<1>3. ASSUME NEW t \in Tools, t # tool PROVE LastSuccess(t)'
  <2>1. reports'[t] = reports[t] /\ completed'[t] = completed[t]
    BY <1>1, <1>2, <1>3
  <2> QED BY <1>1, <2>1, LastSuccessKept DEF WrittenInv
<1>4. completed'[tool] = [files |-> files, method |-> method] /\ completed'[tool] # None
  BY <1>1, <1>2 DEF None
<1>5. CASE ~disk.resultsExist
  <2>1. reports[tool] = [json |-> None, markdown |-> None]
    BY <1>2, <1>5 DEF WrittenInv, LastSuccess
  <2>2. LastSuccess(tool)'
    BY <1>1, <1>5, <2>1 DEF LastSuccess, None
  <2> QED BY <1>1, <1>2, <1>3, <2>2 DEF WrittenInv
<1>6. CASE disk.resultsExist
  <2> DEFINE stored == Stored(tool, files.baseline)
             entries == Pick(stored, {i \in DOMAIN stored : method \in {<<>>, stored[i].name}})
             kept == Pick(Markdown, {i \in DOMAIN Markdown : Markdown[i].event = "row"})
  <2>1. reports'[tool] = [json |-> rows, markdown |-> Markdown]
    BY <1>1, <1>2, <1>6 DEF Written
  <2>2. kept = rows
    <3>1. Markdown = Marked(output, Shown)
      BY DEF Markdown, Marked, MarkedAt, Shown
    <3>2. kept = Marked(Markdown, {"row"})
      BY DEF Marked, MarkedAt
    <3> QED BY <3>1, <3>2 DEF RowsOf, RunInv
  <2>3. /\ stored \in Seq(Entries) /\ loaded.baseline = Filtered(stored)
        /\ loaded.current \in Seq(Entries)
        /\ rows \in Seq(RowItems) /\ Len(rows) = Len(loaded.baseline)
        /\ \A i \in 1..Len(rows) : rows[i] = Row(loaded.baseline[i])
        /\ method # <<>> => loaded.baseline # <<>>
    BY <1>1, LoadedType DEF RunInv, Comparison, Contents
  <2>4. entries = loaded.baseline /\ entries \in Seq(Entries)
    <3> HIDE DEF stored
    <3> QED BY <2>3, WantedFiltered, FilteredType
  <2> HIDE DEF stored, entries, kept
  <2>5. [i \in DOMAIN kept |-> <<kept[i].name, kept[i].baseline>>]
        = [i \in DOMAIN entries |-> <<entries[i].name, entries[i].ns>>]
    <3>1. DOMAIN kept = 1..Len(rows) /\ DOMAIN entries = 1..Len(rows)
      BY <2>2, <2>3, <2>4
    <3>2. ASSUME NEW i \in 1..Len(rows)
          PROVE  kept[i].name = entries[i].name /\ kept[i].baseline = entries[i].ns
      <4>1. entries[i] \in Entries /\ kept[i] = Row(entries[i])
        BY <2>2, <2>3, <2>4, <3>1, ElementOfSeq
      <4> QED BY <2>3, <4>1, RowType
    <3> QED BY <3>1, <3>2
  <2>6. method # <<>> => kept # <<>>
    BY <2>2, <2>3
  <2>7. LastSuccess(tool)'
    <3> DEFINE of == [files |-> files, method |-> method]
               report == [json |-> rows, markdown |-> Markdown]
    <3>1. /\ of # None /\ of.method = method
          /\ report.json = rows /\ report.markdown = Markdown
      BY DEF None
    <3> HIDE DEF of, report
    <3>2. RowsIn(report.markdown) = kept /\ EntriesFor(of.method, stored) = entries
      BY <3>1 DEF kept, entries, RowsIn, EntriesFor
    <3>3. Success(of, report, kept, entries, disk.resultsExist)
      BY <1>6, <2>2, <2>5, <2>6, <3>1 DEF Success
    <3>4. InFile(disk', tool, completed'[tool].files.baseline) = stored
      <4>1. completed'[tool].files.baseline = files.baseline
        BY <1>4
      <4>2. stored = InFile(disk, tool, files.baseline)
        BY DEF stored, Stored, InFile
      <4> QED BY <1>1, <4>1, <4>2
    <3> QED BY <1>1, <1>4, <2>1, <3>2, <3>3, <3>4, SuccessBy DEF of, report
  <2> QED BY <1>1, <1>2, <1>3, <2>7 DEF WrittenInv
<1> QED BY <1>5, <1>6

LEMMA WrittenStep ==
  ASSUME RunInv, WrittenInv, [Next]_vars
  PROVE  WrittenInv'
<1>1. CASE UNCHANGED <<disk, reports, completed>>
  BY <1>1, LastSuccessKept DEF WrittenInv
<1>2. CASE ~UNCHANGED <<disk, reports, completed>>
  <2>1. Export
    BY <1>2 DEF Next, Start, CustomMain, GoogleMain, Finished, Run, printUsage, printList,
                printMethods, Select, Resolve, Load, Filter, PrintRow, PrintEnd, Answer, Fail,
                vars, runVars
  <2> QED BY <2>1, ExportStep
<1> QED BY <1>1, <1>2

LEMMA WrittenInit == Init => WrittenInv
BY DEF Init, WrittenInv, LastSuccess

\* Whatever runs succeed and fail, in whatever order, each tool's reports on disk are
\* those of its last comparison that succeeded, with a row for every entry that was
\* asked for, the same in both reports.
THEOREM ReportsHold == Spec => []ReportsOfLastSuccess
<1>1. Init => RunInv /\ WrittenInv
  BY RunInit, WrittenInit
<1>2. RunInv /\ WrittenInv /\ [Next]_vars => RunInv' /\ WrittenInv'
  BY RunStep, WrittenStep
<1>3. WrittenInv => ReportsOfLastSuccess
  BY DEF WrittenInv, ReportsOfLastSuccess
<1> QED BY <1>1, <1>2, <1>3, PTL DEF Spec

----------------------------------------------------------------------------
\* The comparison: like with like.

LEMMA ContentsOrderly ==
  ASSUME OrderlySnapshots, disk \in Disks, tool \in Tools, NEW file, Contents(file) # Missing
  PROVE  Orderly(tool, Contents(file))
<1> DEFINE found == {folder \in disk.folders : folder.tag = file}
<1>1. Contents(file) \in {disk.live[tool]} \cup {folder[tool] : folder \in disk.folders}
  <2>1. CASE file = Live
    BY <2>1 DEF Contents, Stored
  <2>2. CASE file # Live
    <3>1. found # {}
      BY <2>2 DEF Contents, Stored
    <3>2. (CHOOSE folder \in found : TRUE) \in disk.folders
      BY <3>1
    <3>3. Contents(file) = (CHOOSE folder \in found : TRUE)[tool]
      BY <2>2, <3>1 DEF Contents, Stored
    <3> HIDE DEF found
    <3> QED BY <3>2, <3>3
  <2> QED BY <2>1, <2>2
<1> QED BY <1>1 DEF OrderlySnapshots

\* What is left of a snapshot: the entries of the method, in their order.
LEMMA FilteredBy ==
  ASSUME NEW s \in Seq(Entries)
  PROVE  /\ \A e \in ToSet(s) : method \in {<<>>, e.name} => e \in ToSet(Filtered(s))
         /\ \A i \in DOMAIN Filtered(s) : method \in {<<>>, Filtered(s)[i].name}
         /\ \E f \in [DOMAIN Filtered(s) -> DOMAIN s] :
               /\ \A i, j \in DOMAIN Filtered(s) : i < j => f[i] < f[j]
               /\ \A i \in DOMAIN Filtered(s) : Filtered(s)[i] = s[f[i]]
<1>1. Len(s) \in Nat /\ DOMAIN s = 1..Len(s)
  OBVIOUS
<1>2. CASE method = <<>>
  <2>1. Filtered(s) = s
    BY <1>2 DEF Filtered
  <2> DEFINE f == [i \in DOMAIN s |-> i]
  <2>2. /\ f \in [DOMAIN s -> DOMAIN s] /\ \A i, j \in DOMAIN s : i < j => f[i] < f[j]
        /\ \A i \in DOMAIN s : s[i] = s[f[i]]
    OBVIOUS
  <2> QED BY <1>2, <2>1, <2>2
<1>3. CASE method # <<>>
  <2> DEFINE P == {i \in DOMAIN s : s[i].name = method}
  <2>1. Filtered(s) = Pick(s, P)
    BY <1>3 DEF Filtered, filterByOperation
  <2>2. P \in SUBSET (1..Len(s)) /\ \A p \in P : p \in DOMAIN s /\ s[p].name = method
    BY <1>1
  <2>3. \A e \in ToSet(s) : e.name = method => \E p \in P : e = s[p]
    BY DEF ToSet
  <2> HIDE DEF P
  <2>4. P \in SUBSET Int /\ IsFiniteSet(P)
    BY <1>1, <2>2, Positions
  <2>5. /\ DOMAIN Pick(s, P) = 1..Cardinality(P) /\ Kept(P) \in [1..Cardinality(P) -> P]
        /\ \A i, j \in 1..Cardinality(P) : i < j <=> Kept(P)[i] < Kept(P)[j]
        /\ \A p \in P : \E k \in 1..Cardinality(P) : Kept(P)[k] = p
        /\ \A k \in 1..Cardinality(P) : Pick(s, P)[k] = s[Kept(P)[k]]
    BY <2>4, KeptBy
  <2>6. ASSUME NEW e \in ToSet(s), method \in {<<>>, e.name} PROVE e \in ToSet(Pick(s, P))
    <3>1. PICK p \in P : e = s[p]
      BY <1>3, <2>3, <2>6
    <3>2. PICK k \in 1..Cardinality(P) : Kept(P)[k] = p
      BY <2>5
    <3>3. Pick(s, P)[k] = e
      BY <2>5, <3>1, <3>2
    <3> QED BY <2>5, <3>3 DEF ToSet
  <2>7. \A i \in DOMAIN Pick(s, P) : Pick(s, P)[i].name = method
    BY <2>2, <2>5
  <2>8. Kept(P) \in [1..Cardinality(P) -> DOMAIN s]
    BY <2>2, <2>5
  <2>9. \E f \in [DOMAIN Filtered(s) -> DOMAIN s] :
            /\ \A i, j \in DOMAIN Filtered(s) : i < j => f[i] < f[j]
            /\ \A i \in DOMAIN Filtered(s) : Filtered(s)[i] = s[f[i]]
    <3> DEFINE left == Filtered(s)  D == 1..Cardinality(P)  kept == Kept(P)
    <3>1. /\ DOMAIN left = D /\ kept \in [D -> DOMAIN s]
          /\ \A i, j \in D : i < j => kept[i] < kept[j]
          /\ \A i \in D : left[i] = s[kept[i]]
      BY <2>1, <2>5, <2>8
    <3> HIDE DEF left, D, kept
    <3>2. /\ kept \in [DOMAIN left -> DOMAIN s]
          /\ \A i, j \in DOMAIN left : i < j => kept[i] < kept[j]
          /\ \A i \in DOMAIN left : left[i] = s[kept[i]]
      BY <3>1
    <3>3. \E f \in [DOMAIN left -> DOMAIN s] :
             /\ \A i, j \in DOMAIN left : i < j => f[i] < f[j]
             /\ \A i \in DOMAIN left : left[i] = s[f[i]]
      BY ONLY <3>2
    <3> QED BY <3>3 DEF left
  <2> QED BY <2>1, <2>6, <2>7, <2>9
<1> QED BY <1>2, <1>3

\* A row has the current run's time of its benchmark, if that has one.
LEMMA RowOfTwin ==
  ASSUME NEW s \in Seq(Entries), Orderly(tool, s), loaded.current = Filtered(s),
         NEW entry, method \in {<<>>, entry.name}, NEW e \in ToSet(s), e.name = entry.name,
         tool = "custom" => e.iterations = entry.iterations
  PROVE  Row(entry).current = e.ns
<1> DEFINE c == Filtered(s)
           found == {i \in DOMAIN c : /\ c[i].name = entry.name
                                      /\ tool = "custom" => c[i].iterations = entry.iterations}
<1>1. c \in Seq(Entries) /\ ToSet(c) \subseteq ToSet(s) /\ e \in ToSet(c)
  BY FilteredType, FilteredBy
<1>2. Row(entry).current = Cns(c, found)
  <2>1. CASE tool = "custom"
    <3>1. found = {i \in DOMAIN c : c[i].name = entry.name /\ c[i].iterations = entry.iterations}
      BY <2>1
    <3> QED BY <2>1, <3>1 DEF Row, CustomRow, CustomCns, RowOf
  <2>2. CASE tool # "custom"
    <3>1. found = {i \in DOMAIN c : c[i].name = entry.name}
      BY <2>2
    <3> QED BY <2>2, <3>1 DEF Row, GoogleRow, GoogleCns, RowOf
  <2> QED BY <2>1, <2>2
<1>3. found # {} /\ found \in SUBSET DOMAIN c
  BY <1>1 DEF ToSet
<1>4. PICK i \in found : Cns(c, found) = c[i].ns
  <2> HIDE DEF found, c
  <2> QED BY <1>1, <1>3, CnsType
<1>5. PICK p \in DOMAIN s : c[i] = s[p]
  <2>1. c[i] \in ToSet(c)
    BY <1>3 DEF ToSet
  <2> QED BY <1>1, <2>1 DEF ToSet
<1>6. PICK q \in DOMAIN s : e = s[q]
  BY DEF ToSet
<1>7. s[p].name = s[q].name /\ (tool = "custom" => s[p].iterations = s[q].iterations)
  BY <1>5, <1>6
<1>8. s[p].ns = s[q].ns
  BY <1>7 DEF Orderly
<1> QED BY <1>2, <1>4, <1>5, <1>6, <1>8

LEMMA DisjointSum ==
  ASSUME NEW A, IsFiniteSet(A), NEW B, IsFiniteSet(B), A \cap B = {}
  PROVE  /\ IsFiniteSet(A \cup B)
         /\ Cardinality(A \cup B) = Cardinality(A) + Cardinality(B)
<1>1. Cardinality(A \cap B) = 0
  BY FS_EmptySet
<1>2. Cardinality(A \cup B) = Cardinality(A) + Cardinality(B) - Cardinality(A \cap B)
  BY FS_Union
<1>3. Cardinality(A) \in Nat /\ Cardinality(B) \in Nat /\ IsFiniteSet(A \cup B)
  BY FS_CardinalityType, FS_Union
<1>4. Cardinality(A \cup B) = Cardinality(A) + Cardinality(B)
  <2> DEFINE a == Cardinality(A)  b == Cardinality(B)  c == Cardinality(A \cup B)
             d == Cardinality(A \cap B)
  <2>1. c = a + b - d /\ d = 0 /\ a \in Nat /\ b \in Nat
    BY <1>1, <1>2, <1>3
  <2> HIDE DEF a, b, c, d
  <2>2. c = a + b
    BY <2>1
  <2> QED BY <2>2 DEF a, b, c
<1> QED BY <1>3, <1>4

LEMMA SummaryCounts ==
  ASSUME rows \in Seq(RowItems)
  PROVE  Summary.faster + Summary.slower + Summary.tie = Len(rows)
<1> DEFINE D == 1..Len(rows)  Of(v) == {i \in D : rows[i].verdict = v}
<1>1. Len(rows) \in Nat /\ DOMAIN rows = D
  OBVIOUS
<1>2. \A i \in D : rows[i].verdict \in Verdicts
  <2>1. \A i \in D : rows[i] \in RowItems
    BY <1>1, ElementOfSeq
  <2> QED BY <2>1 DEF RowItems
<1>3. IsFiniteSet(D) /\ Cardinality(D) = Len(rows)
  BY <1>1, FS_Interval
<1>4. Count("faster") = Cardinality(Of("faster")) /\ Count("slower") = Cardinality(Of("slower"))
      /\ Count("tie") = Cardinality(Of("tie"))
  BY <1>1 DEF Count
<1>5. \A v : IsFiniteSet(Of(v)) /\ Cardinality(Of(v)) \in Nat
  <2> TAKE v
  <2>1. Of(v) \subseteq D
    OBVIOUS
  <2> HIDE DEF D, Of
  <2> QED BY <1>3, <2>1, FS_Subset, FS_CardinalityType
<1>6. /\ D = (Of("faster") \cup Of("slower")) \cup Of("tie")
      /\ Of("faster") \cap Of("slower") = {}
      /\ (Of("faster") \cup Of("slower")) \cap Of("tie") = {}
  BY <1>2 DEF Verdicts
<1> HIDE DEF D, Of
<1>7. /\ IsFiniteSet(Of("faster") \cup Of("slower"))
      /\ Cardinality(Of("faster") \cup Of("slower"))
         = Cardinality(Of("faster")) + Cardinality(Of("slower"))
  BY <1>5, <1>6, DisjointSum
<1>8. Cardinality(D) = Cardinality(Of("faster") \cup Of("slower")) + Cardinality(Of("tie"))
  BY <1>5, <1>6, <1>7, DisjointSum
<1> QED BY <1>3, <1>4, <1>5, <1>7, <1>8 DEF Summary

LEMMA LikeWithLike ==
  ASSUME OrderlySnapshots, RunInv
  PROVE  ComparesLikeWithLike
<1> SUFFICES ASSUME pc = "export" PROVE ComparesLikeWithLike
  BY DEF ComparesLikeWithLike, Compared
<1> DEFINE base == Contents(files.baseline)  now == Contents(files.current)
<1>1. /\ base \in Seq(Entries) /\ now \in Seq(Entries) /\ Comparison
      /\ loaded.baseline = Filtered(base) /\ loaded.current = Filtered(now)
      /\ Len(rows) = Len(loaded.baseline) /\ rows \in Seq(RowItems)
      /\ rows # <<>> => output[Len(output)] = Summary
  BY DEF RunInv, Comparison
<1>2. Wanted(base) = loaded.baseline
  BY <1>1, WantedFiltered DEF Wanted
<1>3. loaded.baseline \in Seq(Entries) /\ loaded.current \in Seq(Entries)
  BY LoadedType
<1>4. DOMAIN rows = 1..Len(rows) /\ DOMAIN loaded.baseline = 1..Len(rows) /\ Len(rows) \in Nat
  BY <1>1, <1>3
<1>5. ASSUME NEW i \in DOMAIN rows
      PROVE  /\ rows[i].baseline = loaded.baseline[i].ns
             /\ \A e \in ToSet(now) :
                   (/\ e.name = loaded.baseline[i].name
                    /\ tool = "custom" => e.iterations = loaded.baseline[i].iterations)
                   => rows[i].current = e.ns
  <2>1. loaded.baseline[i] \in Entries /\ rows[i] = Row(loaded.baseline[i])
    BY <1>1, <1>3, <1>4, ElementOfSeq DEF Comparison
  <2>2. rows[i].baseline = loaded.baseline[i].ns
    BY <1>3, <2>1, RowType
  <2>3. Orderly(tool, now)
    <3>1. now # Missing
      BY DEF RunInv
    <3> QED BY <3>1, ContentsOrderly DEF RunInv
  <2>4. method \in {<<>>, loaded.baseline[i].name}
    BY <1>1, <1>4, FilteredBy
  <2> QED BY <1>1, <2>1, <2>2, <2>3, <2>4, RowOfTwin
<1>6. ASSUME method # <<>> PROVE rows # <<>> /\ \E e \in ToSet(now) : e.name = method
  <2>1. loaded.baseline # <<>> /\ loaded.current # <<>>
    BY <1>1, <1>6 DEF Comparison
  <2>2. rows # <<>>
    BY <1>1, <1>3, <2>1
  <2>3. 1 \in DOMAIN loaded.current
    BY <1>3, <2>1
  <2>4. loaded.current[1] \in ToSet(now) /\ loaded.current[1].name = method
    <3>1. loaded.current[1] \in ToSet(loaded.current)
      BY <2>3 DEF ToSet
    <3> QED BY <1>1, <1>6, <2>3, <3>1, FilteredType, FilteredBy
  <2> QED BY <2>2, <2>4
<1>7. rows # <<>> => output[Len(output)] = Summary
                     /\ Summary.faster + Summary.slower + Summary.tie = Len(rows)
  BY <1>1, SummaryCounts
<1> QED BY <1>1, <1>2, <1>5, <1>6, <1>7 DEF ComparesLikeWithLike

----------------------------------------------------------------------------
\* The tables: how many items of a kind there are up to an item, and under
\* which heading it stands.

At(o, i, kind) == {j \in 1..i : o[j].event = kind}
Many(o, i, kind) == Cardinality(At(o, i, kind))
LastIn(P) == CHOOSE j \in P : \A k \in P : k <= j
Heading(o, i) == o[LastIn(At(o, i, "header"))].group

LEMMA LastOf ==
  ASSUME NEW P \in SUBSET Int, IsFiniteSet(P), P # {}
  PROVE  LastIn(P) \in P /\ \A j \in P : j <= LastIn(P)
<1> DEFINE n == Cardinality(P)
<1>1. /\ n \in Nat /\ Kept(P) \in [1..n -> P]
      /\ \A i, j \in 1..n : i < j <=> Kept(P)[i] < Kept(P)[j]
      /\ \A p \in P : \E k \in 1..n : Kept(P)[k] = p
  BY KeptBy
<1> HIDE DEF n
<1>2. n \in 1..n
  <2>1. PICK k \in 1..n : TRUE
    BY <1>1
  <2> QED BY <1>1, <2>1
<1>3. ASSUME NEW j \in P PROVE j <= Kept(P)[n]
  <2>1. PICK k \in 1..n : Kept(P)[k] = j
    BY <1>1
  <2>2. k = n \/ k < n
    BY <1>1
  <2>3. Kept(P)[n] \in Int /\ j \in Int
    BY <1>1, <1>2
  <2> QED BY <1>1, <1>2, <2>1, <2>2, <2>3
<1>4. Kept(P)[n] \in P
  BY <1>1, <1>2
<1> QED BY <1>3, <1>4 DEF LastIn

LEMMA LastIs ==
  ASSUME NEW P \in SUBSET Int, NEW p \in P, \A j \in P : j <= p
  PROVE  LastIn(P) = p
<1>1. LastIn(P) \in P /\ \A j \in P : j <= LastIn(P)
  BY DEF LastIn
<1>2. LastIn(P) <= p /\ p <= LastIn(P) /\ LastIn(P) \in Int /\ p \in Int
  BY <1>1
<1> HIDE DEF LastIn
<1> QED BY <1>2

LEMMA AtAppend ==
  ASSUME NEW o \in Seq(Items), NEW x \in Items, NEW kind
  PROVE  /\ \A i \in 0..Len(o) : /\ At(Append(o, x), i, kind) = At(o, i, kind)
                                 /\ Many(Append(o, x), i, kind) = Many(o, i, kind)
                                 /\ Many(o, i, kind) \in Nat
                                 /\ At(o, i, kind) \subseteq 1..i
                                 /\ IsFiniteSet(At(o, i, kind))
         /\ At(Append(o, x), Len(o) + 1, kind)
            = IF x.event = kind THEN At(o, Len(o), kind) \cup {Len(o) + 1} ELSE At(o, Len(o), kind)
         /\ Many(Append(o, x), Len(o) + 1, kind)
            = IF x.event = kind THEN Many(o, Len(o), kind) + 1 ELSE Many(o, Len(o), kind)
<1> DEFINE u == Append(o, x)  n == Len(o)
<1>1. n \in Nat /\ u[n + 1] = x /\ \A i \in 1..n : u[i] = o[i]
  BY AppendProperties
<1> HIDE DEF u, n
<1>2. ASSUME NEW i \in 0..n
      PROVE  /\ At(u, i, kind) = At(o, i, kind) /\ At(o, i, kind) \subseteq 1..i
             /\ IsFiniteSet(At(o, i, kind)) /\ Many(o, i, kind) \in Nat
  <2>1. At(o, i, kind) \subseteq 1..i
    BY DEF At
  <2>2. IsFiniteSet(At(o, i, kind))
    <3>1. i \in Nat /\ At(o, i, kind) \in SUBSET (1..i)
      BY <1>1, <2>1
    <3> QED BY <3>1, Positions
  <2>3. \A j \in 1..i : u[j] = o[j]
    BY <1>1
  <2>4. At(u, i, kind) = At(o, i, kind)
    BY <2>3 DEF At
  <2> QED BY <2>1, <2>2, <2>4, FS_CardinalityType DEF Many
<1>3. At(u, n + 1, kind) = IF x.event = kind THEN At(o, n, kind) \cup {n + 1} ELSE At(o, n, kind)
  <2>1. 1..(n + 1) = (1..n) \cup {n + 1}
    BY <1>1
  <2>2. \A j \in 1..n : u[j].event = kind <=> o[j].event = kind
    BY <1>1
  <2>3. u[n + 1].event = kind <=> x.event = kind
    BY <1>1
  <2> QED BY <2>1, <2>2, <2>3 DEF At
<1>4. n \in 0..n /\ n + 1 \notin At(o, n, kind)
  <2>1. n \in 0..n /\ n + 1 \notin 1..n
    BY <1>1
  <2> QED BY <2>1 DEF At
<1>5. x.event = kind => Many(u, n + 1, kind) = Many(o, n, kind) + 1
  <2>1. IsFiniteSet(At(o, n, kind))
    BY <1>2, <1>4
  <2>2. Cardinality(At(o, n, kind) \cup {n + 1}) = Cardinality(At(o, n, kind)) + 1
    BY <1>4, <2>1, FS_AddElement
  <2> QED BY <1>3, <2>2 DEF Many
<1>6. x.event # kind => Many(u, n + 1, kind) = Many(o, n, kind)
  BY <1>3 DEF Many
<1> QED BY <1>2, <1>3, <1>5, <1>6 DEF u, n, Many

LEMMA HeadingAppend ==
  ASSUME NEW o \in Seq(Items), NEW x \in Items
  PROVE  /\ \A i \in 0..Len(o) : Many(o, i, "header") > 0 => Heading(Append(o, x), i) = Heading(o, i)
         /\ x.event = "header" => Heading(Append(o, x), Len(o) + 1) = x.group
         /\ (x.event # "header" /\ Many(o, Len(o), "header") > 0)
               => Heading(Append(o, x), Len(o) + 1) = Heading(o, Len(o))
<1> DEFINE u == Append(o, x)  n == Len(o)
<1>1. n \in Nat /\ u[n + 1] = x /\ \A i \in 1..n : u[i] = o[i]
  BY AppendProperties
<1>2. /\ \A i \in 0..n : /\ At(u, i, "header") = At(o, i, "header")
                         /\ At(o, i, "header") \subseteq 1..i
                         /\ IsFiniteSet(At(o, i, "header"))
      /\ At(u, n + 1, "header") = IF x.event = "header" THEN At(o, n, "header") \cup {n + 1}
                                  ELSE At(o, n, "header")
  BY AtAppend
<1> HIDE DEF u, n
<1>3. ASSUME NEW i \in 0..n, Many(o, i, "header") > 0
      PROVE  LastIn(At(o, i, "header")) \in 1..n
  <2>1. At(o, i, "header") # {}
    <3>1. At(o, i, "header") = {} => Many(o, i, "header") = 0
      BY FS_EmptySet DEF Many
    <3> QED BY <1>3, <3>1
  <2>2. At(o, i, "header") \in SUBSET Int
    BY <1>2
  <2>3. LastIn(At(o, i, "header")) \in At(o, i, "header")
    BY <1>2, <2>1, <2>2, LastOf
  <2>4. LastIn(At(o, i, "header")) \in 1..i
    BY <1>2, <2>3
  <2> QED BY <1>1, <2>4
<1>4. \A i \in 0..n : Many(o, i, "header") > 0 => Heading(u, i) = Heading(o, i)
  BY <1>1, <1>2, <1>3 DEF Heading
<1>5. n \in 0..n
  BY <1>1
<1>6. ASSUME x.event = "header" PROVE Heading(u, n + 1) = x.group
  <2> DEFINE P == At(o, n, "header") \cup {n + 1}
  <2>1. At(u, n + 1, "header") = P
    BY <1>2, <1>6
  <2>2. \A j \in P : j \in Int /\ j <= n + 1
    BY <1>1, <1>2, <1>5
  <2>3. n + 1 \in P
    OBVIOUS
  <2> HIDE DEF P
  <2>4. LastIn(P) = n + 1
    BY <2>2, <2>3, LastIs
  <2> QED BY <1>1, <2>1, <2>4 DEF Heading
<1>7. ASSUME x.event # "header", Many(o, n, "header") > 0 PROVE Heading(u, n + 1) = Heading(o, n)
  <2>1. At(u, n + 1, "header") = At(o, n, "header")
    BY <1>2, <1>7
  <2>2. LastIn(At(o, n, "header")) \in 1..n
    BY <1>3, <1>5, <1>7
  <2> QED BY <1>1, <2>1, <2>2 DEF Heading
<1> QED BY <1>4, <1>6, <1>7 DEF u, n

\* Tables under the headings that the sequence G names row by row.
ItemFits(o, G, i) ==
    /\ Many(o, i, "header") - Many(o, i, "end") \in {0, 1}
    /\ o[i].event \in {"row", "line"} => Many(o, i, "header") = Many(o, i, "end") + 1
    /\ o[i].event = "row" => /\ Many(o, i, "row") \in DOMAIN G
                             /\ Heading(o, i) = G[Many(o, i, "row")]
Tables(o, G) == \A i \in 1..Len(o) : ItemFits(o, G, i)

RowCount(o) == Many(o, Len(o), "row")
Headers(o) == Many(o, Len(o), "header")
Open(o, g) == Headers(o) = Many(o, Len(o), "end") + 1 /\ Heading(o, Len(o)) = g
Closed(o) == Headers(o) = Many(o, Len(o), "end")

LEMMA TablesAppend ==
  ASSUME NEW o \in Seq(Items), NEW x \in Items, NEW G, Tables(o, G),
         ItemFits(Append(o, x), G, Len(o) + 1)
  PROVE  Tables(Append(o, x), G)
<1> DEFINE u == Append(o, x)  n == Len(o)
<1>1. n \in Nat /\ Len(u) = n + 1 /\ \A i \in 1..n : u[i] = o[i]
  BY AppendProperties
<1>2. ASSUME NEW i \in 1..n PROVE ItemFits(u, G, i)
  <2>1. i \in 0..n
    BY <1>1
  <2>2. \A kind : Many(u, i, kind) = Many(o, i, kind) /\ Many(o, i, kind) \in Nat
    BY <2>1, AtAppend
  <2>3. ItemFits(o, G, i) /\ u[i] = o[i]
    BY <1>1 DEF Tables
  <2>4. Many(o, i, "header") > 0 => Heading(u, i) = Heading(o, i)
    BY <2>1, HeadingAppend
  <2> HIDE DEF u
  <2>5. o[i].event = "row" => Heading(u, i) = Heading(o, i)
    BY <2>2, <2>3, <2>4 DEF ItemFits
  <2> QED BY <2>2, <2>3, <2>5 DEF ItemFits
<1>3. 1..Len(u) = (1..n) \cup {n + 1}
  BY <1>1
<1> QED BY <1>2, <1>3 DEF Tables

\* What each kind of item does to the tables.
LEMMA AppendItem ==
  ASSUME NEW o \in Seq(Items), NEW x \in Items, NEW G, Tables(o, G), NEW g
  PROVE  LET u == Append(o, x)
         IN  /\ (Closed(o) /\ x.event = "header") =>
                   /\ Tables(u, G) /\ Open(u, x.group)
                   /\ RowCount(u) = RowCount(o) /\ Headers(u) = Headers(o) + 1
             /\ (Open(o, g) /\ x.event = "end") =>
                   /\ Tables(u, G) /\ Closed(u)
                   /\ RowCount(u) = RowCount(o) /\ Headers(u) = Headers(o)
             /\ (Open(o, g) /\ x.event = "line") =>
                   /\ Tables(u, G) /\ Open(u, g)
                   /\ RowCount(u) = RowCount(o) /\ Headers(u) = Headers(o)
             /\ (Open(o, g) /\ x.event = "row" /\ RowCount(o) + 1 \in DOMAIN G
                   /\ G[RowCount(o) + 1] = g) =>
                   /\ Tables(u, G) /\ Open(u, g)
                   /\ RowCount(u) = RowCount(o) + 1 /\ Headers(u) = Headers(o)
             /\ (Closed(o) /\ x.event = "summary") =>
                   /\ Tables(u, G) /\ Closed(u)
                   /\ RowCount(u) = RowCount(o) /\ Headers(u) = Headers(o)
<1> DEFINE u == Append(o, x)  n == Len(o)
           h == Many(o, n, "header")  e == Many(o, n, "end")  r == Many(o, n, "row")
<1>1. n \in Nat /\ Len(u) = n + 1 /\ u[n + 1] = x
  BY AppendProperties
<1>2. n \in 0..n
  BY <1>1
<1>3. h \in Nat /\ e \in Nat /\ r \in Nat
  BY <1>2, AtAppend
<1>4. /\ Many(u, n + 1, "header") = IF x.event = "header" THEN h + 1 ELSE h
      /\ Many(u, n + 1, "end") = IF x.event = "end" THEN e + 1 ELSE e
      /\ Many(u, n + 1, "row") = IF x.event = "row" THEN r + 1 ELSE r
  BY AtAppend
<1>5. /\ x.event = "header" => Heading(u, n + 1) = x.group
      /\ (x.event # "header" /\ h > 0) => Heading(u, n + 1) = Heading(o, n)
  BY HeadingAppend
<1>6. ItemFits(u, G, n + 1) => Tables(u, G)
  BY TablesAppend
<1>7. /\ RowCount(o) = r /\ Headers(o) = h /\ (Closed(o) <=> h = e)
      /\ (Open(o, g) <=> h = e + 1 /\ Heading(o, n) = g)
  BY DEF RowCount, Headers, Closed, Open
<1>8. /\ RowCount(u) = Many(u, n + 1, "row") /\ Headers(u) = Many(u, n + 1, "header")
      /\ Closed(u) <=> Many(u, n + 1, "header") = Many(u, n + 1, "end")
      /\ \A k : Open(u, k) <=> /\ Many(u, n + 1, "header") = Many(u, n + 1, "end") + 1
                               /\ Heading(u, n + 1) = k
  BY <1>1 DEF RowCount, Headers, Closed, Open
<1> HIDE DEF u, n, h, e, r
<1>10. CASE x.event = "header" /\ Closed(o)
  <2>1. ItemFits(u, G, n + 1)
    BY <1>1, <1>3, <1>4, <1>7, <1>10 DEF ItemFits
  <2> QED BY <1>3, <1>4, <1>5, <1>6, <1>7, <1>8, <1>10, <2>1 DEF u
<1>11. CASE x.event = "end" /\ Open(o, g)
  <2>1. ItemFits(u, G, n + 1)
    BY <1>1, <1>3, <1>4, <1>7, <1>11 DEF ItemFits
  <2> QED BY <1>3, <1>4, <1>5, <1>6, <1>7, <1>8, <1>11, <2>1 DEF u
<1>12. CASE x.event = "line" /\ Open(o, g)
  <2>1. ItemFits(u, G, n + 1)
    BY <1>1, <1>3, <1>4, <1>7, <1>12 DEF ItemFits
  <2> QED BY <1>3, <1>4, <1>5, <1>6, <1>7, <1>8, <1>12, <2>1 DEF u
<1>13. CASE x.event = "row" /\ Open(o, g) /\ r + 1 \in DOMAIN G /\ G[r + 1] = g
  <2>1. ItemFits(u, G, n + 1)
    BY <1>1, <1>3, <1>4, <1>5, <1>7, <1>13 DEF ItemFits
  <2> QED BY <1>3, <1>4, <1>5, <1>6, <1>7, <1>8, <1>13, <2>1 DEF u
<1>14. CASE x.event = "summary" /\ Closed(o)
  <2>1. ItemFits(u, G, n + 1)
    BY <1>1, <1>3, <1>4, <1>7, <1>14 DEF ItemFits
  <2> QED BY <1>3, <1>4, <1>5, <1>6, <1>7, <1>8, <1>14, <2>1 DEF u
<1> QED BY <1>7, <1>10, <1>11, <1>12, <1>13, <1>14 DEF u

LEMMA NoTables ==
  \A G : Tables(<<>>, G) /\ Closed(<<>>) /\ RowCount(<<>>) = 0 /\ Headers(<<>>) = 0
<1>1. \A kind : At(<<>>, 0, kind) = {}
  BY DEF At
<1>2. \A kind : Many(<<>>, 0, kind) = 0
  BY <1>1, FS_EmptySet DEF Many
<1>3. Len(<<>>) = 0 /\ 1..0 = {}
  OBVIOUS
<1> QED BY <1>2, <1>3 DEF Tables, Closed, RowCount, Headers

\* The headings of the rows that are compared.
Groups == [k \in DOMAIN loaded.baseline |-> GroupOf(loaded.baseline[k])]
Begun(G, n) == {G[k] : k \in 1..n}

TableInv ==
    /\ Tables(output, Groups)
    /\ pc = "print" => /\ RowCount(output) = Len(rows)
                       /\ Headers(output) = Cardinality(Begun(Groups, Len(rows)))
                       /\ rows = <<>> => output = <<>>
                       /\ rows # <<>> => Open(output, Groups[Len(rows)])
    /\ pc = "export" => /\ Closed(output)
                        /\ Headers(output) = Cardinality(Begun(Groups, Len(rows)))

LEMMA BegunGrows ==
  ASSUME NEW G, NEW n \in Nat
  PROVE  /\ IsFiniteSet(Begun(G, n)) /\ Cardinality(Begun(G, n)) \in Nat
         /\ Begun(G, n + 1) = Begun(G, n) \cup {G[n + 1]}
         /\ Cardinality(Begun(G, n + 1)) = IF G[n + 1] \in Begun(G, n) THEN Cardinality(Begun(G, n))
                                           ELSE Cardinality(Begun(G, n)) + 1
<1>1. IsFiniteSet(1..n)
  BY FS_Interval
<1>2. IsFiniteSet(Begun(G, n))
  <2> DEFINE f == [k \in 1..n |-> G[k]]
  <2>1. Begun(G, n) = {f[k] : k \in 1..n}
    BY DEF Begun
  <2>2. f \in Surjection(1..n, Begun(G, n))
    BY <2>1 DEF Surjection
  <2> HIDE DEF f
  <2> QED BY <1>1, <2>2, FS_Surjection
<1>3. Begun(G, n + 1) = Begun(G, n) \cup {G[n + 1]}
  <2>1. 1..(n + 1) = (1..n) \cup {n + 1}
    OBVIOUS
  <2> QED BY <2>1 DEF Begun
<1>4. Cardinality(Begun(G, n + 1)) = IF G[n + 1] \in Begun(G, n) THEN Cardinality(Begun(G, n))
                                     ELSE Cardinality(Begun(G, n)) + 1
  BY <1>2, <1>3, FS_AddElement
<1> QED BY <1>2, <1>3, <1>4, FS_CardinalityType

\* A heading that has had rows is the one of the last row.
LEMMA HeadingsFollow ==
  ASSUME OrderlySnapshots, RunInv, pc = "print", Len(rows) < Len(loaded.baseline),
         Groups[Len(rows) + 1] \in Begun(Groups, Len(rows))
  PROVE  rows # <<>> /\ Groups[Len(rows)] = Groups[Len(rows) + 1]
<1> DEFINE n == Len(rows)  base == Contents(files.baseline)  b == loaded.baseline
<1>1. /\ base \in Seq(Entries) /\ base # Missing /\ b = Filtered(base) /\ b \in Seq(Entries)
      /\ rows \in Seq(RowItems) /\ n \in Nat /\ Len(b) \in Nat
  BY LoadedType DEF RunInv, Comparison
<1>2. /\ DOMAIN b = 1..Len(b) /\ DOMAIN Groups = 1..Len(b)
      /\ \A k \in 1..Len(b) : Groups[k] = GroupIn(tool, b[k])
  BY <1>1 DEF Groups, GroupOf
<1>3. Orderly(tool, base)
  BY <1>1, ContentsOrderly DEF RunInv
<1>4. PICK f \in [DOMAIN b -> DOMAIN base] :
         /\ \A i, j \in DOMAIN b : i < j => f[i] < f[j]
         /\ \A i \in DOMAIN b : b[i] = base[f[i]]
  <2> HIDE DEF base, b
  <2>1. \E f \in [DOMAIN Filtered(base) -> DOMAIN base] :
            /\ \A i, j \in DOMAIN Filtered(base) : i < j => f[i] < f[j]
            /\ \A i \in DOMAIN Filtered(base) : Filtered(base)[i] = base[f[i]]
    BY <1>1, FilteredBy
  <2> QED BY <1>1, <2>1
<1>5. PICK k \in 1..n : Groups[k] = Groups[n + 1]
  BY DEF Begun
<1>6. n \in 1..Len(b) /\ n + 1 \in 1..Len(b) /\ k \in 1..Len(b)
  BY <1>1, <1>5
<1>7. rows # <<>>
  BY <1>1, <1>5
<1> HIDE DEF n, b, base
<1>8. CASE k = n
  BY <1>5, <1>7, <1>8 DEF n
<1>9. CASE k < n
  <2>1. f[k] < f[n] /\ f[n] < f[n + 1]
    <3>1. k \in DOMAIN b /\ n \in DOMAIN b /\ n + 1 \in DOMAIN b /\ n < n + 1
      BY <1>1, <1>2, <1>6
    <3> QED BY <1>4, <1>9, <3>1
  <2>2. GroupIn(tool, base[f[k]]) = GroupIn(tool, base[f[n + 1]])
    BY <1>2, <1>4, <1>5, <1>6
  <2>3. f[k] \in DOMAIN base /\ f[n] \in DOMAIN base /\ f[n + 1] \in DOMAIN base
    BY <1>2, <1>4, <1>6
  <2>4. GroupIn(tool, base[f[n]]) = GroupIn(tool, base[f[k]])
    BY <1>3, <2>1, <2>2, <2>3 DEF Orderly
  <2>5. Groups[n] = Groups[k]
    <3>1. Groups[n] = GroupIn(tool, b[n]) /\ Groups[k] = GroupIn(tool, b[k])
      BY <1>2, <1>6
    <3>2. b[n] = base[f[n]] /\ b[k] = base[f[k]]
      BY <1>2, <1>4, <1>6
    <3> QED BY <2>4, <3>1, <3>2
  <2> QED BY <1>5, <1>7, <2>5 DEF n
<1>10. k = n \/ k < n
  BY <1>1, <1>5
<1> QED BY <1>8, <1>9, <1>10

LEMMA TablePrintRow ==
  ASSUME OrderlySnapshots, RunInv, TableInv, PrintRow
  PROVE  TableInv'
<1> DEFINE n == Len(rows)  entry == loaded.baseline[n + 1]  G == Groups
           h == Header(entry)  r == Row(entry)
<1>1. /\ pc = "print" /\ n < Len(loaded.baseline) /\ rows' = Append(rows, r)
      /\ output' = output \o Lead(entry) \o <<r>>
      /\ UNCHANGED <<tool, pc, loaded>>
  BY DEF PrintRow
<1>2. /\ loaded.baseline \in Seq(Entries) /\ loaded.current \in Seq(Entries)
      /\ n \in Nat /\ Len(loaded.baseline) \in Nat /\ rows \in Seq(RowItems) /\ output \in Seq(Items)
  BY <1>1, LoadedType DEF RunInv
<1>3. entry \in Entries
  BY <1>1, <1>2, ElementOfSeq
<1>4. /\ r \in RowItems /\ r \in Items /\ r.event = "row"
      /\ h \in Items /\ h.event = "header" /\ h.group = GroupOf(entry)
      /\ Line \in Items /\ Line.event = "line" /\ End \in Items /\ End.event = "end"
  BY <1>2, <1>3, RowType, ItemTypes
<1>5. /\ n + 1 \in DOMAIN G /\ G[n + 1] = GroupOf(entry)
      /\ rows # <<>> => n \in 1..n /\ G[n] = GroupOf(loaded.baseline[n])
  BY <1>1, <1>2 DEF Groups
<1>6. Len(rows') = n + 1 /\ rows' # <<>>
  BY <1>1, <1>2, <1>4
<1>7. Groups' = G
  BY <1>1 DEF Groups, GroupOf
<1>8. /\ Tables(output, G) /\ RowCount(output) = n /\ Headers(output) = Cardinality(Begun(G, n))
      /\ rows = <<>> => output = <<>>
      /\ rows # <<>> => Open(output, G[n])
  BY <1>1 DEF TableInv
<1>9. /\ Cardinality(Begun(G, n)) \in Nat
      /\ Cardinality(Begun(G, n + 1)) = IF G[n + 1] \in Begun(G, n) THEN Cardinality(Begun(G, n))
                                        ELSE Cardinality(Begun(G, n)) + 1
  BY <1>2, BegunGrows
<1>10. \A a, b \in Items :
          /\ output \o <<>> \o <<r>> = Append(output, r)
          /\ output \o <<a>> \o <<r>> = Append(Append(output, a), r)
          /\ output \o <<a, b>> \o <<r>> = Append(Append(Append(output, a), b), r)
  BY <1>2, <1>4, Appended
<1>11. G[n + 1] \in Begun(G, n) => rows # <<>> /\ G[n] = G[n + 1]
  BY <1>1, HeadingsFollow
<1> DEFINE Done(o) == /\ o \in Seq(Items) /\ Tables(o, G) /\ Open(o, G[n + 1])
                      /\ RowCount(o) = n + 1 /\ Headers(o) = Cardinality(Begun(G, n + 1))
           Ready(o) == /\ o \in Seq(Items) /\ Tables(o, G) /\ Open(o, G[n + 1])
                       /\ RowCount(o) = n /\ Headers(o) = Cardinality(Begun(G, n + 1))
<1> HIDE DEF entry, h, r, G, n
<1>12. ASSUME NEW o, Ready(o) PROVE Done(Append(o, r))
  <2>1. Append(o, r) \in Seq(Items)
    BY <1>4, <1>12, AppendProperties
  <2> QED BY <1>4, <1>5, <1>12, <2>1, AppendItem
\* A new table, on what is closed.
<1>13. ASSUME NEW o \in Seq(Items), Tables(o, G), Closed(o), RowCount(o) = n,
              Headers(o) = Cardinality(Begun(G, n)), G[n + 1] \notin Begun(G, n)
       PROVE  Ready(Append(o, h))
  <2>1. Append(o, h) \in Seq(Items)
    BY <1>4, <1>13, AppendProperties
  <2>2. /\ Tables(Append(o, h), G) /\ Open(Append(o, h), h.group)
        /\ RowCount(Append(o, h)) = RowCount(o) /\ Headers(Append(o, h)) = Headers(o) + 1
    BY <1>4, <1>13, AppendItem
  <2>3. h.group = G[n + 1] /\ Headers(o) + 1 = Cardinality(Begun(G, n + 1))
    BY <1>4, <1>5, <1>9, <1>13
  <2> QED BY <1>13, <2>1, <2>2, <2>3
<1>14. Done(output')
  <2>1. CASE rows = <<>>
    <3>1. Lead(entry) = <<h>>
      BY <2>1, LeadBy DEF h
    <3>2. output' = Append(Append(output, h), r)
      BY <1>1, <1>4, <1>10, <3>1
    <3>3. Closed(output)
      BY <1>8, <2>1, NoTables
    <3>4. Ready(Append(output, h))
      BY <1>2, <1>8, <1>11, <1>13, <2>1, <3>3
    <3> QED BY <1>12, <3>2, <3>4
  <2>2. CASE rows # <<>> /\ G[n] # G[n + 1]
    <3>1. Lead(entry) = <<End, h>>
      BY <1>5, <2>2, LeadBy DEF h, n
    <3>2. output' = Append(Append(Append(output, End), h), r)
      BY <1>1, <1>4, <1>10, <3>1
    <3>3. /\ Append(output, End) \in Seq(Items) /\ Tables(Append(output, End), G)
          /\ Closed(Append(output, End)) /\ RowCount(Append(output, End)) = n
          /\ Headers(Append(output, End)) = Cardinality(Begun(G, n))
      <4>1. Append(output, End) \in Seq(Items)
        BY <1>2, <1>4, AppendProperties
      <4> QED BY <1>2, <1>4, <1>8, <2>2, <4>1, AppendItem
    <3>4. Ready(Append(Append(output, End), h))
      BY <1>11, <1>13, <2>2, <3>3
    <3> QED BY <1>12, <3>2, <3>4
  <2>3. CASE rows # <<>> /\ G[n] = G[n + 1]
    <3>1. Lead(entry) \in {<<Line>>, <<>>}
      BY <1>5, <2>3, LeadBy DEF n
    <3>2. output' \in {Append(output, r), Append(Append(output, Line), r)}
      BY <1>1, <1>4, <1>10, <3>1
    <3>3. G[n + 1] \in Begun(G, n)
      BY <1>5, <2>3 DEF Begun
    <3>4. Ready(output)
      BY <1>2, <1>8, <1>9, <2>3, <3>3
    <3>5. Ready(Append(output, Line))
      <4>1. Append(output, Line) \in Seq(Items)
        BY <1>2, <1>4, AppendProperties
      <4> QED BY <1>4, <3>4, <4>1, AppendItem
    <3> QED BY <1>12, <3>2, <3>4, <3>5
  <2> QED BY <2>1, <2>2, <2>3
<1>15. /\ Tables(output', Groups') /\ RowCount(output') = Len(rows')
       /\ Headers(output') = Cardinality(Begun(Groups', Len(rows')))
       /\ Open(output', Groups'[Len(rows')])
  <2>1. /\ Tables(output', G) /\ RowCount(output') = n + 1
        /\ Headers(output') = Cardinality(Begun(G, n + 1)) /\ Open(output', G[n + 1])
    BY <1>14
  <2> HIDE DEF Done, Ready
  <2> QED BY <1>6, <1>7, <2>1
<1> QED BY <1>1, <1>6, <1>15 DEF TableInv, Tables, ItemFits, Heading, Open, Headers, RowCount,
                                 Many, At, Begun, LastIn

LEMMA TablePrintEnd ==
  ASSUME RunInv, TableInv, PrintEnd
  PROVE  TableInv'
<1> DEFINE G == Groups
<1>1. /\ pc = "print" /\ pc' = "export" /\ UNCHANGED <<tool, loaded, rows>>
      /\ output' = IF rows = <<>> THEN output ELSE output \o <<End, Summary>>
  BY DEF PrintEnd
<1>2. output \in Seq(Items) /\ rows \in Seq(RowItems)
  BY DEF RunInv
<1>3. /\ Tables(output, G) /\ Headers(output) = Cardinality(Begun(G, Len(rows)))
      /\ rows = <<>> => output = <<>>
      /\ rows # <<>> => Open(output, G[Len(rows)])
  BY <1>1 DEF TableInv
<1>4. Groups' = G
  BY <1>1 DEF Groups, GroupOf
<1> HIDE DEF G
<1>5. /\ Tables(output', G) /\ Closed(output') /\ Headers(output') = Headers(output)
  <2>1. CASE rows = <<>>
    BY <1>1, <1>3, <2>1, NoTables
  <2>2. CASE rows # <<>>
    <3>1. /\ End \in Items /\ End.event = "end"
          /\ Summary \in Items /\ Summary.event = "summary"
      BY <1>2, SummaryType, ItemTypes
    <3> DEFINE u == Append(output, End)
    <3>2. u \in Seq(Items) /\ Tables(u, G) /\ Closed(u) /\ Headers(u) = Headers(output)
      <4>1. u \in Seq(Items)
        BY <1>2, <3>1, AppendProperties
      <4> QED BY <1>2, <1>3, <2>2, <3>1, <4>1, AppendItem
    <3>3. output' = Append(u, Summary)
      BY <1>1, <1>2, <2>2, <3>1, Appended
    <3> HIDE DEF u
    <3> QED BY <3>1, <3>2, <3>3, AppendItem
  <2> QED BY <2>1, <2>2
<1>6. /\ Tables(output', Groups') /\ Closed(output')
      /\ Headers(output') = Cardinality(Begun(Groups', Len(rows')))
  BY <1>1, <1>3, <1>4, <1>5
<1> QED BY <1>1, <1>6 DEF TableInv, Tables, ItemFits, Heading, Closed, Headers, RowCount,
                          Many, At, Begun, LastIn

LEMMA TableInit == Init => TableInv
BY NoTables DEF Init, TableInv

LEMMA TableStep ==
  ASSUME OrderlySnapshots, RunInv, TableInv, [Next]_vars
  PROVE  TableInv'
<1>1. ASSUME UNCHANGED <<tool, loaded, output>> PROVE Tables(output, Groups)'
  <2>1. Groups' = Groups
    BY <1>1 DEF Groups, GroupOf
  <2>2. Tables(output', Groups')
    BY <1>1, <2>1 DEF TableInv
  <2> QED BY <2>2 DEF Tables, ItemFits, Heading, Many, At, LastIn
<1>2. ASSUME output' = <<>>
      PROVE  /\ Tables(output, Groups)' /\ RowCount(output)' = 0 /\ Headers(output)' = 0
  <2>1. /\ Tables(output', Groups') /\ RowCount(output') = 0 /\ Headers(output') = 0
    BY <1>2, NoTables
  <2> QED BY <2>1 DEF Tables, ItemFits, Heading, Many, At, LastIn, RowCount, Headers
<1>3. CASE UNCHANGED vars
  <2>1. UNCHANGED <<tool, loaded, output, pc, rows>>
    BY <1>3 DEF vars, runVars
  <2>2. /\ RowCount(output)' = RowCount(output) /\ Headers(output)' = Headers(output)
        /\ Closed(output)' = Closed(output) /\ Groups' = Groups
    BY <2>1 DEF RowCount, Headers, Closed, Many, At, Groups, GroupOf
  <2>3. /\ Begun(Groups, Len(rows))' = Begun(Groups, Len(rows))
        /\ Open(output, Groups[Len(rows)])' = Open(output, Groups[Len(rows)])
    BY <2>1, <2>2 DEF Begun, Open, Headers, Heading, Many, At, LastIn
  <2> QED BY <1>1, <2>1, <2>2, <2>3 DEF TableInv
<1>4. CASE Start
  BY <1>2, <1>4 DEF Start, TableInv
<1>5. CASE Fail
  BY <1>1, <1>5 DEF Fail, TableInv
<1>6. CASE printUsage \/ printList \/ printMethods
  BY <1>1, <1>5, <1>6 DEF printUsage, printList, printMethods, Answer, TableInv
<1>7. CASE Select \/ Resolve
  BY <1>1, <1>5, <1>7 DEF Select, Resolve, TableInv
<1>8. CASE Load
  <2>1. CASE ~Fail
    <3>1. pc = "load" /\ pc' = "filter" /\ output' = output
      BY <1>8, <2>1 DEF Load
    <3>2. output' = <<>>
      BY <3>1 DEF RunInv
    <3> QED BY <1>2, <3>1, <3>2 DEF TableInv
  <2> QED BY <1>5, <2>1
<1>9. CASE Filter
  <2>1. CASE ~Fail
    <3>1. /\ pc = "filter" /\ pc' = "print" /\ output' = output /\ rows' = rows
      BY <1>9, <2>1 DEF Filter
    <3>2. output' = <<>> /\ rows' = <<>> /\ Len(rows') = 0
      BY <3>1 DEF RunInv
    <3>3. Begun(Groups, Len(rows))' = {}
      BY <3>2 DEF Begun
    <3>4. Cardinality(Begun(Groups, Len(rows)))' = 0
      BY <3>3, FS_EmptySet
    <3> QED BY <1>2, <3>1, <3>2, <3>4 DEF TableInv
  <2> QED BY <1>5, <2>1
<1>10. CASE Export
  BY <1>1, <1>10 DEF Export, TableInv
<1> QED BY <1>3, <1>4, <1>6, <1>7, <1>8, <1>9, <1>10, TablePrintRow, TablePrintEnd
    DEF Next, CustomMain, GoogleMain, Run, Finished

LEMMA TablesShown ==
  ASSUME RunInv, TableInv
  PROVE  TablesWellFormed
<1> DEFINE b == loaded.baseline
<1>1. Len(output) \in Nat /\ DOMAIN output = 1..Len(output)
  BY DEF RunInv
<1>2. ASSUME NEW i \in DOMAIN output
      PROVE  /\ Many(output, i, "header") - Many(output, i, "end") \in {0, 1}
             /\ output[i].event \in {"row", "line"} =>
                   Many(output, i, "header") = Many(output, i, "end") + 1
             /\ output[i].event = "row" =>
                   Heading(output, i) = GroupOf(b[Many(output, i, "row")])
  <2>1. ItemFits(output, Groups, i)
    BY <1>1 DEF TableInv, Tables
  <2>2. \A k \in DOMAIN Groups : Groups[k] = GroupOf(b[k])
    BY DEF Groups
  <2> QED BY <2>1, <2>2 DEF ItemFits
<1>3. ASSUME pc = "export"
      PROVE  /\ Many(output, Len(output), "header") = Many(output, Len(output), "end")
             /\ Many(output, Len(output), "header") = Cardinality({GroupOf(b[i]) : i \in DOMAIN rows})
  <2>1. /\ b \in Seq(Entries) /\ rows \in Seq(RowItems) /\ Len(rows) = Len(b)
    BY <1>3, LoadedType DEF RunInv
  <2>2. DOMAIN rows = 1..Len(rows) /\ \A i \in 1..Len(rows) : Groups[i] = GroupOf(b[i])
    BY <2>1 DEF Groups
  <2>3. Begun(Groups, Len(rows)) = {GroupOf(b[i]) : i \in DOMAIN rows}
    BY <2>2 DEF Begun
  <2> QED BY <1>3, <2>3 DEF TableInv, Closed, Headers
<1> QED BY <1>2, <1>3 DEF TablesWellFormed, Compared, Many, At, Heading, LastIn

\* Of snapshots as the benchmarks leave them: every comparison that is printed is the
\* one that was asked for, each row beside the very benchmark of the current run, each
\* heading over one table of its rows, the summary counting all of them.
THEOREM ComparisonHolds ==
  ASSUME OrderlySnapshots
  PROVE  Spec => []ComparisonShown
<1>1. Init => RunInv /\ TableInv
  BY RunInit, TableInit
<1>2. RunInv /\ TableInv /\ [Next]_vars => RunInv' /\ TableInv'
  BY RunStep, TableStep
<1>3. RunInv /\ TableInv => ComparisonShown
  BY LikeWithLike, TablesShown DEF ComparisonShown
<1> QED BY <1>1, <1>2, <1>3, PTL DEF Spec

=============================================================================
