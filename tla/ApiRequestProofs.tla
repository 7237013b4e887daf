-------------------------- MODULE ApiRequestProofs --------------------------
(***************************************************************************)
(* Proofs about ApiRequest, for any targets, resources, directories, API   *)
(* descriptions, collections, page sizes, limits and numbers of retries.   *)
(***************************************************************************)
EXTENDS ApiRequest, TLAPS, WellFoundedInduction, FiniteSetTheorems, SequenceTheorems

\* An outcome is there when the command has exited; what came before the request
\* has left no trace; who did what, and how often.
SentInv ==
    /\ exit # Running <=> pc = "exited"
    /\ exit = Running => shown = "nothing"
    /\ pc \in {"target", "resolve", "build", "gate"} => acted = 0 /\ ~handled /\ ~lost
    /\ pc \in {"first", "page", "show"} /\ Mutation => ~opts.dryRun
    /\ pc \in {"page", "show"} /\ Mutation => handled
    /\ pc = "page" => opts.all /\ opts.answer = "list" /\ next # NoPage
    /\ acted > 0 => lost \/ (acted = 1 /\ handled)
    /\ acted <= attempt + (IF handled THEN 1 ELSE 0)
    /\ ActsAsAsked

\* The records on the pages before the n-th.
Skipped(n) == (n - 1) * PageSize

\* What --all owes when it is done, whatever it has displayed by then; `known` is
\* the collection when the first page was sent.
Complete(known) ==
    /\ ~inserted /\ ~removed => combined = Take(known, MaxPaginateRecords)
    /\ ~removed /\ Len(combined) < MaxPaginateRecords => Range(known) \subseteq Range(combined)
    /\ ~inserted => IsInjective(combined)

\* Between two pages: the records up to `received` have come, those behind have not,
\* as far as nobody has changed the collection.
Between(received, known) ==
    /\ ~inserted /\ ~removed =>
          /\ collection = known /\ Len(combined) = received /\ received <= Len(known)
          /\ \A i \in 1..received : combined[i] = known[i]
    /\ ~removed =>
          /\ Range(known) \subseteq Range(collection)
          /\ \A i \in DOMAIN collection :
                i <= received /\ collection[i] \in Range(known) => collection[i] \in Range(combined)
    /\ ~inserted =>
          /\ IsInjective(combined)
          /\ \A i \in DOMAIN collection : i > received => collection[i] \notin Range(combined)

PageInv ==
    /\ pc \notin {"page", "show", "exited"} => combined = <<>> /\ ~inserted /\ ~removed
    /\ pc = "page" => Len(combined) < MaxPaginateRecords /\ Between(Skipped(next), met)
    /\ pc = "show" /\ opts.answer = "list" /\ opts.all => Complete(met)
    /\ AllIsComplete

\* The values of the placeholders are what was named, but for those that have been
\* looked up.
Looked ==
    /\ DOMAIN params = DOMAIN AutoFill(target) /\ pending \subseteq Lookups(target)
    /\ \A p \in DOMAIN params :
          IF p \in Lookups(target) \ pending
          THEN /\ params[p] = IDOf(LookupOrg(target), Before(target.path, p), AutoFill(target)[p])
               /\ params[p] # None
          ELSE params[p] = AutoFill(target)[p]

TargetInv ==
    /\ pc = "resolve" => target.verb = "api" /\ Looked
    /\ pc \in {"build", "gate"} =>
          /\ path \in Seq(Range(path)) /\ PathIsResolved
          /\ target.verb = "api" =>
                \/ path = target.path
                \/ Looked /\ pending = {} /\ path = Substitute(target.path, params)
    /\ pc = "gate" => body \in Bodies(target, path)

-----------------------------------------------------------------------------
(* Exit codes, and sequences.                                              *)

\* Every nonempty set of natural numbers has a least element.
LEMMA Least ==
    ASSUME NEW T \in SUBSET Nat, T # {}
    PROVE  Min(T) \in T /\ \A n \in T : Min(T) <= n
<1> DEFINE R == OpToRel(<, Nat)
<1>1. IsWellFoundedOn(R, Nat)
  BY NatLessThanWellFounded
<1>2. \E m \in T : \A n \in T : <<n, m>> \notin R
  <2> HIDE DEF R
  <2> QED
    BY <1>1, WFMin
<1>3. \A m, n \in T : <<n, m>> \notin R => m <= n
  BY DEF OpToRel
<1> QED
  BY <1>2, <1>3 DEF Min

LEMMA Smaller ==
    ASSUME NEW a \in Nat, NEW b \in Nat
    PROVE  Min({a, b}) = IF a < b THEN a ELSE b
<1>1. Min({a, b}) \in {a, b} /\ \A n \in {a, b} : Min({a, b}) <= n
  BY Least
<1> QED
  BY <1>1

\* The codes of the errors that occur here: none of them is 0.
LEMMA Codes ==
    ASSUME NEW err, {"help", "underlying"} \cap err = {}
    PROVE  ErrorToExitCode(err) \in {1, 2, 3, 4, 5, 130}
<1> DEFINE known == {i \in DOMAIN ExitCodeOf : ExitCodeOf[i][1] \in err}
           first == CHOOSE i \in known : \A j \in known : i <= j
<1>1. CASE known = {}
  BY <1>1 DEF ErrorToExitCode
<1>2. CASE known # {}
  <2>1. DOMAIN ExitCodeOf = 1..10
    BY DEF ExitCodeOf
  <2>2. first \in known
    <3>1. known \in SUBSET Nat
      BY <2>1
    <3>2. \E i \in known : \A j \in known : i <= j
      BY <1>2, <3>1, Least
    <3> QED
      BY <3>2
  <2>3. ErrorToExitCode(err) = ExitCodeOf[first][2]
    BY <1>2 DEF ErrorToExitCode
  <2>4. \A i \in 1..10 : \/ ExitCodeOf[i][1] \in {"help", "underlying"}
                         \/ ExitCodeOf[i][2] \in {1, 2, 3, 4, 5, 130}
    <3>1. \A i \in 1..10 : i \in {1, 2, 3, 4, 5, 6, 7, 8, 9, 10}
      OBVIOUS
    <3>2. ExitCodeOf[1][1] = "help" /\ ExitCodeOf[3][1] = "underlying"
      BY DEF ExitCodeOf
    <3>3. /\ ExitCodeOf[2][2] = 1 /\ ExitCodeOf[4][2] = 2
          /\ ExitCodeOf[5][2] = 3 /\ ExitCodeOf[6][2] = 4
      BY DEF ExitCodeOf
    <3>4. /\ ExitCodeOf[7][2] = 5 /\ ExitCodeOf[8][2] = 1
          /\ ExitCodeOf[9][2] = 1 /\ ExitCodeOf[10][2] = 130
      BY DEF ExitCodeOf
    <3> QED
      BY <3>1, <3>2, <3>3, <3>4
  <2> HIDE DEF first
  <2> QED
    BY <2>1, <2>2, <2>3, <2>4
<1> QED
  BY <1>1, <1>2

\* The first n of a sequence.
LEMMA TakeProperties ==
    ASSUME NEW S, NEW s \in Seq(S), NEW n \in Nat
    PROVE  /\ Take(s, n) \in Seq(S)
           /\ Len(Take(s, n)) = IF n < Len(s) THEN n ELSE Len(s)
           /\ \A i \in 1..Len(Take(s, n)) : Take(s, n)[i] = s[i]
<1> DEFINE m == IF n < Len(s) THEN n ELSE Len(s)
<1>1. Len(s) \in Nat /\ m \in 0..Len(s) /\ Take(s, n) = SubSeq(s, 1, m)
  BY Smaller, LenProperties DEF Take
<1>2. \A i \in 1..m : s[i] \in S
  BY <1>1, ElementOfSeq
<1> HIDE DEF m
<1>3. /\ SubSeq(s, 1, m) \in Seq(S)
      /\ Len(SubSeq(s, 1, m)) = IF 1 <= m THEN m - 1 + 1 ELSE 0
      /\ \A i \in 1..(m - 1 + 1) : SubSeq(s, 1, m)[i] = s[1 + i - 1]
  <2>1. m \in Int /\ 1 \in Int
    BY <1>1
  <2> QED
    BY <1>2, <2>1, SubSeqProperties
<1>4. /\ m - 1 + 1 = m /\ \A i \in 1..m : 1 + i - 1 = i
      /\ (IF 1 <= m THEN m - 1 + 1 ELSE 0) = m
  BY <1>1
<1>5. Len(Take(s, n)) = m /\ \A i \in 1..m : Take(s, n)[i] = s[i]
  BY <1>1, <1>3, <1>4
<1> QED
  BY <1>1, <1>3, <1>5 DEF m
-----------------------------------------------------------------------------
(* The pages.                                                              *)

\* A page has the records behind those that were skipped, as far as there are any.
LEMMA PageProperties ==
    ASSUME collection \in Seq(Records), NEW n \in Nat \ {0}
    PROVE  /\ Skipped(n) \in Nat /\ n * PageSize = Skipped(n) + PageSize
           /\ Page(n) \in Seq(Records)
           /\ Len(Page(n)) = IF Skipped(n) + PageSize <= Len(collection) THEN PageSize
                             ELSE IF Skipped(n) <= Len(collection)
                             THEN Len(collection) - Skipped(n) ELSE 0
           /\ \A i \in 1..Len(Page(n)) : Page(n)[i] = collection[Skipped(n) + i]
<1> DEFINE before == Skipped(n)
           last   == n * PageSize
           upTo   == IF last < Len(collection) THEN last ELSE Len(collection)
           size   == IF before <= upTo THEN upTo - before ELSE 0
<1>1. /\ before \in Nat /\ last = before + PageSize /\ last \in Nat
      /\ PageSize \in Nat /\ Len(collection) \in Nat
  BY ConstantsAssumption, LenProperties DEF Skipped
<1>2. Page(n) = SubSeq(collection, before + 1, upTo)
  BY <1>1, Smaller DEF Page, Skipped
<1> HIDE DEF before, last
<1>3. upTo \in Nat /\ upTo <= Len(collection) /\ size \in Nat
  BY <1>1
<1>4. \A i \in (before + 1)..upTo : collection[i] \in Records
  BY <1>1, <1>3, ElementOfSeq
<1>5. before + 1 \in Int /\ upTo \in Int
  BY <1>1, <1>3
<1>6. /\ (IF before + 1 <= upTo THEN upTo - (before + 1) + 1 ELSE 0) = size
      /\ \A i \in 1..size : i \in 1..(upTo - (before + 1) + 1) /\ (before + 1) + i - 1 = before + i
      /\ size = IF before + PageSize <= Len(collection) THEN PageSize
                ELSE IF before <= Len(collection) THEN Len(collection) - before ELSE 0
  BY <1>1, <1>3
<1> HIDE DEF upTo, size
<1>7. /\ SubSeq(collection, before + 1, upTo) \in Seq(Records)
      /\ Len(SubSeq(collection, before + 1, upTo)) =
           IF before + 1 <= upTo THEN upTo - (before + 1) + 1 ELSE 0
      /\ \A i \in 1..(upTo - (before + 1) + 1) :
           SubSeq(collection, before + 1, upTo)[i] = collection[(before + 1) + i - 1]
  BY <1>4, <1>5, SubSeqProperties
<1>8. /\ Page(n) \in Seq(Records) /\ Len(Page(n)) = size
      /\ \A i \in 1..size : Page(n)[i] = collection[before + i]
  BY <1>2, <1>6, <1>7
<1>9. /\ before \in Nat /\ last = before + PageSize
      /\ Page(n) \in Seq(Records)
      /\ Len(Page(n)) = IF before + PageSize <= Len(collection) THEN PageSize
                        ELSE IF before <= Len(collection) THEN Len(collection) - before ELSE 0
      /\ \A i \in 1..Len(Page(n)) : Page(n)[i] = collection[before + i]
  BY <1>1, <1>6, <1>8
<1> QED
  BY <1>9 DEF before, last

\* An answer is appended to what has been received, up to the limit.
LEMMA Received ==
    ASSUME combined \in Seq(Records), collection \in Seq(Records), NEW n \in Nat \ {0},
           Len(combined) <= MaxPaginateRecords, Receive(n)
    PROVE  /\ combined' \in Seq(Records)
           /\ Len(combined') = IF Len(combined) + Len(Page(n)) < MaxPaginateRecords
                               THEN Len(combined) + Len(Page(n)) ELSE MaxPaginateRecords
           /\ \A i \in 1..Len(combined') :
                /\ i <= Len(combined) => combined'[i] = combined[i]
                /\ i > Len(combined) =>
                     combined'[i] = collection[Skipped(n) + (i - Len(combined))]
<1> DEFINE size == Len(Page(n))
           old  == Len(combined)
<1>1. /\ Page(n) \in Seq(Records) /\ size \in Nat /\ old \in Nat
      /\ MaxPaginateRecords \in Nat
      /\ \A i \in 1..size : Page(n)[i] = collection[Skipped(n) + i]
  BY ConstantsAssumption, PageProperties, LenProperties
<1>2. /\ combined \o Page(n) \in Seq(Records)
      /\ Len(combined \o Page(n)) = old + size
      /\ \A i \in 1..(old + size) :
           (combined \o Page(n))[i] = IF i <= old THEN combined[i] ELSE Page(n)[i - old]
  BY <1>1, ConcatProperties
<1>3. combined' = Take(combined \o Page(n), MaxPaginateRecords)
  BY DEF Receive
<1> DEFINE new == Len(combined')
<1>4. /\ combined' \in Seq(Records)
      /\ new = IF MaxPaginateRecords < old + size THEN MaxPaginateRecords ELSE old + size
      /\ \A i \in 1..new : combined'[i] = (combined \o Page(n))[i]
  BY <1>1, <1>2, <1>3, TakeProperties
<1> HIDE DEF size, old, new
<1>5. new = IF old + size < MaxPaginateRecords THEN old + size ELSE MaxPaginateRecords
  BY <1>1, <1>4
<1>6. ASSUME NEW i \in 1..new
      PROVE  /\ i <= old => combined'[i] = combined[i]
             /\ i > old => combined'[i] = collection[Skipped(n) + (i - old)]
  <2>1. i \in 1..(old + size) /\ (i > old => i - old \in 1..size)
    BY <1>1, <1>4
  <2>2. combined'[i] = IF i <= old THEN combined[i] ELSE Page(n)[i - old]
    BY <1>2, <1>4, <2>1
  <2>3. CASE i <= old
    <3>1. ~(i > old)
      BY <1>1, <2>3
    <3> QED
      BY <2>2, <2>3, <3>1
  <2>4. CASE i > old
    <3>1. ~(i <= old)
      BY <1>1, <2>4
    <3> QED
      BY <1>1, <2>1, <2>2, <2>4, <3>1
  <2> QED
    BY <1>1, <2>3, <2>4
<1>7. /\ combined' \in Seq(Records)
      /\ new = IF old + size < MaxPaginateRecords THEN old + size ELSE MaxPaginateRecords
      /\ \A i \in 1..new : /\ i <= old => combined'[i] = combined[i]
                           /\ i > old => combined'[i] = collection[Skipped(n) + (i - old)]
  BY <1>4, <1>5, <1>6
<1> QED
  BY <1>7 DEF size, old, new

\* What `new` has beyond `old` are the next records of `coll`, at most `size`.
Extends(new, old, coll, before, size) ==
    /\ new \in Seq(Records) /\ old \in Seq(Records) /\ coll \in Seq(Records)
    /\ before \in Nat /\ size \in Nat
    /\ size > 0 => before + size <= Len(coll)
    /\ Len(old) <= Len(new) /\ Len(new) <= Len(old) + size
    /\ \A i \in 1..Len(new) :
         /\ i <= Len(old) => new[i] = old[i]
         /\ i > Len(old) => new[i] = coll[before + (i - Len(old))]

LEMMA PageExtends ==
    ASSUME combined \in Seq(Records), collection \in Seq(Records), NEW n \in Nat \ {0},
           Len(combined) <= MaxPaginateRecords, Receive(n)
    PROVE  Extends(combined', combined, collection, Skipped(n), Len(Page(n)))
<1> DEFINE size == Len(Page(n))
           old  == Len(combined)
           new  == Len(combined')
           before == Skipped(n)
           coll == Len(collection)
<1>1. /\ size \in Nat /\ old \in Nat /\ MaxPaginateRecords \in Nat /\ before \in Nat
      /\ PageSize \in Nat /\ coll \in Nat /\ old <= MaxPaginateRecords
      /\ size = IF before + PageSize <= coll THEN PageSize
                ELSE IF before <= coll THEN coll - before ELSE 0
  BY ConstantsAssumption, PageProperties, LenProperties
<1>2. /\ combined' \in Seq(Records)
      /\ new = IF old + size < MaxPaginateRecords THEN old + size ELSE MaxPaginateRecords
      /\ \A i \in 1..new : /\ i <= old => combined'[i] = combined[i]
                           /\ i > old => combined'[i] = collection[before + (i - old)]
  BY Received
<1> HIDE DEF size, old, new, before, coll
<1>3. new \in Nat /\ old <= new /\ new <= old + size
  <2>1. /\ new = IF old + size < MaxPaginateRecords THEN old + size ELSE MaxPaginateRecords
        /\ old \in Nat /\ size \in Nat /\ MaxPaginateRecords \in Nat /\ old <= MaxPaginateRecords
    BY <1>1, <1>2
  <2> QED
    BY ONLY <2>1
<1>4. size > 0 => before + size <= coll
  BY ONLY <1>1
<1> QED
  BY <1>1, <1>2, <1>3, <1>4 DEF Extends, size, old, new, before, coll

\* Nothing that was received is lost, and all of the page comes, up to the limit.
LEMMA NoneMissed ==
    ASSUME NEW new, NEW old, NEW coll, NEW before, NEW size,
           Extends(new, old, coll, before, size)
    PROVE  /\ Range(old) \subseteq Range(new)
           /\ Len(new) = Len(old) + size =>
                \A i \in DOMAIN coll : i > before /\ i <= before + size => coll[i] \in Range(new)
<1>1. /\ Len(new) \in Nat /\ DOMAIN new = 1..Len(new) /\ Len(old) \in Nat
      /\ DOMAIN old = 1..Len(old) /\ Len(coll) \in Nat /\ DOMAIN coll = 1..Len(coll)
  BY LenProperties DEF Extends
<1>2. ASSUME NEW i \in DOMAIN old
      PROVE  old[i] \in Range(new)
  <2>1. i \in 1..Len(new) /\ i <= Len(old)
    BY <1>1, <1>2 DEF Extends
  <2>2. new[i] = old[i]
    BY <2>1 DEF Extends
  <2> QED
    BY <1>1, <2>1, <2>2 DEF Range
<1>3. ASSUME Len(new) = Len(old) + size, NEW i \in DOMAIN coll, i > before, i <= before + size
      PROVE  coll[i] \in Range(new)
  <2> DEFINE j == Len(old) + (i - before)
  <2>1. j \in 1..Len(new) /\ j > Len(old) /\ before + (j - Len(old)) = i
    BY <1>1, <1>3 DEF Extends
  <2> HIDE DEF j
  <2>2. new[j] = coll[i]
    BY <2>1 DEF Extends
  <2> QED
    BY <1>1, <2>1, <2>2 DEF Range
<1> QED
  BY <1>2, <1>3 DEF Range

\* What has not been received before is not received twice.
LEMMA NoneTwice ==
    ASSUME NEW new, NEW old, NEW coll, NEW before, NEW size,
           Extends(new, old, coll, before, size), IsInjective(coll), IsInjective(old),
           \A i \in DOMAIN coll : i > before => coll[i] \notin Range(old)
    PROVE  /\ IsInjective(new)
           /\ \A i \in DOMAIN coll : i > before + size => coll[i] \notin Range(new)
<1>1. /\ Len(new) \in Nat /\ DOMAIN new = 1..Len(new) /\ Len(old) \in Nat
      /\ DOMAIN old = 1..Len(old) /\ Len(coll) \in Nat /\ DOMAIN coll = 1..Len(coll)
      /\ before \in Nat /\ size \in Nat
  BY LenProperties DEF Extends
<1>2. ASSUME NEW i \in 1..Len(new), i > Len(old)
      PROVE  LET k == before + (i - Len(old))
             IN  /\ new[i] = coll[k] /\ k \in DOMAIN coll /\ k > before /\ k <= before + size
                 /\ new[i] \notin Range(old)
  <2> DEFINE k == before + (i - Len(old))
  <2>1. new[i] = coll[k]
    BY <1>2 DEF Extends
  <2>2. k \in DOMAIN coll /\ k > before /\ k <= before + size
    BY <1>1, <1>2 DEF Extends
  <2> HIDE DEF k
  <2>3. new[i] \notin Range(old)
    BY <2>1, <2>2
  <2> QED
    BY <2>1, <2>2, <2>3 DEF k
<1>3. ASSUME NEW i \in 1..Len(new), i <= Len(old)
      PROVE  i \in DOMAIN old /\ new[i] = old[i] /\ new[i] \in Range(old)
  <2>1. i \in DOMAIN old /\ new[i] = old[i]
    BY <1>1, <1>3 DEF Extends
  <2> QED
    BY <2>1 DEF Range
<1>4. ASSUME NEW i \in 1..Len(new), NEW j \in 1..Len(new), new[i] = new[j]
      PROVE  i = j
  <2>1. CASE i <= Len(old) /\ j <= Len(old)
    BY <1>3, <1>4, <2>1 DEF IsInjective
  <2>2. CASE i > Len(old) /\ j > Len(old)
    <3> DEFINE k == before + (i - Len(old))
               l == before + (j - Len(old))
    <3>1. new[i] = coll[k] /\ new[j] = coll[l] /\ k \in DOMAIN coll /\ l \in DOMAIN coll
      BY <1>2, <2>2
    <3> HIDE DEF k, l
    <3>2. k = l
      BY <1>4, <3>1 DEF IsInjective
    <3> QED
      BY <1>1, <3>2 DEF k, l
  <2>3. CASE i <= Len(old) /\ j > Len(old)
    BY <1>2, <1>3, <1>4, <2>3
  <2>4. CASE i > Len(old) /\ j <= Len(old)
    BY <1>2, <1>3, <1>4, <2>4
  <2> QED
    BY <1>1, <2>1, <2>2, <2>3, <2>4
<1>5. ASSUME NEW i \in DOMAIN coll, i > before + size, coll[i] \in Range(new)
      PROVE  FALSE
  <2>1. PICK j \in 1..Len(new) : new[j] = coll[i]
    BY <1>1, <1>5 DEF Range
  <2>2. CASE j <= Len(old)
    <3>1. coll[i] \in Range(old)
      BY <1>3, <2>1, <2>2
    <3>2. i > before
      BY <1>1, <1>5
    <3> QED
      BY <3>1, <3>2
  <2>3. CASE j > Len(old)
    <3> DEFINE k == before + (j - Len(old))
    <3>1. new[j] = coll[k] /\ k \in DOMAIN coll /\ k <= before + size
      BY <1>2, <2>3
    <3> HIDE DEF k
    <3>2. k = i
      BY <2>1, <3>1 DEF IsInjective
    <3> QED
      BY <1>1, <1>5, <3>1, <3>2
  <2> QED
    BY <1>1, <2>2, <2>3
<1> QED
  BY <1>1, <1>4, <1>5 DEF IsInjective

\* With the next page, either there is another one, or --all has what it owes.
LEMMA MorePages ==
    ASSUME combined \in Seq(Records), collection \in Seq(Records), IsInjective(collection),
           NEW known \in Seq(Records), NEW n \in Nat \ {0},
           Len(combined) <= MaxPaginateRecords, Between(Skipped(n), known),
           Receive(n), UNCHANGED <<collection, inserted, removed>>
    PROVE  IF Len(combined') < MaxPaginateRecords /\ next' # NoPage
           THEN Between(Skipped(next), known)' ELSE Complete(known)'
<1> DEFINE size == Len(Page(n))
           old  == Len(combined)
           new  == Len(combined')
           before == Skipped(n)
           coll == Len(collection)
           behind == before + PageSize
<1>1. /\ size \in Nat /\ old \in Nat /\ MaxPaginateRecords \in Nat /\ before \in Nat
      /\ PageSize \in Nat /\ coll \in Nat /\ old <= MaxPaginateRecords
      /\ size = IF before + PageSize <= coll THEN PageSize
                ELSE IF before <= coll THEN coll - before ELSE 0
      /\ n * PageSize = behind
      /\ DOMAIN collection = 1..coll
  BY ConstantsAssumption, PageProperties, LenProperties
<1>2. /\ combined' \in Seq(Records)
      /\ new = IF old + size < MaxPaginateRecords THEN old + size ELSE MaxPaginateRecords
      /\ \A i \in 1..new : /\ i <= old => combined'[i] = combined[i]
                           /\ i > old => combined'[i] = collection[before + (i - old)]
  BY Received
<1>3. Extends(combined', combined, collection, before, size)
  BY PageExtends
<1>4. next' = IF behind < coll THEN n + 1 ELSE NoPage
  BY <1>1 DEF Receive, NextPage
<1>5. Skipped(n + 1) = behind
  <2>1. (n + 1) - 1 = n
    OBVIOUS
  <2> QED
    BY <1>1, <2>1 DEF Skipped
<1>6. /\ ~inserted /\ ~removed =>
            /\ collection = known /\ old = before /\ before <= Len(known)
            /\ \A i \in 1..before : combined[i] = known[i]
      /\ ~removed =>
            /\ Range(known) \subseteq Range(collection)
            /\ \A i \in DOMAIN collection :
                 i <= before /\ collection[i] \in Range(known) => collection[i] \in Range(combined)
      /\ ~inserted =>
            /\ IsInjective(combined)
            /\ \A i \in DOMAIN collection : i > before => collection[i] \notin Range(combined)
  BY DEF Between
<1> HIDE DEF size, old, new, before, coll, behind
<1>7. behind = before + PageSize /\ size <= PageSize /\ behind \in Nat /\ new \in Nat
  <2>1. behind = before + PageSize
    BY DEF behind
  <2>2. size <= PageSize /\ behind \in Nat
    BY <1>1, <2>1
  <2>3. new = old + size \/ new = MaxPaginateRecords
    BY <1>2
  <2>4. new \in Nat
    BY <1>1, <2>3
  <2> QED
    BY <2>1, <2>2, <2>4
<1>8. ASSUME ~inserted
      PROVE  /\ IsInjective(combined')
             /\ \A i \in DOMAIN collection : i > behind => collection[i] \notin Range(combined')
  <2>1. /\ IsInjective(combined')
        /\ \A i \in DOMAIN collection : i > before + size => collection[i] \notin Range(combined')
    BY <1>3, <1>6, <1>8, NoneTwice
  <2>2. \A i \in DOMAIN collection : i > behind => i > before + size
    BY <1>1, <1>7
  <2> QED
    BY <2>1, <2>2
<1>9. ASSUME ~removed, new < MaxPaginateRecords
      PROVE  \A i \in DOMAIN collection :
                i <= behind /\ collection[i] \in Range(known) => collection[i] \in Range(combined')
  <2>1. new = old + size
    BY <1>1, <1>2, <1>9
  <2>2. /\ Range(combined) \subseteq Range(combined')
        /\ \A i \in DOMAIN collection :
             i > before /\ i <= before + size => collection[i] \in Range(combined')
    BY <1>3, <2>1, NoneMissed DEF new, old
  <2>3. \A i \in DOMAIN collection :
           i <= behind => i <= before \/ (i > before /\ i <= before + size)
    BY <1>1, <1>7
  <2> QED
    BY <1>6, <1>9, <2>2, <2>3
<1>10. ASSUME ~inserted, ~removed
       PROVE  \A i \in 1..new : combined'[i] = known[i]
  <2>1. ASSUME NEW i \in 1..new
        PROVE  combined'[i] = known[i]
    <3>1. CASE i <= old
      BY <1>1, <1>2, <1>6, <1>10, <2>1, <3>1
    <3>2. CASE i > old
      <4>1. before + (i - old) = i
        BY <1>1, <1>6, <1>10, <1>7
      <4> QED
        BY <1>2, <1>6, <1>10, <3>2, <4>1
    <3> QED
      BY <1>1, <1>7, <3>1, <3>2
  <2> QED
    BY <2>1
<1>11. CASE new < MaxPaginateRecords /\ next' # NoPage
  <2>1. behind < coll /\ next' = n + 1
    BY <1>4, <1>11
  <2>2. Skipped(next') = behind
    BY <1>5, <2>1
  <2>3. ASSUME ~inserted, ~removed
        PROVE  collection = known /\ new = behind /\ behind <= Len(known)
    BY <1>1, <1>2, <1>6, <1>7, <1>11, <2>1, <2>3 DEF coll
  <2>4. Between(behind, known)'
    BY <1>6, <1>8, <1>9, <1>10, <1>11, <2>3 DEF Between, new
  <2> QED
    BY <1>11, <2>2, <2>4 DEF Between, new
<1>12. CASE ~(new < MaxPaginateRecords /\ next' # NoPage)
  <2>1. ASSUME ~inserted, ~removed
        PROVE  combined' = Take(known, MaxPaginateRecords)
    <3> DEFINE taken == Take(known, MaxPaginateRecords)
    <3>1. known = collection /\ old = before /\ before <= coll
      BY <1>6, <2>1 DEF coll
    <3>2. /\ taken \in Seq(Records)
          /\ Len(taken) = IF MaxPaginateRecords < coll THEN MaxPaginateRecords ELSE coll
          /\ \A i \in 1..Len(taken) : taken[i] = known[i]
      BY <1>1, <3>1, TakeProperties DEF coll
    <3> HIDE DEF taken
    <3>3. next' = NoPage <=> coll <= behind
      BY <1>1, <1>4, <1>7 DEF NoPage
    <3>4. new = Len(taken)
      BY <1>1, <1>2, <1>7, <1>12, <3>1, <3>2, <3>3
    <3>5. \A i \in 1..new : combined'[i] = taken[i]
      BY <1>10, <2>1, <3>2, <3>4
    <3> QED
      BY <1>2, <3>2, <3>4, <3>5, SeqEqual DEF new, taken
  <2>2. ASSUME ~removed, new < MaxPaginateRecords
        PROVE  Range(known) \subseteq Range(combined')
    <3>1. coll <= behind
      BY <1>1, <1>4, <1>7, <1>12, <2>2 DEF NoPage
    <3>2. \A i \in DOMAIN collection : i <= behind
      BY <1>1, <1>7, <3>1
    <3>3. \A x \in Range(known) : \E i \in DOMAIN collection : x = collection[i]
      BY <1>6, <2>2 DEF Range
    <3> QED
      BY <1>9, <2>2, <3>2, <3>3
  <2>3. Complete(known)'
    BY <1>8, <2>1, <2>2 DEF Complete, new
  <2> QED
    BY <1>12, <2>3 DEF new
<1> QED
  BY <1>11, <1>12 DEF new

\* A record is put before a sequence.
LEMMA InFront ==
    ASSUME NEW s \in Seq(Records), NEW r \in Records
    PROVE  /\ <<r>> \o s \in Seq(Records) /\ Len(<<r>> \o s) = Len(s) + 1
           /\ (<<r>> \o s)[1] = r
           /\ \A i \in 1..Len(s) : (<<r>> \o s)[i + 1] = s[i]
<1>1. <<r>> \in Seq(Records) /\ Len(<<r>>) = 1 /\ <<r>>[1] = r /\ Len(s) \in Nat
  BY LenProperties
<1>2. /\ <<r>> \o s \in Seq(Records) /\ Len(<<r>> \o s) = Len(<<r>>) + Len(s)
      /\ \A i \in 1..(Len(<<r>>) + Len(s)) :
           (<<r>> \o s)[i] = IF i <= Len(<<r>>) THEN <<r>>[i] ELSE s[i - Len(<<r>>)]
  BY <1>1, ConcatProperties
<1>3. Len(<<r>>) + Len(s) = Len(s) + 1
  BY <1>1
<1>4. \A i \in 1..(Len(s) + 1) : (<<r>> \o s)[i] = IF i <= 1 THEN <<r>>[i] ELSE s[i - 1]
  BY <1>1, <1>2, <1>3
<1>5. ASSUME NEW i \in 1..Len(s)
      PROVE  (<<r>> \o s)[i + 1] = s[i]
  <2>1. i + 1 \in 1..(Len(s) + 1) /\ ~(i + 1 <= 1) /\ (i + 1) - 1 = i
    BY <1>1
  <2> QED
    BY <1>4, <2>1
<1>6. (<<r>> \o s)[1] = r
  <2>1. 1 \in 1..(Len(s) + 1) /\ 1 <= 1
    BY <1>1
  <2> QED
    BY <1>1, <1>4, <2>1
<1> QED
  BY <1>2, <1>3, <1>5, <1>6

\* A record is taken out of a sequence.
LEMMA TakenOut ==
    ASSUME NEW s \in Seq(Records), NEW k \in DOMAIN s
    PROVE  /\ RemoveAt(s, k) \in Seq(Records) /\ Len(RemoveAt(s, k)) = Len(s) - 1
           /\ \A i \in 1..(Len(s) - 1) : RemoveAt(s, k)[i] = IF i < k THEN s[i] ELSE s[i + 1]
<1> DEFINE front == SubSeq(s, 1, k - 1)
           back  == SubSeq(s, k + 1, Len(s))
           n     == Len(s)
<1>1. n \in Nat /\ k \in 1..n /\ \A i \in 1..n : s[i] \in Records
  BY LenProperties, ElementOfSeq
<1>2. /\ front \in Seq(Records) /\ Len(front) = k - 1
      /\ \A i \in 1..(k - 1) : front[i] = s[i]
  <2>1. /\ 1 \in Int /\ k - 1 \in Int /\ \A i \in 1..(k - 1) : s[i] \in Records
        /\ (k - 1) - 1 + 1 = k - 1 /\ (IF 1 <= k - 1 THEN (k - 1) - 1 + 1 ELSE 0) = k - 1
        /\ \A i \in 1..(k - 1) : 1 + i - 1 = i
    BY <1>1
  <2>2. /\ front \in Seq(Records) /\ Len(front) = (IF 1 <= k - 1 THEN (k - 1) - 1 + 1 ELSE 0)
        /\ \A i \in 1..((k - 1) - 1 + 1) : front[i] = s[1 + i - 1]
    BY <2>1, SubSeqProperties
  <2> HIDE DEF front
  <2> QED
    BY <2>1, <2>2
<1>3. /\ back \in Seq(Records) /\ Len(back) = n - k
      /\ \A i \in 1..(n - k) : back[i] = s[k + i]
  <2>1. /\ k + 1 \in Int /\ n \in Int /\ \A i \in (k + 1)..n : s[i] \in Records
        /\ n - (k + 1) + 1 = n - k /\ (IF k + 1 <= n THEN n - (k + 1) + 1 ELSE 0) = n - k
        /\ \A i \in 1..(n - k) : (k + 1) + i - 1 = k + i
    BY <1>1
  <2>2. /\ back \in Seq(Records) /\ Len(back) = (IF k + 1 <= n THEN n - (k + 1) + 1 ELSE 0)
        /\ \A i \in 1..(n - (k + 1) + 1) : back[i] = s[(k + 1) + i - 1]
    BY <2>1, SubSeqProperties
  <2> HIDE DEF back, n
  <2> QED
    BY <2>1, <2>2
<1>4. RemoveAt(s, k) = front \o back
  BY DEF RemoveAt
<1> HIDE DEF front, back, n
<1>5. /\ front \o back \in Seq(Records) /\ Len(front \o back) = Len(front) + Len(back)
      /\ \A i \in 1..(Len(front) + Len(back)) :
           (front \o back)[i] = IF i <= Len(front) THEN front[i] ELSE back[i - Len(front)]
  BY <1>2, <1>3, ConcatProperties
<1>6. Len(front) + Len(back) = n - 1
  BY <1>1, <1>2, <1>3
<1>7. ASSUME NEW i \in 1..(n - 1)
      PROVE  (front \o back)[i] = IF i < k THEN s[i] ELSE s[i + 1]
  <2>1. (front \o back)[i] = IF i <= k - 1 THEN front[i] ELSE back[i - (k - 1)]
    BY <1>2, <1>5, <1>6
  <2>2. CASE i < k
    <3>1. i <= k - 1 /\ i \in 1..(k - 1)
      BY <1>1, <2>2
    <3> QED
      BY <1>2, <2>1, <2>2, <3>1
  <2>3. CASE ~(i < k)
    <3>1. ~(i <= k - 1) /\ i - (k - 1) \in 1..(n - k) /\ k + (i - (k - 1)) = i + 1
      BY <1>1, <2>3
    <3>2. back[i - (k - 1)] = s[k + (i - (k - 1))]
      BY <1>3, <3>1
    <3> QED
      BY <2>1, <2>3, <3>1, <3>2
  <2> QED
    BY <2>2, <2>3
<1> QED
  BY <1>4, <1>5, <1>6, <1>7 DEF n

-----------------------------------------------------------------------------
(* Types, and what is done and displayed.                                  *)

LEMMA Started ==
    Init => TypeOK /\ SentInv
<1> SUFFICES ASSUME Init PROVE TypeOK /\ SentInv
  OBVIOUS
<1>1. combined = <<>> /\ met = <<>> /\ <<>> \in Seq(Records) /\ Len(<<>>) = 0
  BY DEF Init
<1>2. collection \in Seq(Records) /\ IsInjective(collection)
  <2>1. IsInjective(<<>>)
    BY DEF IsInjective
  <2> QED
    BY <1>1, <2>1, ConstantsAssumption DEF Init
<1>3. opts \in Options /\ \E c \in Cases : target = c.target /\ opts = c.opts
  BY CasesAssumption DEF Init
<1>4. TypeOK
  <2>1. 0 \in 0..MaxRetries /\ 0 \in 0..(MaxRetries + 1) /\ Len(combined) <= MaxPaginateRecords
    BY <1>1, ConstantsAssumption
  <2>2. /\ pending \subseteq DOMAIN params /\ exit = Running /\ next \in Nat
        /\ attempt = 0 /\ acted = 0 /\ ctx = "live" /\ pc = "target" /\ shown = "nothing"
        /\ handled = FALSE /\ lost = FALSE /\ inserted = FALSE /\ removed = FALSE
    BY DEF Init, NoPage
  <2> QED
    BY <1>1, <1>2, <1>3, <2>1, <2>2 DEF TypeOK
<1>5. SentInv
  BY DEF Init, SentInv, ActsAsAsked, Running
<1> QED
  BY <1>4, <1>5

Failing  == {1, 2, 3, 4, 5, 130}
Places   == {"target", "resolve", "build", "gate", "first", "page", "show", "exited"}
Outcomes == {Running, 0} \cup Failing

\* The command exits with a failure.
Fails == pc' = "exited" /\ exit' \in Failing

\* The failures of the actions.
LEMMA Failures ==
    /\ Fail => Fails
    /\ Abort \/ Refused \/ PageRefused \/ DisplayFails => Fails
    /\ Answered => (Fails /\ opts.all) \/ Goto("show")
    /\ Busy => IF attempt < MaxRetries THEN Goto("first") ELSE Fails
<1>1. /\ ErrorToExitCode({}) \in Failing
      /\ ErrorToExitCode({"net"}) \in Failing
      /\ ErrorToExitCode({"server"}) \in Failing
      /\ ErrorToExitCode({"request"}) \in Failing
      /\ ErrorToExitCode({"unauthorized"}) \in Failing
      /\ ErrorToExitCode({"not found"}) \in Failing
      /\ ErrorToExitCode({"canceled"}) \in Failing
  <2>1. ErrorToExitCode({}) \in Failing
    BY Codes DEF Failing
  <2>2. ErrorToExitCode({"net"}) \in Failing
    BY Codes DEF Failing
  <2>3. ErrorToExitCode({"server"}) \in Failing
    BY Codes DEF Failing
  <2>4. ErrorToExitCode({"request"}) \in Failing
    BY Codes DEF Failing
  <2>5. ErrorToExitCode({"unauthorized"}) \in Failing
    BY Codes DEF Failing
  <2>6. ErrorToExitCode({"not found"}) \in Failing
    BY Codes DEF Failing
  <2>7. ErrorToExitCode({"canceled"}) \in Failing
    BY Codes DEF Failing
  <2> QED
    BY <2>1, <2>2, <2>3, <2>4, <2>5, <2>6, <2>7
<1>2. Fail => Fails
  BY <1>1 DEF Fail, Fails, Exit
<1>3. Abort => Fails
  BY <1>1 DEF Abort, Fails, Exit
<1>4. Refused => Fails
  BY <1>1 DEF Refused, Fails, Exit
<1>5. PageRefused => Fails
  BY <1>1 DEF PageRefused, Fails, Exit
<1>6. DisplayFails => Fails
  BY <1>1 DEF DisplayFails, Fails, Exit
<1>7. Answered => (Fails /\ opts.all) \/ Goto("show")
  BY <1>1 DEF Answered, Fails, Exit
<1>8. Busy => IF attempt < MaxRetries THEN Goto("first") ELSE Fails
  BY <1>1 DEF Busy, Fails, Exit
<1> QED
  BY <1>2, <1>3, <1>4, <1>5, <1>6, <1>7, <1>8

LEMMA AnswersKeepTypes ==
    TypeOK /\ SentInv /\ Answer => TypeOK'
<1> SUFFICES ASSUME TypeOK, SentInv, Answer PROVE TypeOK'
  OBVIOUS
<1> USE DEF request, result, server, moves, sent
<1>1. CASE Resolve
  <2>1. pc' \in Places /\ exit' \in Outcomes
    BY <1>1, Failures DEF Resolve, Fails, Goto, Places, Outcomes, Failing, TypeOK
  <2> QED
    BY <1>1, <2>1 DEF TypeOK, Resolve, Places, Outcomes, Failing
<1>2. CASE Act
  BY <1>2, ConstantsAssumption DEF TypeOK, SentInv, Act
<1>3. CASE Refused
  <2>1. pc' \in Places /\ exit' \in Outcomes
    BY <1>3, Failures DEF Fails, Goto, Places, Outcomes, Failing, TypeOK
  <2>2. UNCHANGED <<request, opts, ctx, result, server, sent>>
    BY <1>3 DEF Refused
  <2> QED
    BY <2>1, <2>2 DEF TypeOK, Places, Outcomes, Failing
<1>4. CASE Busy
  <2>1. pc' \in Places /\ exit' \in Outcomes
    BY <1>4, Failures DEF Fails, Goto, Places, Outcomes, Failing, TypeOK
  <2>2. attempt' \in 0..MaxRetries /\ handled' \in BOOLEAN /\ lost' \in BOOLEAN
    <3>1. /\ lost' = (lost \/ handled)
          /\ \/ attempt < MaxRetries /\ attempt' = attempt + 1 /\ handled' = FALSE
             \/ attempt' = attempt /\ handled' = handled
      BY <1>4 DEF Busy
    <3>2. attempt \in 0..MaxRetries /\ handled \in BOOLEAN /\ MaxRetries \in Nat
      BY ConstantsAssumption DEF TypeOK
    <3>3. lost' \in BOOLEAN
      BY <3>1
    <3>4. attempt' \in 0..MaxRetries
      <4>1. attempt' = attempt \/ (attempt < MaxRetries /\ attempt' = attempt + 1)
        BY <3>1
      <4> QED
        BY <3>2, <4>1
    <3>5. handled' \in BOOLEAN
      <4>1. handled' = FALSE \/ handled' = handled
        BY <3>1
      <4> QED
        BY <3>2, <4>1
    <3> QED
      BY <3>3, <3>4, <3>5
  <2>3. UNCHANGED <<request, opts, ctx, result, server, acted>>
    BY <1>4 DEF Busy
  <2> QED
    BY <2>1, <2>2, <2>3 DEF TypeOK, Places, Outcomes, Failing
<1>5. ASSUME NEW n \in Nat \ {0}, Receive(n)
      PROVE  /\ combined' \in Seq(Records) /\ Len(combined') <= MaxPaginateRecords
             /\ next' \in Nat /\ pc' \in {"page", "show"} /\ exit' = exit
  <2>1. combined' \in Seq(Records) /\ Len(combined') <= MaxPaginateRecords
    <3>1. /\ combined' \in Seq(Records) /\ Len(combined') \in Nat /\ MaxPaginateRecords \in Nat
          /\ Len(combined') = IF Len(combined) + Len(Page(n)) < MaxPaginateRecords
                              THEN Len(combined) + Len(Page(n)) ELSE MaxPaginateRecords
      BY <1>5, Received, LenProperties, ConstantsAssumption DEF TypeOK
    <3> QED
      BY <3>1
  <2>2. next' \in Nat
    BY <1>5 DEF Receive, NextPage, NoPage, Goto
  <2> QED
    BY <1>5, <2>1, <2>2 DEF Receive, Goto
<1>6. CASE FirstPage
  <2>1. 1 \in Nat \ {0} /\ Receive(1)
    BY <1>6 DEF FirstPage
  <2>2. /\ combined' \in Seq(Records) /\ Len(combined') <= MaxPaginateRecords
        /\ next' \in Nat /\ pc' \in {"page", "show"} /\ exit' = exit
    BY <1>5, <2>1
  <2> QED
    BY <1>6, <2>2 DEF TypeOK, FirstPage
<1>7. CASE Paginate
  <2>1. next \in Nat \ {0} /\ Receive(next)
    BY <1>7 DEF Paginate, TypeOK, SentInv, NoPage
  <2>2. /\ combined' \in Seq(Records) /\ Len(combined') <= MaxPaginateRecords
        /\ next' \in Nat /\ pc' \in {"page", "show"} /\ exit' = exit
    BY <1>5, <2>1
  <2> QED
    BY <1>7, <2>2 DEF TypeOK, Paginate
<1>8. CASE PageRefused
  <2>1. pc' \in Places /\ exit' \in Outcomes
    BY <1>8, Failures DEF Fails, Goto, Places, Outcomes, Failing, TypeOK
  <2>2. UNCHANGED <<request, opts, ctx, result, server, sent>>
    BY <1>8 DEF PageRefused
  <2> QED
    BY <2>1, <2>2 DEF TypeOK, Places, Outcomes, Failing
<1>9. CASE Answered
  <2>1. pc' \in Places /\ exit' \in Outcomes
    BY <1>9, Failures DEF Fails, Goto, Places, Outcomes, Failing, TypeOK
  <2> QED
    BY <1>9, <2>1 DEF TypeOK, Answered, Places, Outcomes, Failing
<1> QED
  BY <1>1, <1>2, <1>3, <1>4, <1>6, <1>7, <1>8, <1>9 DEF Answer

LEMMA OwnStepsKeepTypes ==
    TypeOK /\ Own => TypeOK'
<1> SUFFICES ASSUME TypeOK, Own PROVE TypeOK'
  OBVIOUS
<1> USE DEF request, result, server, moves, sent
<1>1. CASE Locate
  <2>1. pc' \in Places /\ exit' \in Outcomes
    BY <1>1, Failures DEF Locate, Fails, Goto, Places, Outcomes, Failing, TypeOK
  <2> QED
    BY <1>1, <2>1 DEF TypeOK, Locate, Places, Outcomes, Failing
<1>2. CASE LocateLiteral
  <2>1. pc' \in Places /\ exit' \in Outcomes
    BY <1>2 DEF LocateLiteral, Exit, Goto, Places, Outcomes, Failing, TypeOK
  <2> QED
    BY <1>2, <2>1 DEF TypeOK, LocateLiteral, Places, Outcomes, Failing
<1>3. CASE Fill
  <2>1. Lookups(target) \subseteq DOMAIN AutoFill(target)
    BY DEF Lookups
  <2>2. pc' \in Places /\ exit' \in Outcomes
    BY <1>3 DEF Fill, Goto, Places, Outcomes, Failing, TypeOK
  <2> QED
    BY <1>3, <2>1, <2>2 DEF TypeOK, Fill, Places, Outcomes, Failing
<1>4. CASE Resolved
  <2>1. pc' \in Places /\ exit' \in Outcomes
    BY <1>4, Failures DEF Resolved, Fails, Goto, Places, Outcomes, Failing, TypeOK
  <2> QED
    BY <1>4, <2>1 DEF TypeOK, Resolved, Places, Outcomes, Failing
<1>5. CASE Build
  <2>1. pc' \in Places /\ exit' \in Outcomes
    BY <1>5, Failures DEF Build, Fails, Goto, Places, Outcomes, Failing, TypeOK
  <2> QED
    BY <1>5, <2>1 DEF TypeOK, Build, Places, Outcomes, Failing
<1>6. CASE Abort
  <2>1. pc' \in Places /\ exit' \in Outcomes
    BY <1>6, Failures DEF Fails, Goto, Places, Outcomes, Failing, TypeOK
  <2> QED
    BY <1>6, <2>1 DEF TypeOK, Abort, Places, Outcomes, Failing
<1>7. CASE Gate
  <2>1. pc' \in Places /\ exit' \in Outcomes
    BY <1>7 DEF Gate, Exit, Goto, Places, Outcomes, Failing, TypeOK
  <2> QED
    BY <1>7, <2>1 DEF TypeOK, Gate, Places, Outcomes, Failing
<1>8. CASE ShowNothing
  <2>1. pc' \in Places /\ exit' \in Outcomes
    BY <1>8 DEF ShowNothing, Exit, Goto, Places, Outcomes, Failing, TypeOK
  <2> QED
    BY <1>8, <2>1 DEF TypeOK, ShowNothing, Places, Outcomes, Failing
<1>9. CASE ShowRaw
  <2>1. pc' \in Places /\ exit' \in Outcomes
    BY <1>9 DEF ShowRaw, Exit, Goto, Places, Outcomes, Failing, TypeOK
  <2> QED
    BY <1>9, <2>1 DEF TypeOK, ShowRaw, Places, Outcomes, Failing
<1>10. CASE Display
  <2>1. pc' \in Places /\ exit' \in Outcomes
    BY <1>10 DEF Display, Exit, Goto, Places, Outcomes, Failing, TypeOK
  <2> QED
    BY <1>10, <2>1 DEF TypeOK, Display, Places, Outcomes, Failing
<1>11. CASE DisplayFails
  <2>1. pc' \in Places /\ exit' \in Outcomes
    BY <1>11, Failures DEF Fails, Goto, Places, Outcomes, Failing, TypeOK
  <2> QED
    BY <1>11, <2>1 DEF TypeOK, DisplayFails, Places, Outcomes, Failing
<1> QED
  BY <1>1, <1>2, <1>3, <1>4, <1>5, <1>6, <1>7, <1>8, <1>9, <1>10, <1>11 DEF Own

\* A record is inserted at the front, or removed.
LEMMA CollectionKeepsTypes ==
    TypeOK /\ (InsertRecord \/ RemoveRecord) => TypeOK'
<1> SUFFICES ASSUME TypeOK, InsertRecord \/ RemoveRecord PROVE TypeOK'
  OBVIOUS
<1>1. Len(collection) \in Nat /\ DOMAIN collection = 1..Len(collection)
  BY LenProperties DEF TypeOK
<1>2. collection' \in Seq(Records) /\ IsInjective(collection')
  <2>1. CASE InsertRecord
    <3>1. PICK r \in Records \ (Range(met) \cup Range(collection) \cup Range(combined)) :
            collection' = <<r>> \o collection
      BY <2>1 DEF InsertRecord
    <3>2. /\ collection' \in Seq(Records) /\ Len(collection') = Len(collection) + 1
          /\ collection'[1] = r
          /\ \A i \in 1..Len(collection) : collection'[i + 1] = collection[i]
      BY <3>1, InFront DEF TypeOK
    <3>3. DOMAIN collection' = 1..(Len(collection) + 1)
      BY <3>2, LenProperties
    <3>4. \A i \in 1..(Len(collection) + 1) :
             \/ i = 1
             \/ i - 1 \in DOMAIN collection /\ collection'[i] = collection[i - 1]
      BY <1>1, <3>2
    <3>5. \A j \in DOMAIN collection : collection[j] # r
      BY <3>1 DEF Range
    <3>6. ASSUME NEW i \in DOMAIN collection', NEW j \in DOMAIN collection',
                 collection'[i] = collection'[j]
          PROVE  i = j
      <4>1. CASE i = 1
        BY <3>2, <3>3, <3>4, <3>5, <3>6, <4>1
      <4>2. CASE j = 1
        BY <3>2, <3>3, <3>4, <3>5, <3>6, <4>2
      <4>3. CASE i # 1 /\ j # 1
        <5>1. i - 1 \in DOMAIN collection /\ j - 1 \in DOMAIN collection
              /\ collection[i - 1] = collection[j - 1]
          BY <3>3, <3>4, <3>6, <4>3
        <5>2. i - 1 = j - 1
          BY <5>1 DEF TypeOK, IsInjective
        <5> QED
          BY <1>1, <3>3, <5>2
      <4> QED
        BY <4>1, <4>2, <4>3
    <3> QED
      BY <3>2, <3>6 DEF IsInjective
  <2>2. CASE RemoveRecord
    <3>1. PICK k \in DOMAIN collection : collection' = RemoveAt(collection, k)
      BY <2>2 DEF RemoveRecord
    <3>2. /\ collection' \in Seq(Records) /\ Len(collection') = Len(collection) - 1
          /\ \A i \in 1..(Len(collection) - 1) :
               collection'[i] = IF i < k THEN collection[i] ELSE collection[i + 1]
      BY <3>1, TakenOut DEF TypeOK
    <3>3. DOMAIN collection' = 1..(Len(collection) - 1)
      BY <3>2, LenProperties
    <3>4. ASSUME NEW i \in DOMAIN collection', NEW j \in DOMAIN collection',
                 collection'[i] = collection'[j]
          PROVE  i = j
      <4> DEFINE a == IF i < k THEN i ELSE i + 1
                 b == IF j < k THEN j ELSE j + 1
      <4>1. a \in DOMAIN collection /\ b \in DOMAIN collection
        BY <1>1, <3>3
      <4>2. collection[a] = collection[b]
        BY <3>2, <3>3, <3>4
      <4> HIDE DEF a, b
      <4>3. a = b
        BY <4>1, <4>2 DEF TypeOK, IsInjective
      <4> QED
        BY <1>1, <3>3, <4>3 DEF a, b
    <3> QED
      BY <3>2, <3>4 DEF IsInjective
  <2> QED
    BY <2>1, <2>2
<1>3. /\ UNCHANGED <<request, opts, pc, exit, ctx, result, sent, met>>
      /\ inserted' \in BOOLEAN /\ removed' \in BOOLEAN
  BY DEF InsertRecord, RemoveRecord, TypeOK
<1> QED
  BY <1>2, <1>3 DEF TypeOK, request, result, sent

LEMMA TypesAreKept ==
    TypeOK /\ SentInv /\ [Next]_vars => TypeOK'
<1> SUFFICES ASSUME TypeOK, SentInv, [Next]_vars PROVE TypeOK'
  OBVIOUS
<1>1. CASE Signal
  BY <1>1 DEF TypeOK, Signal, request, result, server, moves, sent
<1>2. CASE UNCHANGED vars
  BY <1>2 DEF TypeOK, vars, request, result, server, moves, sent
<1> QED
  BY <1>1, <1>2, AnswersKeepTypes, OwnStepsKeepTypes, CollectionKeepsTypes DEF Next

LEMMA AnswersKeepSent ==
    TypeOK /\ SentInv /\ Answer => SentInv'
<1> SUFFICES ASSUME TypeOK, SentInv, Answer PROVE SentInv'
  OBVIOUS
<1>1. /\ acted \in Nat /\ attempt \in Nat /\ handled \in BOOLEAN /\ lost \in BOOLEAN
      /\ pc \in Places /\ Running \notin Failing \cup {0} /\ 0 \notin Failing
  BY ConstantsAssumption DEF TypeOK, Places, Running, Failing
<1> USE DEF request, result, server, moves, sent, SentInv, ActsAsAsked, Mutation
<1>2. CASE Resolve
  <2>1. Goto("resolve") \/ Fails
    BY <1>2, Failures DEF Resolve
  <2>2. pc = "resolve" /\ UNCHANGED <<target, opts, ctx, result, server, sent>>
    BY <1>2 DEF Resolve
  <2> QED
    BY <1>1, <2>1, <2>2 DEF Fails, Goto
<1>3. CASE Act
  BY <1>1, <1>3 DEF Act
<1>4. CASE Refused
  <2>1. Fails
    BY <1>4, Failures
  <2>2. ~handled /\ pc \in {"first", "resolve"} /\ UNCHANGED <<target, opts, ctx, result, server, sent>>
    BY <1>4 DEF Refused
  <2> QED
    BY <1>1, <2>1, <2>2 DEF Fails
<1>5. CASE Busy
  <2>1. IF attempt < MaxRetries THEN Goto("first") ELSE Fails
    BY <1>5, Failures
  <2>2. /\ pc = "first" /\ Mutation /\ lost' = (lost \/ handled)
        /\ IF attempt < MaxRetries THEN attempt' = attempt + 1 /\ handled' = FALSE
           ELSE UNCHANGED <<attempt, handled>>
        /\ UNCHANGED <<target, opts, ctx, result, server, acted>>
    BY <1>5 DEF Busy
  <2> QED
    BY <1>1, <2>1, <2>2 DEF Fails, Goto
<1>6. CASE FirstPage
  BY <1>1, <1>6 DEF FirstPage, Receive, Goto
<1>7. CASE Paginate
  BY <1>1, <1>7 DEF Paginate, Receive, Goto
<1>8. CASE PageRefused
  <2>1. Fails
    BY <1>8, Failures
  <2>2. pc = "page" /\ UNCHANGED <<target, opts, ctx, result, server, sent>>
    BY <1>8 DEF PageRefused
  <2> QED
    BY <1>1, <2>1, <2>2 DEF Fails
<1>9. CASE Answered
  <2>1. (Fails /\ opts.all) \/ Goto("show")
    BY <1>9, Failures
  <2>2. /\ pc = "first" /\ (Mutation => handled)
        /\ UNCHANGED <<target, opts, ctx, result, server, sent>>
    BY <1>9 DEF Answered
  <2> QED
    BY <1>1, <2>1, <2>2 DEF Fails, Goto
<1> QED
  BY <1>2, <1>3, <1>4, <1>5, <1>6, <1>7, <1>8, <1>9 DEF Answer

LEMMA OwnStepsKeepSent ==
    TypeOK /\ SentInv /\ Own => SentInv'
<1> SUFFICES ASSUME TypeOK, SentInv, Own PROVE SentInv'
  OBVIOUS
<1>1. /\ acted \in Nat /\ attempt \in Nat /\ handled \in BOOLEAN /\ lost \in BOOLEAN
      /\ pc \in Places /\ Running \notin Failing \cup {0} /\ 0 \notin Failing
  BY ConstantsAssumption DEF TypeOK, Places, Running, Failing
<1> USE DEF request, result, server, moves, sent, SentInv, ActsAsAsked, Mutation
<1>2. CASE Locate
  <2>1. Fails \/ Goto("build")
    BY <1>2, Failures DEF Locate
  <2>2. pc = "target" /\ UNCHANGED <<target, opts, ctx, result, server, sent>>
    BY <1>2 DEF Locate
  <2> QED
    BY <1>1, <2>1, <2>2 DEF Fails, Goto
<1>3. CASE LocateLiteral
  BY <1>1, <1>3 DEF LocateLiteral, Goto
<1>4. CASE Fill
  BY <1>1, <1>4 DEF Fill, Goto
<1>5. CASE Resolved
  <2>1. Fails \/ Goto("build")
    BY <1>5, Failures DEF Resolved
  <2>2. pc = "resolve" /\ UNCHANGED <<target, opts, ctx, result, server, sent>>
    BY <1>5 DEF Resolved
  <2> QED
    BY <1>1, <2>1, <2>2 DEF Fails, Goto
<1>6. CASE Build
  <2>1. Fails \/ Goto("gate")
    BY <1>6, Failures DEF Build
  <2>2. pc = "build" /\ UNCHANGED <<target, opts, ctx, result, server, sent>>
    BY <1>6 DEF Build
  <2> QED
    BY <1>1, <2>1, <2>2 DEF Fails, Goto
<1>7. CASE Abort
  <2>1. Fails
    BY <1>7, Failures
  <2>2. /\ pc \in {"first", "page", "resolve", "gate"} /\ ctx = "canceled"
        /\ UNCHANGED <<target, opts, ctx, result, server, sent>>
    BY <1>7 DEF Abort, Waits
  <2> QED
    BY <1>1, <2>1, <2>2 DEF Fails
<1>8. CASE Gate
  <2>1. /\ pc = "gate" /\ UNCHANGED <<target, opts, ctx, result, server, sent>>
        /\ \/ pc' = "exited" /\ exit' = 1
           \/ pc' = "exited" /\ exit' = 0 /\ opts.dryRun
           \/ pc' = "first" /\ exit' = exit /\ ~(opts.dryRun /\ Mutation)
    BY <1>8 DEF Gate, Exit, Goto
  <2>2. 1 # Running /\ 0 # Running
    BY DEF Running
  <2> QED
    BY <1>1, <2>1, <2>2
<1>9. CASE ShowNothing
  BY <1>1, <1>9 DEF ShowNothing, Exit
<1>10. CASE ShowRaw
  BY <1>1, <1>10 DEF ShowRaw, Exit
<1>11. CASE Display
  BY <1>1, <1>11 DEF Display, Exit
<1>12. CASE DisplayFails
  <2>1. Fails
    BY <1>12, Failures
  <2>2. /\ pc = "show" /\ ~Silent
        /\ UNCHANGED <<target, opts, ctx, result, server, sent>>
    BY <1>12 DEF DisplayFails
  <2> QED
    BY <1>1, <2>1, <2>2 DEF Fails, Silent
<1> QED
  BY <1>2, <1>3, <1>4, <1>5, <1>6, <1>7, <1>8, <1>9, <1>10, <1>11, <1>12 DEF Own

LEMMA SentIsKept ==
    TypeOK /\ SentInv /\ [Next]_vars => SentInv'
<1> SUFFICES ASSUME TypeOK, SentInv, [Next]_vars PROVE SentInv'
  OBVIOUS
<1> USE DEF request, result, server, moves, sent, SentInv, ActsAsAsked, Mutation
<1>1. CASE InsertRecord
  BY <1>1 DEF InsertRecord
<1>2. CASE RemoveRecord
  BY <1>2 DEF RemoveRecord
<1>3. CASE Signal
  BY <1>3 DEF Signal
<1>4. CASE UNCHANGED vars
  BY <1>4 DEF vars
<1> QED
  BY <1>1, <1>2, <1>3, <1>4, AnswersKeepSent, OwnStepsKeepSent DEF Next

\* Every value is of its type: no more records than --all may display, no more
\* attempts than there may be, and at most one mutation for each.
THEOREM TypeCorrect ==
    Spec => []TypeOK
<1>1. TypeOK /\ SentInv /\ [Next]_vars => TypeOK' /\ SentInv'
  BY TypesAreKept, SentIsKept
<1> QED
  BY Started, <1>1, PTL DEF Spec

\* A mutation is done if and only if its exit code says so, as often as it is
\* answered and not at all in a dry run; what fails displays nothing.
THEOREM RequestsAreDone ==
    Spec => []ActsAsAsked
<1>1. TypeOK /\ SentInv /\ [Next]_vars => TypeOK' /\ SentInv'
  BY TypesAreKept, SentIsKept
<1>2. SentInv => ActsAsAsked
  BY DEF SentInv
<1> QED
  BY Started, <1>1, <1>2, PTL DEF Spec

-----------------------------------------------------------------------------
(* What --all displays.                                                    *)

LEMMA FirstPageKeepsPages ==
    TypeOK /\ SentInv /\ PageInv /\ FirstPage => PageInv'
<1> SUFFICES ASSUME TypeOK, SentInv, PageInv, FirstPage PROVE PageInv'
  OBVIOUS
<1>1. /\ combined \in Seq(Records) /\ collection \in Seq(Records) /\ IsInjective(collection)
      /\ Len(combined) <= MaxPaginateRecords /\ combined = <<>> /\ ~inserted /\ ~removed
      /\ 1 \in Nat \ {0} /\ Receive(1) /\ met' = collection
      /\ UNCHANGED <<collection, inserted, removed, opts, shown>>
  BY DEF TypeOK, PageInv, FirstPage
<1>2. PICK known \in Seq(Records) : known = collection
  BY <1>1
<1>3. Between(Skipped(1), known)
  <2>1. Skipped(1) = 0
    <3>1. 1 - 1 = 0 /\ PageSize \in Nat /\ 0 * PageSize = 0
      BY ConstantsAssumption
    <3> QED
      BY <3>1 DEF Skipped
  <2>2. Len(combined) = 0 /\ DOMAIN combined = {} /\ Range(combined) = {} /\ IsInjective(combined)
    BY <1>1 DEF Range, IsInjective
  <2>3. Len(known) \in Nat /\ DOMAIN known = 1..Len(known)
    BY LenProperties
  <2> QED
    BY <1>2, <2>1, <2>2, <2>3 DEF Between
<1>4. IF Len(combined') < MaxPaginateRecords /\ next' # NoPage
      THEN Between(Skipped(next), known)' ELSE Complete(known)'
  BY <1>1, <1>3, MorePages
<1>5. IF opts.all /\ Len(combined') < MaxPaginateRecords /\ next' # NoPage
      THEN pc' = "page" ELSE pc' = "show"
  BY <1>1 DEF Receive, Goto
<1>6. shown' = "nothing"
  BY <1>1 DEF SentInv, FirstPage
<1> QED
  BY <1>1, <1>2, <1>4, <1>5, <1>6 DEF PageInv, Between, Complete, AllIsComplete, Listed

LEMMA PaginateKeepsPages ==
    TypeOK /\ SentInv /\ PageInv /\ Paginate => PageInv'
<1> SUFFICES ASSUME TypeOK, SentInv, PageInv, Paginate PROVE PageInv'
  OBVIOUS
<1>1. /\ combined \in Seq(Records) /\ collection \in Seq(Records) /\ IsInjective(collection)
      /\ Len(combined) <= MaxPaginateRecords /\ met \in Seq(Records)
      /\ next \in Nat \ {0} /\ Receive(next) /\ Between(Skipped(next), met)
      /\ UNCHANGED <<collection, inserted, removed, opts, shown, met>>
  BY DEF TypeOK, SentInv, PageInv, Paginate, NoPage, server, moves
<1>2. PICK known \in Seq(Records) : known = met
  BY <1>1
<1>3. PICK n \in Nat \ {0} : n = next
  BY <1>1
<1>4. IF Len(combined') < MaxPaginateRecords /\ next' # NoPage
      THEN Between(Skipped(next), known)' ELSE Complete(known)'
  BY <1>1, <1>2, <1>3, MorePages
<1>5. IF opts.all /\ Len(combined') < MaxPaginateRecords /\ next' # NoPage
      THEN pc' = "page" ELSE pc' = "show"
  BY <1>1 DEF Receive, Goto
<1>6. shown' = "nothing"
  BY <1>1 DEF SentInv, Paginate
<1> QED
  BY <1>1, <1>2, <1>4, <1>5, <1>6 DEF PageInv, Between, Complete, AllIsComplete, Listed

LEMMA InsertKeepsPages ==
    TypeOK /\ SentInv /\ PageInv /\ InsertRecord => PageInv'
<1> SUFFICES ASSUME TypeOK, SentInv, PageInv, InsertRecord PROVE PageInv'
  OBVIOUS
<1>1. PICK r \in Records \ (Range(met) \cup Range(collection) \cup Range(combined)) :
        collection' = <<r>> \o collection
  BY DEF InsertRecord
<1>2. /\ collection' \in Seq(Records) /\ Len(collection') = Len(collection) + 1
      /\ collection'[1] = r
      /\ \A i \in 1..Len(collection) : collection'[i + 1] = collection[i]
  BY <1>1, InFront DEF TypeOK
<1>3. /\ Len(collection) \in Nat /\ DOMAIN collection = 1..Len(collection)
      /\ DOMAIN collection' = 1..(Len(collection) + 1)
  BY <1>2, LenProperties DEF TypeOK
<1>4. /\ pc = "page" /\ inserted' = TRUE /\ shown = "nothing"
      /\ UNCHANGED <<pc, opts, shown, combined, next, met, removed>>
  BY DEF InsertRecord, SentInv, sent, result
<1> DEFINE received == Skipped(next)
<1>5. received \in Int
  BY ConstantsAssumption DEF Skipped, TypeOK
<1>6. Len(combined) < MaxPaginateRecords /\ Between(received, met)
  BY <1>4 DEF PageInv
<1> HIDE DEF received
<1>7. ASSUME ~removed
      PROVE  /\ Range(met) \subseteq Range(collection')
             /\ \A i \in DOMAIN collection' :
                  i <= received /\ collection'[i] \in Range(met)
                  => collection'[i] \in Range(combined)
  <2>1. \A j \in DOMAIN collection : j + 1 \in DOMAIN collection' /\ collection'[j + 1] = collection[j]
    BY <1>2, <1>3
  <2>2. Range(collection) \subseteq Range(collection')
    BY <2>1 DEF Range
  <2>3. ASSUME NEW i \in DOMAIN collection', i <= received, collection'[i] \in Range(met)
        PROVE  collection'[i] \in Range(combined)
    <3>1. i # 1
      BY <1>1, <1>2, <2>3
    <3>2. i - 1 \in DOMAIN collection /\ (i - 1) + 1 = i /\ i - 1 <= received
      BY <1>3, <1>5, <2>3, <3>1
    <3>3. collection'[i] = collection[i - 1]
      BY <2>1, <3>2
    <3> QED
      BY <1>6, <1>7, <2>3, <3>2, <3>3 DEF Between
  <2> QED
    BY <1>6, <1>7, <2>2, <2>3 DEF Between
<1>8. Between(received, met)'
  BY <1>4, <1>7 DEF Between, received, Skipped
<1> QED
  BY <1>4, <1>6, <1>8 DEF PageInv, AllIsComplete, Listed, received

LEMMA RemoveKeepsPages ==
    TypeOK /\ SentInv /\ PageInv /\ RemoveRecord => PageInv'
<1> SUFFICES ASSUME TypeOK, SentInv, PageInv, RemoveRecord PROVE PageInv'
  OBVIOUS
<1>1. PICK k \in DOMAIN collection : collection' = RemoveAt(collection, k)
  BY DEF RemoveRecord
<1>2. /\ collection' \in Seq(Records) /\ Len(collection') = Len(collection) - 1
      /\ \A i \in 1..(Len(collection) - 1) :
           collection'[i] = IF i < k THEN collection[i] ELSE collection[i + 1]
  BY <1>1, TakenOut DEF TypeOK
<1>3. /\ Len(collection) \in Nat /\ DOMAIN collection = 1..Len(collection)
      /\ DOMAIN collection' = 1..(Len(collection) - 1)
  BY <1>2, LenProperties DEF TypeOK
<1>4. /\ pc = "page" /\ removed' = TRUE /\ shown = "nothing"
      /\ UNCHANGED <<pc, opts, shown, combined, next, met, inserted>>
  BY DEF RemoveRecord, SentInv, sent, result
<1> DEFINE received == Skipped(next)
<1>5. received \in Int
  BY ConstantsAssumption DEF Skipped, TypeOK
<1>6. Len(combined) < MaxPaginateRecords /\ Between(received, met)
  BY <1>4 DEF PageInv
<1> HIDE DEF received
<1>7. ASSUME ~inserted, NEW i \in DOMAIN collection', i > received
      PROVE  collection'[i] \notin Range(combined)
  <2>1. /\ i \in DOMAIN collection /\ i + 1 \in DOMAIN collection /\ i + 1 > received
        /\ collection'[i] = collection[i] \/ collection'[i] = collection[i + 1]
    BY <1>2, <1>3, <1>5, <1>7
  <2> QED
    BY <1>6, <1>7, <2>1 DEF Between
<1>8. Between(received, met)'
  BY <1>4, <1>6, <1>7 DEF Between, received, Skipped
<1> QED
  BY <1>4, <1>6, <1>8 DEF PageInv, AllIsComplete, Listed, received

LEMMA PagesAreKept ==
    TypeOK /\ SentInv /\ PageInv /\ [Next]_vars => PageInv'
<1> SUFFICES ASSUME TypeOK, SentInv, PageInv, [Next]_vars PROVE PageInv'
  OBVIOUS
<1>1. ASSUME UNCHANGED <<combined, next, collection, met, inserted, removed, opts>>,
             \/ pc' \in Places \ {"page", "show", "exited"} /\ pc \notin {"page", "show", "exited"}
             \/ pc' = "show" /\ pc # "exited" /\ opts.answer # "list"
             \/ pc' = pc
             \/ pc' = "exited" /\ pc # "exited",
             shown' = shown \/ pc = "show"
      PROVE  PageInv'
  <2>1. AllIsComplete'
    <3>1. CASE shown' = shown
      BY <1>1, <3>1 DEF PageInv, AllIsComplete, Listed
    <3>2. CASE pc = "show"
      BY <1>1, <3>2 DEF PageInv, AllIsComplete, Complete, Listed
    <3> QED
      BY <1>1, <3>1, <3>2
  <2> QED
    BY <1>1, <2>1 DEF PageInv, Between, Complete, Skipped
<1> USE DEF request, result, server, moves, sent, Goto, Exit
<1>2. CASE Signal
  BY <1>1, <1>2 DEF Signal
<1>3. CASE UNCHANGED vars
  BY <1>1, <1>3 DEF vars
<1>4. CASE Answer
  <2>1. CASE Resolve
    BY <1>1, <2>1 DEF Resolve, Fail, Places
  <2>2. CASE Act
    BY <1>1, <2>2 DEF Act
  <2>3. CASE Refused
    <3>1. Fails /\ pc # "exited" /\ UNCHANGED <<opts, result, server>>
      BY <2>3, Failures DEF Refused
    <3> QED
      BY <1>1, <3>1 DEF Fails
  <2>4. CASE Busy
    <3>1. pc = "first" /\ (Fails \/ pc' = "first") /\ UNCHANGED <<opts, result, server>>
      BY <2>4, Failures DEF Busy
    <3> QED
      BY <1>1, <3>1 DEF Fails
  <2>5. CASE PageRefused
    <3>1. Fails /\ pc # "exited" /\ UNCHANGED <<opts, result, server>>
      BY <2>5, Failures DEF PageRefused
    <3> QED
      BY <1>1, <3>1 DEF Fails
  <2>6. CASE Answered
    <3>1. /\ pc = "first" /\ opts.answer # "list" /\ (Fails \/ pc' = "show")
          /\ UNCHANGED <<opts, result, server>>
      BY <2>6, Failures DEF Answered
    <3> QED
      BY <1>1, <3>1 DEF Fails
  <2> QED
    BY <1>4, <2>1, <2>2, <2>3, <2>4, <2>5, <2>6, FirstPageKeepsPages, PaginateKeepsPages DEF Answer
<1>5. CASE Own
  <2>1. CASE Locate
    BY <1>1, <2>1 DEF Locate, Fail, Places
  <2>2. CASE LocateLiteral
    BY <1>1, <2>2 DEF LocateLiteral, Places
  <2>3. CASE Fill
    BY <1>1, <2>3 DEF Fill, Places
  <2>4. CASE Resolved
    BY <1>1, <2>4 DEF Resolved, Fail, Places
  <2>5. CASE Build
    BY <1>1, <2>5 DEF Build, Fail, Places
  <2>6. CASE Abort
    <3>1. Fails /\ pc # "exited" /\ UNCHANGED <<opts, result, server>>
      BY <2>6, Failures DEF Abort, Waits
    <3> QED
      BY <1>1, <3>1 DEF Fails
  <2>7. CASE Gate
    BY <1>1, <2>7 DEF Gate, Places
  <2>8. CASE ShowNothing
    BY <1>1, <2>8 DEF ShowNothing
  <2>9. CASE ShowRaw
    BY <1>1, <2>9 DEF ShowRaw
  <2>10. CASE Display
    BY <1>1, <2>10 DEF Display
  <2>11. CASE DisplayFails
    <3>1. Fails /\ pc # "exited" /\ UNCHANGED <<opts, result, server>>
      BY <2>11, Failures DEF DisplayFails
    <3> QED
      BY <1>1, <3>1 DEF Fails
  <2> QED
    BY <1>5, <2>1, <2>2, <2>3, <2>4, <2>5, <2>6, <2>7, <2>8, <2>9, <2>10, <2>11 DEF Own
<1> QED
  BY <1>2, <1>3, <1>4, <1>5, InsertKeepsPages, RemoveKeepsPages DEF Next

\* What --all displays is what was there when it began, in its order and up to the
\* limit; nothing is missing unless something has been removed meanwhile, and nothing
\* is there twice unless something has been inserted.
THEOREM ListsAreComplete ==
    Spec => []AllIsComplete
<1>1. Init => PageInv
  BY DEF Init, PageInv, AllIsComplete, Listed
<1>2. TypeOK /\ SentInv /\ PageInv /\ [Next]_vars => TypeOK' /\ SentInv' /\ PageInv'
  BY TypesAreKept, SentIsKept, PagesAreKept
<1>3. PageInv => AllIsComplete
  BY DEF PageInv
<1> QED
  BY Started, <1>1, <1>2, <1>3, PTL DEF Spec

-----------------------------------------------------------------------------
(* Paths.                                                                  *)

\* A resource that has been found is one of the registry.
LEMMA Found ==
    ASSUME NEW word
    PROVE  ByNameOrAlias(word) \in Resources \cup {NoResource}
           /\ ByIDPrefix(word) \in Resources \cup {NoResource}
<1>1. \A T \in SUBSET Resources : One(T) \in T \cup {NoResource}
  BY DEF One
<1>2. /\ One({r \in Resources : r.type = word}) \in Resources \cup {NoResource}
      /\ One({r \in Resources : word \in r.aliases}) \in Resources \cup {NoResource}
      /\ One({r \in Resources : r.prefix = PrefixOf[word]}) \in Resources \cup {NoResource}
  BY <1>1
<1> QED
  BY <1>2 DEF ByNameOrAlias, ByName, ByIDPrefix

\* A path with its placeholders filled in is a path.
LEMMA SubstituteIsPath ==
    ASSUME NEW S, NEW template \in Seq(S), NEW values
    PROVE  LET filled == Substitute(template, values)
           IN  /\ filled \in Seq(Range(filled)) /\ DOMAIN filled = DOMAIN template
               /\ \A i \in DOMAIN template :
                    filled[i] = IF template[i] \in DOMAIN values THEN values[template[i]]
                                ELSE template[i]
<1> DEFINE filled == Substitute(template, values)
<1>1. Len(template) \in Nat /\ DOMAIN template = 1..Len(template)
  BY LenProperties
<1>2. /\ filled = [i \in 1..Len(template) |-> filled[i]] /\ DOMAIN filled = DOMAIN template
      /\ \A i \in DOMAIN template :
           filled[i] = IF template[i] \in DOMAIN values THEN values[template[i]]
                       ELSE template[i]
  BY <1>1 DEF Substitute
<1> HIDE DEF filled
<1>3. filled \in [1..Len(template) -> Range(filled)]
  BY <1>1, <1>2 DEF Range
<1>4. filled \in Seq(Range(filled))
  BY <1>1, <1>3, SeqDef
<1> QED
  BY <1>2, <1>4 DEF filled

LEMMA SeqOfItsRange ==
    ASSUME NEW S, NEW s \in Seq(S)
    PROVE  s \in Seq(Range(s))
<1>1. Len(s) \in Nat /\ DOMAIN s = 1..Len(s) /\ s = [i \in 1..Len(s) |-> s[i]]
  BY LenProperties, SeqDef
<1>2. s \in [1..Len(s) -> Range(s)]
  BY <1>1 DEF Range
<1> QED
  BY <1>1, <1>2, SeqDef

\* One placeholder of a template is filled in with what is no placeholder.
PutIn(template, p, value) == Substitute(template, [q \in {p} |-> value])

LEMMA OneFilledIn ==
    ASSUME NEW template \in Seq(STRING), NEW p, NEW value, value \notin Placeholders
    PROVE  /\ PutIn(template, p, value) \in Seq(Range(PutIn(template, p, value)))
           /\ Params(PutIn(template, p, value)) \subseteq Params(template) \ {p}
<1> DEFINE values == [q \in {p} |-> value]
           filled == Substitute(template, values)
<1>1. /\ filled \in Seq(Range(filled)) /\ DOMAIN filled = DOMAIN template
      /\ \A i \in DOMAIN template :
           filled[i] = IF template[i] \in DOMAIN values THEN values[template[i]]
                       ELSE template[i]
  BY SubstituteIsPath
<1>2. DOMAIN values = {p} /\ values[p] = value
  OBVIOUS
<1> HIDE DEF filled, values
<1>3. ASSUME NEW q \in Params(filled)
      PROVE  q \in Params(template) \ {p}
  <2>1. PICK i \in DOMAIN template : filled[i] = q
    BY <1>1 DEF Params, Range
  <2>2. q \in Placeholders
    BY DEF Params
  <2>3. template[i] # p /\ filled[i] = template[i]
    BY <1>1, <1>2, <2>1, <2>2
  <2> QED
    BY <2>1, <2>2, <2>3 DEF Params, Range
<1> QED
  BY <1>1, <1>3 DEF filled, values, PutIn

\* A list, or a created resource, is in the organization.
LEMMA ResolvedPath ==
    ASSUME NEW template, NEW organization, ResolvePath(template, organization) # None,
           template # None => template \in Seq(STRING) /\ Params(template) \subseteq {OrganizationName},
           organization \notin Placeholders
    PROVE  LET filled == ResolvePath(template, organization)
           IN  filled \in Seq(Range(filled)) /\ Params(filled) = {}
<1> DEFINE filled == PutIn(template, OrganizationName, organization)
<1>1. template # None /\ ResolvePath(template, organization) = filled
  BY DEF ResolvePath, PutIn
<1>2. filled \in Seq(Range(filled)) /\ Params(filled) \subseteq Params(template) \ {OrganizationName}
  BY <1>1, OneFilledIn
<1> HIDE DEF filled
<1>3. Params(filled) = {}
  BY <1>1, <1>2
<1> QED
  BY <1>1, <1>2, <1>3 DEF filled

\* get and create leave no placeholder but the organization, where get goes by an id.
LEMMA LocatedPath ==
    ASSUME TypeOK, NEW filled, filled # None,
           \/ filled = GetPath(target) /\ target.verb = "get"
           \/ filled = CreatePath(target) /\ target.verb # "get"
    PROVE  filled \in Seq(Range(filled))
           /\ Params(filled) \subseteq IF target.verb = "get" THEN {OrganizationName} ELSE {}
<1>1. /\ target.words \in Seq(STRING)
      /\ \A word \in Range(target.words) : word \notin Placeholders
      /\ ResolveOrganization(target) \notin Placeholders
  BY CasesAssumption DEF TypeOK
<1>2. \A i \in 1..Len(target.words) : target.words[i] \notin Placeholders
  BY <1>1, LenProperties DEF Range
<1>3. ASSUME NEW r \in Resources
      PROVE  /\ r.list # None => r.list \in Seq(STRING) /\ Params(r.list) \subseteq {OrganizationName}
             /\ r.create # None => r.create \in Seq(STRING) /\ Params(r.create) \subseteq {OrganizationName}
             /\ r.get # None => r.get \in Seq(STRING) /\ Params(r.get) \subseteq {OrganizationName, Id}
  BY TemplatesAssumption
<1>4. ASSUME NEW r \in Resources, NEW word, word \notin Placeholders, filled = PathByID(r, word)
      PROVE  filled \in Seq(Range(filled)) /\ Params(filled) \subseteq {OrganizationName}
  <2> DEFINE byID == PutIn(r.get, Id, word)
  <2>1. r.get # None /\ filled = byID
    BY <1>4 DEF PathByID, PutIn
  <2>2. byID \in Seq(Range(byID)) /\ Params(byID) \subseteq Params(r.get) \ {Id}
    BY <1>3, <1>4, <2>1, OneFilledIn
  <2> HIDE DEF byID
  <2> QED
    BY <1>3, <2>1, <2>2
<1>5. CASE filled = GetPath(target) /\ target.verb = "get"
  <2> DEFINE word  == target.words[1]
             named == ByNameOrAlias(word)
             byID  == ByIDPrefix(word)
  <2>1. \/ /\ named # NoResource
           /\ filled = ResolvePath(named.list, ResolveOrganization(target))
        \/ /\ Len(target.words) = 1 /\ byID # NoResource
           /\ filled = PathByID(byID, word)
        \/ /\ Len(target.words) = 2 /\ named # NoResource
           /\ filled = PathByID(named, target.words[2])
    BY <1>5 DEF GetPath
  <2>2. named \in Resources \cup {NoResource} /\ byID \in Resources \cup {NoResource}
    BY Found
  <2> HIDE DEF named, byID
  <2>3. CASE named # NoResource /\ filled = ResolvePath(named.list, ResolveOrganization(target))
    BY <1>1, <1>3, <1>5, <2>2, <2>3, ResolvedPath
  <2>4. CASE Len(target.words) = 1 /\ byID # NoResource /\ filled = PathByID(byID, word)
    BY <1>2, <1>4, <1>5, <2>2, <2>4
  <2>5. CASE Len(target.words) = 2 /\ named # NoResource /\ filled = PathByID(named, target.words[2])
    BY <1>2, <1>4, <1>5, <2>2, <2>5
  <2> QED
    BY <2>1, <2>3, <2>4, <2>5
<1>6. CASE filled = CreatePath(target) /\ target.verb # "get"
  <2> DEFINE named == ByNameOrAlias(target.words[1])
  <2>1. named # NoResource /\ filled = ResolvePath(named.create, ResolveOrganization(target))
    BY <1>6 DEF CreatePath
  <2>2. named \in Resources \cup {NoResource}
    BY Found
  <2> HIDE DEF named
  <2> QED
    BY <1>1, <1>3, <1>6, <2>1, <2>2, ResolvedPath
<1> QED
  BY <1>5, <1>6

-----------------------------------------------------------------------------
(* What a request does to what is named.                                   *)

\* The class of a path with an id in its place is the type of that id, unless --type
\* gives another one.
LEMMA ClassOfItsPlace ==
    ASSUME path \in Seq(Range(path))
    PROVE  ClassIsTheType
<1> DEFINE resource == ByIDPrefix(Last(path))
           segment  == path[Len(path) - 1]
<1> SUFFICES ASSUME resource # NoResource, Len(path) > 1, segment = PlaceOf(resource)
             PROVE  ClassFromPath(path) = resource.type
  BY DEF ClassIsTheType, DeleteClass, OrElse
<1>1. resource \in Resources
  BY Found
<1> HIDE DEF resource
<1>2. ~(Len(path) < 2)
  BY LenProperties
<1>3. segment # "relationships"
  BY <1>1, ResourcesAssumption
<1>4. ClassFromPath(path) = TypeFromPathSegment(segment)
  BY <1>2, <1>3 DEF ClassFromPath
<1> HIDE DEF segment
<1> DEFINE named == {r \in Resources : /\ r.get # None
                                       /\ Collection(r.get) = segment
                                       /\ r.type # segment}
<1>5. CASE named = {}
  <2>1. TypeFromPathSegment(segment) = segment
    BY <1>5 DEF TypeFromPathSegment
  <2>2. segment = resource.type
    BY <1>1, <1>5 DEF PlaceOf
  <2> QED
    BY <1>4, <2>1, <2>2
<1>6. CASE named # {}
  <2>1. TypeFromPathSegment(segment) = One(named).type
    BY <1>6 DEF TypeFromPathSegment
  <2>2. One(named) \in named
    BY <1>6 DEF One
  <2>3. PICK r \in named : r = One(named)
    BY <2>2
  <2>4. PlaceOf(r) = PlaceOf(resource)
    BY <2>3 DEF PlaceOf
  <2>5. r = resource
    BY <1>1, <2>3, <2>4, ResourcesAssumption
  <2> QED
    BY <1>4, <2>1, <2>3, <2>5
<1> QED
  BY <1>5, <1>6

\* The relationships that are accepted are those that are asked for, once each, with
\* a type that the description has for them.
LEMMA AcceptedRelationships ==
    ASSUME NEW rels, IsFiniteSet(rels), NEW linkages, Accepted(rels, linkages)
    PROVE  /\ {<<r.name, r.ids>> : r \in rels} =
                 {<<b.name, b.ids>> : b \in Relationships(rels, linkages)}
           /\ Cardinality(Relationships(rels, linkages)) = Cardinality(rels)
           /\ \A r \in rels, b \in Relationships(rels, linkages) :
                 r.name = b.name =>
                     b.type = r.type \/ (r.type = None /\ b.type \in linkages[r.name].types)
<1> DEFINE TypeOf(r) == IF r.type # None THEN r.type
                        ELSE CHOOSE x \in linkages[r.name].types : TRUE
           ManyOf(r) == IF Known(r, linkages) THEN linkages[r.name].toMany ELSE Len(r.ids) > 1
           Made(r)   == [name |-> r.name, type |-> TypeOf(r), many |-> ManyOf(r), ids |-> r.ids]
<1>1. Relationships(rels, linkages) = {Made(r) : r \in rels}
  BY DEF Relationships
<1>2. \A r \in rels : Made(r).name = r.name /\ Made(r).type = TypeOf(r) /\ Made(r).ids = r.ids
  OBVIOUS
<1>3. \A r, q \in rels : r.name = q.name => r = q
  BY DEF Accepted
<1>4. ASSUME NEW r \in rels, r.type = None
      PROVE  TypeOf(r) \in linkages[r.name].types
  <2>1. Cardinality(linkages[r.name].types) = 1
    BY <1>4 DEF Accepted, Typed
  <2>2. linkages[r.name].types # {}
    BY <2>1, FS_EmptySet
  <2> QED
    BY <1>4, <2>2
<1>5. \A r \in rels : r.type # None => TypeOf(r) = r.type
  OBVIOUS
<1> HIDE DEF TypeOf, Made
<1> DEFINE made == {Made(r) : r \in rels}
<1>6. Cardinality(made) = Cardinality(rels)
  <2> DEFINE f == [r \in rels |-> Made(r)]
  <2>1. f \in [rels -> made]
    OBVIOUS
  <2>2. \A r, q \in rels : f[r] = f[q] => r = q
    <3>1. \A r \in rels : f[r] = Made(r)
      OBVIOUS
    <3> HIDE DEF f
    <3> QED
      BY <1>2, <1>3, <3>1
  <2>3. \A b \in made : \E r \in rels : f[r] = b
    OBVIOUS
  <2>4. DOMAIN f = rels
    OBVIOUS
  <2> HIDE DEF f, made
  <2>5. f \in Bijection(rels, made)
    BY <2>1, <2>2, <2>3, <2>4 DEF Bijection, Injection, Surjection, IsInjective
  <2>6. ExistsBijection(rels, made)
    BY <2>5 DEF ExistsBijection
  <2> QED
    BY <2>6, FS_Bijection
<1>7. {<<r.name, r.ids>> : r \in rels} = {<<b.name, b.ids>> : b \in made}
  <2>1. ASSUME NEW r \in rels
        PROVE  \E b \in made : <<r.name, r.ids>> = <<b.name, b.ids>>
    BY <1>2
  <2>2. ASSUME NEW b \in made
        PROVE  \E r \in rels : <<r.name, r.ids>> = <<b.name, b.ids>>
    BY <1>2
  <2> HIDE DEF made
  <2> QED
    BY <2>1, <2>2
<1>8. ASSUME NEW r \in rels, NEW b \in made, r.name = b.name
      PROVE  b.type = r.type \/ (r.type = None /\ b.type \in linkages[r.name].types)
  <2>1. PICK q \in rels : b = Made(q)
    OBVIOUS
  <2>2. q = r
    BY <1>2, <1>3, <1>8, <2>1
  <2>3. b.type = TypeOf(r)
    BY <1>2, <2>1, <2>2
  <2> QED
    BY <1>4, <1>5, <2>3
<1> HIDE DEF made
<1> QED
  BY <1>1, <1>6, <1>7, <1>8 DEF made

\* The body is what is asked for.
LEMMA BodyOfItsTarget ==
    ASSUME TypeOK, body \in Bodies(target, path), path \in Seq(Range(path))
    PROVE  BodyIsAsAsked
<1> DEFINE linkages == Linkages(Method(target), path)
           made == Relationships(target.rels, linkages)
<1>1. IsFiniteSet(target.rels)
  BY CasesAssumption DEF TypeOK
<1>2. \/ target.input /\ body = RawBody
      \/ ~target.input /\ target.rels = {} /\ body = NoBody
      \/ /\ ~target.input /\ Accepted(target.rels, linkages)
         /\ body = [type |-> BodyType(target, path), relationships |-> made]
  BY DEF Bodies
<1> HIDE DEF linkages, made
<1>3. \/ target.input /\ body.type = "raw"
      \/ ~target.input /\ target.rels = {} /\ body.type = None /\ body.relationships = {}
      \/ /\ ~target.input /\ Accepted(target.rels, linkages)
         /\ body.type = BodyType(target, path) /\ body.relationships = made
  BY <1>2 DEF RawBody, NoBody
<1>4. ASSUME ~target.input
      PROVE  /\ {<<r.name, r.ids>> : r \in target.rels} =
                    {<<b.name, b.ids>> : b \in body.relationships}
             /\ Cardinality(body.relationships) = Cardinality(target.rels)
             /\ \A r \in target.rels, b \in body.relationships :
                   r.name = b.name =>
                       b.type = r.type \/
                       (r.type = None /\ b.type \in linkages[r.name].types)
  <2>1. CASE target.rels = {} /\ body.relationships = {}
    BY <2>1
  <2>2. CASE Accepted(target.rels, linkages) /\ body.relationships = made
    BY <1>1, <2>2, AcceptedRelationships DEF made
  <2> QED
    BY <1>3, <1>4, <2>1, <2>2
<1>5. ASSUME target.type = None, body.type # "raw", Len(path) > 1,
             Last(path) \notin Plural, path[Len(path) - 1] \in Plural
      PROVE  body.type \in {None, path[Len(path) - 1]}
  <2>1. InferResourceType(path) = path[Len(path) - 1]
    <3>1. Len(path) >= 2 /\ path # <<>>
      BY <1>5, LenProperties
    <3> QED
      BY <1>5, <3>1 DEF InferResourceType
  <2>2. BodyType(target, path) = path[Len(path) - 1]
    BY <1>5, <2>1 DEF BodyType, OrElse
  <2> QED
    BY <1>3, <1>5, <2>2
<1> QED
  BY <1>4, <1>5 DEF BodyIsAsAsked, linkages

\* A placeholder that has been filled in: its segment, its place in the path and what
\* it stands for.
LEMMA FilledIn ==
    ASSUME TypeOK, target.verb = "api", target.path \in Seq(STRING),
           Looked, pending = {}, path = Substitute(target.path, params), PathIsResolved,
           NEW i \in DOMAIN path, target.path[i] \in Placeholders
    PROVE  LET p       == target.path[i]
               segment == Before(target.path, p)
               named   == IF p \in DOMAIN target.given THEN target.given[p]
                          ELSE IF segment = "organizations" THEN ContextOrg(target)
                          ELSE FindCloudConfig(target.blocks).workspace
           IN  /\ p \in DOMAIN AutoFill(target) /\ AutoFill(target)[p] = named
               /\ segment = "workspaces" /\ p \notin DOMAIN target.given
                  => named = FindCloudConfig(target.blocks).workspace
               /\ IF IsResolvable(segment) /\ ~LooksLikeID(segment, named)
                  THEN path[i] = IDOf(LookupOrg(target), segment, named) /\ path[i] # None
                  ELSE path[i] = named
<1> DEFINE p       == target.path[i]
           segment == Before(target.path, p)
           config  == FindCloudConfig(target.blocks).workspace
           named   == IF p \in DOMAIN target.given THEN target.given[p]
                      ELSE IF segment = "organizations" THEN ContextOrg(target)
                      ELSE config
<1>1. /\ DOMAIN path = DOMAIN target.path
      /\ path[i] = IF p \in DOMAIN params THEN params[p] ELSE p
  BY SubstituteIsPath
<1>2. p \in DOMAIN params
  <2>1. CASE path[i] = p
    <3>1. p \in Params(path)
      BY <2>1 DEF Params, Range
    <3> QED
      BY <3>1 DEF PathIsResolved
  <2> QED
    BY <1>1, <2>1
<1>3. p \in DOMAIN AutoFill(target) /\ path[i] = params[p]
  BY <1>1, <1>2 DEF Looked
<1>4. /\ AutoFill(target)[p] = OrElse(Given(target, p), FromContext(target, p))
      /\ AutoFill(target)[p] # None
  BY <1>3 DEF AutoFill
<1>5. p \in DOMAIN target.given => target.given[p] # None
  <2>1. None \notin Range(target.given)
    BY CasesAssumption DEF TypeOK
  <2> QED
    BY <2>1 DEF Range
<1>6. AutoFill(target)[p] = named
  <2>1. CASE p \in DOMAIN target.given
    BY <1>4, <1>5, <2>1 DEF OrElse, Given
  <2>2. CASE p \notin DOMAIN target.given
    <3>1. AutoFill(target)[p] = FromContext(target, p) /\ FromContext(target, p) # None
      BY <1>4, <2>2 DEF OrElse, Given
    <3>2. CASE segment = "organizations"
      BY <2>2, <3>1, <3>2 DEF FromContext
    <3>3. CASE segment = "workspaces"
      BY <2>2, <3>1, <3>3 DEF FromContext
    <3>4. CASE segment # "organizations" /\ segment # "workspaces"
      BY <3>1, <3>4 DEF FromContext
    <3> QED
      BY <3>2, <3>3, <3>4
  <2> QED
    BY <2>1, <2>2
<1>7. segment = "workspaces" /\ p \notin DOMAIN target.given => named = config
  OBVIOUS
<1> HIDE DEF named, segment
<1>8. p \in Lookups(target) <=> IsResolvable(segment) /\ ~LooksLikeID(segment, named)
  BY <1>3, <1>6 DEF Lookups, segment
<1>9. IF p \in Lookups(target)
      THEN path[i] = IDOf(LookupOrg(target), segment, named) /\ path[i] # None
      ELSE path[i] = named
  BY <1>2, <1>3, <1>6 DEF Looked, segment
<1> QED
  BY <1>3, <1>6, <1>7, <1>8, <1>9 DEF named, segment

\* Names keep their organization.
LEMMA NamesOfTheirOrganization ==
    ASSUME TypeOK, target.verb = "api", target.path \in Seq(STRING),
           Looked, pending = {}, path = Substitute(target.path, params), PathIsResolved
    PROVE  NamesKeepTheirOrganization /\ ConfiguredWorkspace
<1> DEFINE Segment(i) == Before(target.path, target.path[i])
           Named(i) == IF target.path[i] \in DOMAIN target.given THEN target.given[target.path[i]]
                       ELSE IF Segment(i) = "organizations" THEN ContextOrg(target)
                       ELSE FindCloudConfig(target.blocks).workspace
           orgs == {path[j] : j \in {j \in DOMAIN path : Filled(j) /\ Segment(j) = "organizations"}}
           inPath == {p \in DOMAIN AutoFill(target) : Before(target.path, p) = "organizations"}
<1>1. ASSUME NEW i \in DOMAIN path, Filled(i)
      PROVE  /\ target.path[i] \in DOMAIN AutoFill(target)
             /\ AutoFill(target)[target.path[i]] = Named(i)
             /\ Segment(i) = "workspaces" /\ target.path[i] \notin DOMAIN target.given
                => Named(i) = FindCloudConfig(target.blocks).workspace
             /\ IF IsResolvable(Segment(i)) /\ ~LooksLikeID(Segment(i), Named(i))
                THEN path[i] = IDOf(LookupOrg(target), Segment(i), Named(i)) /\ path[i] # None
                ELSE path[i] = Named(i)
  <2>1. target.path[i] \in Placeholders
    BY <1>1 DEF Filled
  <2> QED
    BY <2>1, FilledIn
<1>2. ~IsResolvable("organizations")
  BY ResourcesAssumption DEF IsResolvable
<1>3. LookupOrg(target) \in IF orgs = {} THEN {ContextOrg(target)} ELSE orgs
  <2>1. CASE inPath = {}
    <3>1. orgs = {}
      BY <1>1, <2>1
    <3>2. LookupOrg(target) = ContextOrg(target)
      BY <2>1 DEF LookupOrg
    <3> QED
      BY <3>1, <3>2
  <2>2. CASE inPath # {}
    <3>1. PICK p \in inPath : LookupOrg(target) = AutoFill(target)[p]
      BY <2>2 DEF LookupOrg
    <3>2. p \in Range(target.path) /\ p \in Placeholders
      BY DEF AutoFill, Params
    <3>3. DOMAIN path = DOMAIN target.path
      BY SubstituteIsPath
    <3>4. PICK j \in DOMAIN path : target.path[j] = p
      BY <3>2, <3>3 DEF Range
    <3>5. Filled(j) /\ Segment(j) = "organizations"
      BY <3>2, <3>4 DEF Filled
    <3>6. path[j] = Named(j) /\ AutoFill(target)[p] = Named(j)
      BY <1>1, <1>2, <3>4, <3>5
    <3> HIDE DEF Named
    <3>7. LookupOrg(target) \in orgs
      BY <3>1, <3>5, <3>6
    <3> QED
      BY <3>7
  <2> QED
    BY <2>1, <2>2
<1> HIDE DEF Named
<1>4. NamesKeepTheirOrganization
  <2> SUFFICES ASSUME NEW i \in DOMAIN path, Filled(i)
               PROVE  IF IsResolvable(Segment(i)) /\ ~LooksLikeID(Segment(i), Named(i))
                      THEN \E o \in IF orgs = {} THEN {ContextOrg(target)} ELSE orgs :
                              path[i] = IDOf(o, Segment(i), Named(i)) /\ path[i] # None
                      ELSE path[i] = Named(i)
    BY DEF NamesKeepTheirOrganization, Named
  <2> HIDE DEF orgs, Segment
  <2> QED
    BY <1>1, <1>3
<1>5. ConfiguredWorkspace
  <2> SUFFICES ASSUME NEW i \in DOMAIN path, Filled(i), Segment(i) = "workspaces",
                      target.path[i] \notin DOMAIN target.given,
                      LookupOrg(target) = FindCloudConfig(target.blocks).organization
               PROVE  path[i] \in {FindCloudConfig(target.blocks).workspace,
                                   IDOf(FindCloudConfig(target.blocks).organization, "workspaces",
                                        FindCloudConfig(target.blocks).workspace)}
    BY DEF ConfiguredWorkspace
  <2>1. Named(i) = FindCloudConfig(target.blocks).workspace
    BY <1>1
  <2>2. path[i] = IDOf(LookupOrg(target), Segment(i), Named(i)) \/ path[i] = Named(i)
    BY <1>1
  <2> HIDE DEF Segment
  <2> QED
    BY <2>1, <2>2
<1> QED
  BY <1>4, <1>5

LEMMA NamedAtTheGate ==
    TypeOK /\ TargetInv => RequestIsAsNamed
<1> SUFFICES ASSUME TypeOK, TargetInv, pc = "gate"
             PROVE  /\ PathIsResolved /\ NamesKeepTheirOrganization /\ ConfiguredWorkspace
                    /\ ClassIsTheType /\ BodyIsAsAsked
  BY DEF RequestIsAsNamed
<1>1. /\ path \in Seq(Range(path)) /\ PathIsResolved /\ body \in Bodies(target, path)
      /\ target.verb = "api" =>
            \/ path = target.path
            \/ Looked /\ pending = {} /\ path = Substitute(target.path, params)
  BY DEF TargetInv
<1>2. target.path \in Seq(STRING)
  BY CasesAssumption DEF TypeOK
<1>3. NamesKeepTheirOrganization /\ ConfiguredWorkspace
  <2>1. CASE target.verb # "api" \/ path = target.path
    <3>1. \A i \in DOMAIN path : ~Filled(i)
      <4> SUFFICES ASSUME NEW i \in DOMAIN path, Filled(i), target.verb = "api"
                   PROVE  FALSE
        BY DEF Filled
      <4>1. target.path[i] \in Params(path)
        BY <2>1 DEF Filled, Params, Range
      <4> QED
        BY <1>1, <4>1 DEF PathIsResolved
    <3> QED
      BY <3>1 DEF NamesKeepTheirOrganization, ConfiguredWorkspace
  <2>2. CASE target.verb = "api" /\ path # target.path
    BY <1>1, <1>2, <2>2, NamesOfTheirOrganization
  <2> QED
    BY <2>1, <2>2
<1> QED
  BY <1>1, <1>3, ClassOfItsPlace, BodyOfItsTarget

LEMMA FillLooks ==
    TypeOK /\ Fill => TargetInv'
<1> SUFFICES ASSUME TypeOK, Fill PROVE TargetInv'
  OBVIOUS
<1>1. /\ params' = AutoFill(target) /\ pending' = Lookups(target) /\ pc' = "resolve"
      /\ target.verb = "api" /\ target' = target
  BY DEF Fill, Goto
<1>2. Looked'
  BY <1>1 DEF Looked
<1> QED
  BY <1>1, <1>2 DEF TargetInv

LEMMA ResolveLooks ==
    TypeOK /\ TargetInv /\ Resolve => TargetInv'
<1> SUFFICES ASSUME TypeOK, TargetInv, Resolve PROVE TargetInv'
  OBVIOUS
<1>1. pc = "resolve" /\ target' = target /\ target.verb = "api" /\ Looked
  BY DEF Resolve, TargetInv
<1> DEFINE IdOf(q) == IDOf(LookupOrg(target), Before(target.path, q), params[q])
<1>2. PICK p \in pending :
        /\ params' = [params EXCEPT ![p] = IdOf(p)]
        /\ IF IdOf(p) = None THEN Fail ELSE Goto("resolve")
        /\ pending' = pending \ {p}
  BY DEF Resolve
<1>3. CASE IdOf(p) = None
  <2>1. Fails
    BY <1>2, <1>3, Failures
  <2> QED
    BY <2>1 DEF Fails, TargetInv
<1>4. CASE IdOf(p) # None
  <2>1. pc' = "resolve"
    BY <1>2, <1>4 DEF Goto
  <2>2. p \in Lookups(target) /\ p \in DOMAIN params /\ params[p] = AutoFill(target)[p]
    BY <1>1 DEF Looked, Lookups
  <2> HIDE DEF IdOf
  <2>3. /\ DOMAIN params' = DOMAIN params /\ params'[p] = IdOf(p)
        /\ \A q \in DOMAIN params : q # p => params'[q] = params[q]
    BY <1>2, <2>2
  <2>4. IdOf(p) = IDOf(LookupOrg(target), Before(target.path, p), AutoFill(target)[p])
    BY <2>2 DEF IdOf
  <2>5. \A q \in DOMAIN params :
           IF q \in Lookups(target) \ pending'
           THEN /\ params'[q] = IDOf(LookupOrg(target), Before(target.path, q), AutoFill(target)[q])
                /\ params'[q] # None
           ELSE params'[q] = AutoFill(target)[q]
    <3> SUFFICES ASSUME NEW q \in DOMAIN params
                 PROVE  IF q \in Lookups(target) \ pending'
                        THEN /\ params'[q] = IDOf(LookupOrg(target), Before(target.path, q),
                                                  AutoFill(target)[q])
                             /\ params'[q] # None
                        ELSE params'[q] = AutoFill(target)[q]
      OBVIOUS
    <3>1. CASE q = p
      BY <1>2, <1>4, <2>2, <2>3, <2>4, <3>1
    <3>2. CASE q # p
      BY <1>1, <1>2, <2>3, <3>2 DEF Looked
    <3> QED
      BY <3>1, <3>2
  <2>6. Looked'
    BY <1>1, <1>2, <2>3, <2>5 DEF Looked
  <2> QED
    BY <1>1, <2>1, <2>6 DEF TargetInv
<1> QED
  BY <1>3, <1>4

LEMMA PathsAreMadeOut ==
    TypeOK /\ TargetInv /\ (Locate \/ LocateLiteral \/ Resolved) => TargetInv'
<1> SUFFICES ASSUME TypeOK, TargetInv, Locate \/ LocateLiteral \/ Resolved PROVE TargetInv'
  OBVIOUS
<1>1. CASE pc' = "exited"
  BY <1>1 DEF TargetInv
<1>2. CASE pc' = "build"
  <2>1. target' = target /\ params' = params /\ pending' = pending
    BY DEF Locate, LocateLiteral, Resolved
  <2>2. target.path \in Seq(STRING)
    BY CasesAssumption DEF TypeOK
  <2>3. CASE Locate
    <3>1. /\ target.verb # "api" /\ path' # None
          /\ path' = IF target.verb = "get" THEN GetPath(target) ELSE CreatePath(target)
      BY <1>2, <2>3 DEF Locate, Fail, Exit
    <3>2. /\ path' \in Seq(Range(path'))
          /\ Params(path') \subseteq IF target.verb = "get" THEN {OrganizationName} ELSE {}
      BY <3>1, LocatedPath
    <3> QED
      BY <1>2, <2>1, <3>1, <3>2 DEF TargetInv, PathIsResolved
  <2>4. CASE LocateLiteral
    <3>1. path' = target.path /\ Params(target.path) = {}
      BY <2>4 DEF LocateLiteral
    <3>2. path' \in Seq(Range(path'))
      BY <2>2, <3>1, SeqOfItsRange
    <3> QED
      BY <1>2, <2>1, <3>1, <3>2 DEF TargetInv, PathIsResolved
  <2>5. CASE Resolved
    <3>1. /\ path' = Substitute(target.path, params) /\ Params(path') = {}
          /\ pending = {} /\ pc = "resolve"
      BY <1>2, <2>5 DEF Resolved, Fail, Exit
    <3>2. Substitute(target.path, params) \in Seq(Range(Substitute(target.path, params)))
      BY <2>2, SubstituteIsPath
    <3>3. target.verb = "api" /\ Looked
      BY <3>1 DEF TargetInv
    <3>4. Looked'
      BY <2>1, <3>3 DEF Looked
    <3> QED
      BY <1>2, <2>1, <3>1, <3>2, <3>3, <3>4 DEF TargetInv, PathIsResolved
  <2> QED
    BY <2>3, <2>4, <2>5
<1> QED
  BY <1>1, <1>2 DEF Locate, LocateLiteral, Resolved, Fail, Exit, Goto

LEMMA TargetIsKept ==
    TypeOK /\ TargetInv /\ [Next]_vars => TargetInv'
<1> SUFFICES ASSUME TypeOK, TargetInv, [Next]_vars PROVE TargetInv'
  OBVIOUS
<1>1. ASSUME UNCHANGED request, pc' = pc \/ pc' \in {"first", "page", "show", "exited"}
      PROVE  TargetInv'
  BY <1>1 DEF TargetInv, Looked, PathIsResolved, request
<1> USE DEF Goto, Exit
<1>2. CASE Build
  <2>1. /\ pc = "build" /\ UNCHANGED <<target, params, pending, path>>
        /\ (pc' = "gate" /\ body' \in Bodies(target, path)) \/ pc' = "exited"
    BY <1>2 DEF Build, Fail
  <2> QED
    BY <2>1 DEF TargetInv, Looked, PathIsResolved
<1>3. CASE InsertRecord \/ RemoveRecord \/ Signal \/ UNCHANGED vars
  <2>1. UNCHANGED request /\ pc' = pc
    BY <1>3 DEF InsertRecord, RemoveRecord, Signal, vars
  <2> QED
    BY <1>1, <2>1
<1>4. CASE Act \/ FirstPage \/ Paginate
  <2>1. UNCHANGED request /\ (pc' = pc \/ pc' \in {"first", "page", "show", "exited"})
    BY <1>4 DEF Act, FirstPage, Paginate, Receive
  <2> QED
    BY <1>1, <2>1
<1>5. CASE Refused \/ Busy \/ PageRefused \/ Answered
  <2>1. UNCHANGED request /\ (pc' = pc \/ pc' \in {"first", "page", "show", "exited"})
    BY <1>5, Failures DEF Refused, Busy, PageRefused, Answered, Fails
  <2> QED
    BY <1>1, <2>1
<1>6. CASE Abort \/ Gate \/ ShowNothing \/ ShowRaw \/ Display \/ DisplayFails
  <2>1. UNCHANGED request /\ (pc' = pc \/ pc' \in {"first", "page", "show", "exited"})
    BY <1>6, Failures DEF Abort, Gate, ShowNothing, ShowRaw, Display, DisplayFails, Fails
  <2> QED
    BY <1>1, <2>1
<1> QED
  BY <1>2, <1>3, <1>4, <1>5, <1>6, FillLooks, ResolveLooks, PathsAreMadeOut DEF Next, Answer, Own

\* What is sent is what was named: the path's placeholders stand for what -p or the
\* surroundings give, names become ids of their organization, a delete is granted for
\* the type of the id unless --type gives another, and the body has the relationships
\* that were asked for.
THEOREM RequestsGoWhereNamed ==
    Spec => []RequestIsAsNamed
<1>1. Init => TargetInv
  BY DEF Init, TargetInv
<1>2. TypeOK /\ SentInv /\ TargetInv /\ [Next]_vars => TypeOK' /\ SentInv' /\ TargetInv'
  BY TypesAreKept, SentIsKept, TargetIsKept
<1> QED
  BY Started, <1>1, <1>2, NamedAtTheGate, PTL DEF Spec
=============================================================================
