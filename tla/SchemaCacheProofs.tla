-------------------------- MODULE SchemaCacheProofs --------------------------
(***************************************************************************)
(* Proofs about SchemaCache, for any processes, any number of documents     *)
(* that the host publishes, and whatever a search retrieves.                *)
(***************************************************************************)
EXTENDS SchemaCache, TLAPS, WellFoundedInduction, FiniteSetTheorems

\* The types that the proofs need; the document on the host is never the embedded one.
Types ==
    /\ published \in 1..Versions
    /\ file \in [data : Documents \cup {Torn, Nothing}, mtime : Nat]
    /\ pc \in [Procs -> {"start", "parse", "answer", "collect", "ended"} \cup Loading]
    /\ seen \in [Procs -> Nat] /\ stamp \in [Procs -> Nat]
    /\ data \in [Procs -> Documents \cup {Torn, Nothing}]
    /\ served \in [Procs -> Documents \cup {Nothing}]
    /\ current \in [Procs -> Documents \cup {Nothing}]
    /\ alone \in [Procs -> BOOLEAN] /\ disturbed \in BOOLEAN
    /\ cause \in [Procs -> {"none", "failure", "disturbance"}]

\* A file as a load that was written and timed has left it.
Timed(f) == f.data \in 1..published /\ f.mtime = Stamp(f.data)
Good(f)  == f = Absent \/ Timed(f)

\* A load that is alone has the file to itself.
AloneInv == \A p \in Procs :
    alone[p] /\ pc[p] \in Loading => \A q \in Procs \ {p} : pc[q] \notin Loading

\* A document received goes with its own time or with none; what is no document goes
\* with any.
StampInv == \A p \in Procs :
    /\ pc[p] \in Writing =>
         \/ stamp[p] = NoTime
         \/ data[p] = Torn
         \/ data[p] \in 1..published /\ stamp[p] = Stamp(data[p])
    /\ pc[p] = "stamp" => stamp[p] # NoTime

\* Until a disturbance the file is in order, but for the one that is writing it.
FileInv ==
    ~disturbed =>
        /\ (\A p \in Procs : pc[p] \notin {"fill", "stamp"}) => Good(file)
        /\ \A p, q \in Procs : pc[p] \in {"fill", "stamp"} /\ pc[q] \in {"fill", "stamp"} => p = q
        /\ \A p \in Procs : pc[p] = "stamp" => file.data = data[p]

\* What a load that is alone has found or written stays there.
OwnInv == \A p \in Procs : alone[p] =>
    /\ pc[p] = "stamp" => file.data = data[p]
    /\ pc[p] \in {"check", "read"} => seen[p] = file.mtime
    /\ pc[p] = "read" /\ ~disturbed => file.data = current[p]

\* What is going to be served, unless there is a cause.
CurrentInv == \A p \in Procs :
    /\ pc[p] \in {"read", "parse"} \cup Writing => current[p] \in Documents
    /\ pc[p] \in {"parse"} \cup Writing /\ cause[p] = "none" => data[p] = current[p]
    /\ pc[p] = "answer" /\ cause[p] = "none" => served[p] = current[p]

Inv == Types /\ AloneInv /\ StampInv /\ FileInv /\ OwnInv /\ CurrentInv

-----------------------------------------------------------------------------
\* The document that is published, times, and what is no document.
LEMMA Facts ==
    ASSUME Types
    PROVE  /\ published \in Documents /\ Embedded \in Documents
           /\ Torn \notin Documents /\ Nothing \notin Documents
           /\ NoTime \in Nat /\ Stamp(published) \in Nat /\ Now \in Nat
<1>1. Versions \in Nat /\ published \in Nat /\ published <= Versions
  BY DocumentsAssumption DEF Types
<1>2. published \in Documents /\ Embedded \in Documents
  BY <1>1 DEF Documents, Embedded
<1>3. Torn \notin Documents /\ Nothing \notin Documents
  BY <1>1 DEF Documents, Torn, Nothing
<1>4. NoTime \in Nat /\ Stamp(published) \in Nat /\ Now \in Nat
  BY <1>1 DEF NoTime, Stamp, Now
<1> QED
  BY <1>2, <1>3, <1>4

\* The host's comparison of times compares documents.
LEMMA TimesTell ==
    ASSUME Types, NEW n \in 1..published, Stamp(n) >= Stamp(published)
    PROVE  n = published
  BY DocumentsAssumption DEF Types, Stamp

LEMMA PublishStep ==
    ASSUME Inv, Publish
    PROVE  Inv'
<1> USE DEF Publish, process, history, command, Goto, Loading, Writing
<1> USE Facts DEF Inv
<1>1. Types'
  <2>1. Versions \in Nat /\ published \in 1..Versions
    BY DocumentsAssumption DEF Types
  <2>2. published' \in 1..Versions
    BY <2>1
  <2> QED
    BY <2>2 DEF Types
<1>2. AloneInv'
  BY DEF Types, AloneInv
<1>3. StampInv'
  BY DEF Types, StampInv
<1>4. FileInv'
  BY DEF Types, FileInv, AloneInv, OwnInv, Good, Timed
<1>5. OwnInv'
  BY DEF Types, OwnInv, AloneInv, FileInv
<1>6. CurrentInv'
  BY DEF Types, CurrentInv
<1> QED
  BY <1>1, <1>2, <1>3, <1>4, <1>5, <1>6 DEF Inv

\* Whatever fails, the embedded document is served, for that cause.
LEMMA FailingStep ==
    ASSUME Inv, NEW p \in Procs, NoLoader(p) \/ CheckFails(p) \/ ReadFails(p)
    PROVE  Inv'
<1> USE DEF NoLoader, CheckFails, ReadFails, FallBack, Serve, process, history, command, Goto, Loading, Writing
<1> USE Facts DEF Inv
<1>1. Types'
  BY DEF Types
<1>2. AloneInv'
  BY DEF Types, AloneInv
<1>3. StampInv'
  BY DEF Types, StampInv
<1>4. FileInv'
  BY DEF Types, FileInv, AloneInv, OwnInv, Good, Timed
<1>5. OwnInv'
  BY DEF Types, OwnInv, AloneInv, FileInv
<1>6. CurrentInv'
  BY DEF Types, CurrentInv
<1> QED
  BY <1>1, <1>2, <1>3, <1>4, <1>5, <1>6 DEF Inv

\* A load that begins ends the solitude of those under way.
LEMMA StatStep ==
    ASSUME Inv, NEW p \in Procs, Stat(p)
    PROVE  Inv'
<1> USE DEF Stat, Overlapping, process, history, command, Goto, Loading, Writing
<1> USE Facts DEF Inv
<1>1. Types'
  BY DEF Types
<1>2. AloneInv'
  BY DEF Types, AloneInv
<1>3. StampInv'
  BY DEF Types, StampInv
<1>4. FileInv'
  BY DEF Types, FileInv, AloneInv, OwnInv, Good, Timed
<1>5. OwnInv'
  BY DEF Types, OwnInv, AloneInv, FileInv
<1>6. CurrentInv'
  BY DEF Types, CurrentInv
<1> QED
  BY <1>1, <1>2, <1>3, <1>4, <1>5, <1>6 DEF Inv

LEMMA NotModifiedStep ==
    ASSUME Inv, NEW p \in Procs, NotModified(p)
    PROVE  Inv'
<1> USE DEF NotModified, process, history, command, Goto, Loading, Writing
<1> USE Facts DEF Inv
<1>1. Types'
  BY DEF Types
<1>2. AloneInv'
  BY DEF Types, AloneInv
<1>3. StampInv'
  BY DEF Types, StampInv
<1>4. FileInv'
  BY DEF Types, FileInv, AloneInv, OwnInv, Good, Timed
<1>5. OwnInv'
  <2>1. ASSUME alone[p], ~disturbed PROVE file.data = current'[p]
    <3>1. seen[p] = file.mtime /\ current'[p] = published
      BY <2>1 DEF OwnInv, Types
    <3>2. \A q \in Procs : pc[q] \notin {"fill", "stamp"}
      BY <2>1 DEF AloneInv
    <3>3. Good(file)
      BY <2>1, <3>2 DEF FileInv
    <3>4. Timed(file)
      BY <3>1, <3>3 DEF Good, Absent
    <3> QED
      BY <3>1, <3>4, TimesTell DEF Timed, Types
  <2> QED
    BY <2>1 DEF Types, OwnInv
<1>6. CurrentInv'
  BY DEF Types, CurrentInv
<1> QED
  BY <1>1, <1>2, <1>3, <1>4, <1>5, <1>6 DEF Inv

LEMMA ModifiedStep ==
    ASSUME Inv, NEW p \in Procs, Modified(p)
    PROVE  Inv'
<1> USE DEF Modified, process, history, command, Goto, Loading, Writing
<1> USE Facts DEF Inv
<1>1. Types'
  <2>1. \A n \in Documents : Stamp(n) \in Nat
    BY DocumentsAssumption DEF Documents, Stamp
  <2>2. PICK t \in Nat : stamp' = [stamp EXCEPT ![p] = t]
    BY <2>1
  <2> QED
    BY <2>2 DEF Types
<1>2. AloneInv'
  BY DEF Types, AloneInv
<1>3. StampInv'
  BY DEF Types, StampInv
<1>4. FileInv'
  BY DEF Types, FileInv, AloneInv, OwnInv, Good, Timed
<1>5. OwnInv'
  BY DEF Types, OwnInv, AloneInv, FileInv
<1>6. CurrentInv'
  BY DEF Types, CurrentInv
<1> QED
  BY <1>1, <1>2, <1>3, <1>4, <1>5, <1>6 DEF Inv

LEMMA ReadStep ==
    ASSUME Inv, NEW p \in Procs, Read(p)
    PROVE  Inv'
<1> USE DEF Read, process, history, command, Goto, Loading, Writing
<1> USE Facts DEF Inv
<1>1. Types'
  BY DEF Types
<1>2. AloneInv'
  BY DEF Types, AloneInv
<1>3. StampInv'
  BY DEF Types, StampInv
<1>4. FileInv'
  BY DEF Types, FileInv, AloneInv, OwnInv, Good, Timed
<1>5. OwnInv'
  BY DEF Types, OwnInv, AloneInv, FileInv
<1>6. CurrentInv'
  <2>1. CASE disturbed \/ ~alone[p]
    <3>1. cause'[p] = "disturbance"
      BY <2>1 DEF Types
    <3> QED
      BY <3>1 DEF Types, CurrentInv
  <2>2. CASE ~disturbed /\ alone[p]
    <3>1. data'[p] = current[p] /\ current' = current
      BY <2>2 DEF Types, OwnInv
    <3>2. current[p] \in Documents
      BY DEF CurrentInv
    <3> QED
      BY <3>1, <3>2 DEF Types, CurrentInv
  <2> QED
    BY <2>1, <2>2
<1> QED
  BY <1>1, <1>2, <1>3, <1>4, <1>5, <1>6 DEF Inv

LEMMA TruncateStep ==
    ASSUME Inv, NEW p \in Procs, Truncate(p)
    PROVE  Inv'
<1> USE DEF Truncate, process, history, command, Goto, Loading, Writing
<1> USE Facts DEF Inv
<1>1. Types'
  BY DEF Types
<1>2. AloneInv'
  BY DEF Types, AloneInv
<1>3. StampInv'
  BY DEF Types, StampInv
<1>4. FileInv'
  <2> SUFFICES ASSUME ~disturbed, alone[p] PROVE FileInv'
    BY DEF FileInv, Types
  <2>1. \A q \in Procs \ {p} : pc[q] \notin Loading
    BY DEF AloneInv
  <2>2. pc'[p] = "fill" /\ \A q \in Procs \ {p} : pc'[q] = pc[q]
    BY DEF Types
  <2> QED
    BY <2>1, <2>2 DEF FileInv
<1>5. OwnInv'
  BY DEF Types, OwnInv, AloneInv, FileInv
<1>6. CurrentInv'
  BY DEF Types, CurrentInv
<1> QED
  BY <1>1, <1>2, <1>3, <1>4, <1>5, <1>6 DEF Inv

LEMMA FillStep ==
    ASSUME Inv, NEW p \in Procs, Fill(p)
    PROVE  Inv'
<1> USE DEF Fill, process, history, command, Goto, Loading, Writing
<1> USE Facts DEF Inv
<1>1. Types'
  BY DEF Types
<1>2. AloneInv'
  BY DEF Types, AloneInv
<1>3. StampInv'
  BY DEF Types, StampInv
<1>4. FileInv'
  <2> SUFFICES ASSUME ~disturbed, alone[p], stamp[p] # NoTime PROVE FileInv'
    BY DEF FileInv, Types
  <2>1. \A q \in Procs \ {p} : pc[q] \notin Loading
    BY DEF AloneInv
  <2>2. pc'[p] = "stamp" /\ \A q \in Procs \ {p} : pc'[q] = pc[q]
    BY DEF Types
  <2>3. file'.data = data[p] /\ data' = data
    OBVIOUS
  <2> QED
    BY <2>1, <2>2, <2>3 DEF FileInv
<1>5. OwnInv'
  BY DEF Types, OwnInv, AloneInv, FileInv
<1>6. CurrentInv'
  BY DEF Types, CurrentInv
<1> QED
  BY <1>1, <1>2, <1>3, <1>4, <1>5, <1>6 DEF Inv

LEMMA SetTimeStep ==
    ASSUME Inv, NEW p \in Procs, SetTime(p)
    PROVE  Inv'
<1> USE DEF SetTime, process, history, command, Goto, Loading, Writing
<1> USE Facts DEF Inv
<1>1. Types'
  BY DEF Types
<1>2. AloneInv'
  BY DEF Types, AloneInv
<1>3. StampInv'
  BY DEF Types, StampInv
<1>4. FileInv'
  <2> SUFFICES ASSUME ~(disturbed /\ ~alone[p]), data[p] \in Documents PROVE FileInv'
    BY DEF FileInv, Types
  <2>1. \A q \in Procs \ {p} : pc[q] \notin {"fill", "stamp"}
    BY DEF AloneInv, FileInv, Types
  <2>2. pc'[p] = "parse" /\ \A q \in Procs \ {p} : pc'[q] = pc[q]
    BY DEF Types
  <2>3. file'.data = data[p] /\ file'.mtime = stamp[p] /\ published' = published
    BY DEF Types, FileInv, OwnInv
  <2>4. Timed(file)'
    BY <2>3 DEF StampInv, Timed
  <2> QED
    BY <2>1, <2>2, <2>4 DEF FileInv, Good
<1>5. OwnInv'
  BY DEF Types, OwnInv, AloneInv, FileInv
<1>6. CurrentInv'
  BY DEF Types, CurrentInv
<1> QED
  BY <1>1, <1>2, <1>3, <1>4, <1>5, <1>6 DEF Inv

\* A write that fails disturbs the file once it has been truncated.
LEMMA WriteFailsStep ==
    ASSUME Inv, NEW p \in Procs, WriteFails(p)
    PROVE  Inv'
<1> USE DEF WriteFails, FallBack, Serve, process, history, command, Goto, Loading, Writing
<1> USE Facts DEF Inv
<1>1. Types'
  BY DEF Types
<1>2. AloneInv'
  BY DEF Types, AloneInv
<1>3. StampInv'
  BY DEF Types, StampInv
<1>4. FileInv'
  <2> SUFFICES ASSUME ~disturbed'
               PROVE  FileInv'
    BY DEF FileInv
  <2>1. ~disturbed /\ pc[p] = "truncate" /\ file' = file /\ published' = published
    BY DEF Types
  <2>2. \A q \in Procs : pc'[q] \in {"fill", "stamp"} <=> pc[q] \in {"fill", "stamp"}
    BY <2>1 DEF Types
  <2>3. \A q \in Procs : pc'[q] = "stamp" => pc[q] = "stamp" /\ data'[q] = data[q]
    BY <2>1 DEF Types
  <2>4. Good(file)' <=> Good(file)
    BY <2>1 DEF Good, Timed
  <2> QED
    BY <2>1, <2>2, <2>3, <2>4, Zenon DEF FileInv
<1>5. OwnInv'
  BY DEF Types, OwnInv, AloneInv, FileInv
<1>6. CurrentInv'
  BY DEF Types, CurrentInv
<1> QED
  BY <1>1, <1>2, <1>3, <1>4, <1>5, <1>6 DEF Inv

\* What the cause does not excuse is a document.
LEMMA ParsingStep ==
    ASSUME Inv, NEW p \in Procs, Parse(p) \/ ParseFails(p)
    PROVE  Inv'
<1> USE DEF Parse, ParseFails, Serve, process, history, command, Goto, Loading, Writing
<1> USE Facts DEF Inv
<1>1. Types'
  BY DEF Types
<1>2. AloneInv'
  BY DEF Types, AloneInv
<1>3. StampInv'
  BY DEF Types, StampInv
<1>4. FileInv'
  BY DEF Types, FileInv, AloneInv, OwnInv, Good, Timed
<1>5. OwnInv'
  BY DEF Types, OwnInv, AloneInv, FileInv
<1>6. CurrentInv'
  BY DEF Types, CurrentInv
<1> QED
  BY <1>1, <1>2, <1>3, <1>4, <1>5, <1>6 DEF Inv

\* The load is over.
LEMMA AnsweringStep ==
    ASSUME Inv, NEW p \in Procs, Search(p) \/ Get(p)
    PROVE  Inv'
<1> USE DEF Search, Get, Loaded, process, history, command, Goto, Loading, Writing
<1> USE Facts DEF Inv
<1>1. Types'
  BY DEF Types
<1>2. AloneInv'
  BY DEF Types, AloneInv
<1>3. StampInv'
  BY DEF Types, StampInv
<1>4. FileInv'
  BY DEF Types, FileInv, AloneInv, OwnInv, Good, Timed
<1>5. OwnInv'
  BY DEF Types, OwnInv, AloneInv, FileInv
<1>6. CurrentInv'
  BY DEF Types, CurrentInv
<1> QED
  BY <1>1, <1>2, <1>3, <1>4, <1>5, <1>6 DEF Inv

\* The answer is put together without the file.
LEMMA PrintingStep ==
    ASSUME Inv, NEW p \in Procs, Collect(p) \/ PrintDocument(p)
    PROVE  Inv'
<1> USE DEF Collect, PrintDocument, process, history, command, Goto, Loading, Writing
<1> USE Facts DEF Inv
<1>1. Types'
  BY DEF Types
<1>2. AloneInv'
  BY DEF Types, AloneInv
<1>3. StampInv'
  BY DEF Types, StampInv
<1>4. FileInv'
  BY DEF Types, FileInv, AloneInv, OwnInv, Good, Timed
<1>5. OwnInv'
  BY DEF Types, OwnInv, AloneInv, FileInv
<1>6. CurrentInv'
  BY DEF Types, CurrentInv
<1> QED
  BY <1>1, <1>2, <1>3, <1>4, <1>5, <1>6 DEF Inv

LEMMA AgainStep ==
    ASSUME Inv, NEW p \in Procs, Again(p)
    PROVE  Inv'
<1> USE DEF Again, Fresh, process, history, command, Goto, Loading, Writing
<1> USE Facts DEF Inv
<1>1. Types'
  BY DEF Types
<1>2. AloneInv'
  BY DEF Types, AloneInv
<1>3. StampInv'
  BY DEF Types, StampInv
<1>4. FileInv'
  BY DEF Types, FileInv, AloneInv, OwnInv, Good, Timed
<1>5. OwnInv'
  BY DEF Types, OwnInv, AloneInv, FileInv
<1>6. CurrentInv'
  BY DEF Types, CurrentInv
<1> QED
  BY <1>1, <1>2, <1>3, <1>4, <1>5, <1>6 DEF Inv

\* So does a kill.
LEMMA KillStep ==
    ASSUME Inv, NEW p \in Procs, Kill(p)
    PROVE  Inv'
<1> USE DEF Kill, Fresh, process, history, command, Goto, Loading, Writing
<1> USE Facts DEF Inv
<1>1. Types'
  BY DEF Types
<1>2. AloneInv'
  BY DEF Types, AloneInv
<1>3. StampInv'
  BY DEF Types, StampInv
<1>4. FileInv'
  <2> SUFFICES ASSUME ~disturbed, pc[p] \notin {"fill", "stamp"} PROVE FileInv'
    BY DEF FileInv, Types
  <2>1. \A q \in Procs : pc'[q] \in {"fill", "stamp"} <=> pc[q] \in {"fill", "stamp"}
    BY DEF Types
  <2>2. \A q \in Procs : pc'[q] = "stamp" => pc[q] = "stamp" /\ data'[q] = data[q]
    BY DEF Types
  <2>3. file' = file /\ published' = published
    OBVIOUS
  <2> QED
    BY <2>1, <2>2, <2>3 DEF FileInv, Good, Timed
<1>5. OwnInv'
  BY DEF Types, OwnInv, AloneInv, FileInv
<1>6. CurrentInv'
  BY DEF Types, CurrentInv
<1> QED
  BY <1>1, <1>2, <1>3, <1>4, <1>5, <1>6 DEF Inv

LEMMA InitInv == Init => Inv
<1> SUFFICES ASSUME Init PROVE Inv
  OBVIOUS
<1> USE DEF Init
<1>1. Types
  <2>1. Versions \in Nat \ {0}
    BY DocumentsAssumption
  <2>2. published \in 1..Versions /\ NoTime \in Nat
    BY <2>1 DEF NoTime
  <2> QED
    BY <2>2 DEF Types, Absent
<1>2. AloneInv /\ StampInv /\ FileInv /\ OwnInv /\ CurrentInv
  BY DEF AloneInv, StampInv, FileInv, OwnInv, CurrentInv, Good, Loading, Writing
<1> QED
  BY <1>1, <1>2 DEF Inv

LEMMA StutterStep == Inv /\ UNCHANGED vars => Inv'
<1> SUFFICES ASSUME Inv, UNCHANGED vars PROVE Inv'
  OBVIOUS
<1> USE DEF vars, process, history, command, Inv
<1>1. Types'
  BY DEF Types
<1>2. AloneInv'
  BY DEF AloneInv
<1>3. StampInv'
  BY DEF StampInv
<1>4. FileInv'
  BY DEF FileInv, Good, Timed
<1>5. OwnInv'
  BY DEF OwnInv
<1>6. CurrentInv'
  BY DEF CurrentInv
<1> QED
  BY <1>1, <1>2, <1>3, <1>4, <1>5, <1>6

LEMMA Invariance == Spec => []Inv
<1>1. Inv /\ [Next]_vars => Inv'
  <2> SUFFICES ASSUME Inv, Next PROVE Inv'
    BY StutterStep
  <2>1. CASE Publish
    BY <2>1, PublishStep
  <2>2. ASSUME NEW p \in Procs, Load(p) PROVE Inv'
    BY <2>2, FailingStep, StatStep, NotModifiedStep, ModifiedStep, ReadStep, TruncateStep,
       FillStep, SetTimeStep, WriteFailsStep, ParsingStep
    DEF Load
  <2>3. ASSUME NEW p \in Procs, Report(p) \/ Again(p) \/ Kill(p) PROVE Inv'
    BY <2>3, AnsweringStep, PrintingStep, AgainStep, KillStep
    DEF Report
  <2> QED
    BY <2>1, <2>2, <2>3 DEF Next
<1> QED
  BY <1>1, InitInv, PTL DEF Spec

-----------------------------------------------------------------------------
\* However many processes share the file, and whenever the host publishes: a load
\* that meets no failure, overlaps with none and finds no file or a document under its
\* own time serves what the host had published when it answered.
THEOREM CurrentIsServed == Spec => []ServesCurrent
<1>1. Inv => ServesCurrent
  BY DEF Inv, CurrentInv, ServesCurrent
<1> QED
  BY <1>1, Invariance, PTL

-----------------------------------------------------------------------------
\* Every nonempty set of natural numbers has a least element.
LEMMA Least ==
    ASSUME NEW T \in SUBSET Nat, T # {}
    PROVE  \E m \in T : \A n \in T : m <= n
<1> DEFINE R == OpToRel(<, Nat)
<1>1. IsWellFoundedOn(R, Nat)
  BY NatLessThanWellFounded
<1>2. \E m \in T : \A n \in T : <<n, m>> \notin R
  <2> HIDE DEF R
  <2> QED
    BY <1>1, WFMin
<1>3. \A m, n \in T : <<n, m>> \notin R => m <= n
  BY DEF OpToRel
<1> QED
  BY <1>2, <1>3

\* The places of the resources' words, and the words.
LEMMA ResourcesOf ==
    ASSUME NEW query \in Queries
    PROVE  /\ DOMAIN Resources(query) \subseteq Nat
           /\ \A i \in DOMAIN Resources(query) : Resources(query)[i] # NoWord
<1>1. query \in Seq(DOMAIN Normal)
  BY SearchAssumption
<1> QED
  BY <1>1 DEF Resources, Tokens

\* A tag is matched if there is one to match.
LEMMA TagIsMatched ==
    ASSUME NEW query \in Queries, NEW o, NEW r \in Range(Resources(query)), r \in TagWords(o)
    PROVE  /\ Matched(Resources(query), o) # NoWord
           /\ Matched(Resources(query), o) \in Range(Resources(query))
<1> DEFINE resources == Resources(query)
           In(words) == {i \in DOMAIN resources : resources[i] \in words}
           S == In(TagWords(o))
           c == CHOOSE i \in S : \A j \in S : i <= j
<1>1. S \in SUBSET Nat /\ S # {}
  BY ResourcesOf DEF Range
<1>2. c \in S
  <2> HIDE DEF S
  <2> QED
    BY <1>1, Least
<1>3. Matched(resources, o) = resources[c]
  BY <1>1 DEF Matched
<1> HIDE DEF c
<1> QED
  BY <1>2, <1>3, ResourcesOf DEF Range

\* A query with one resource has no other.
LEMMA OnlyResource ==
    ASSUME NEW query \in Queries, Cardinality(DOMAIN Resources(query)) = 1, 
           NEW r \in Range(Resources(query)), NEW s \in Range(Resources(query))
    PROVE  r = s
<1>1. IsFiniteSet(DOMAIN Resources(query))
  <2>1. query \in Seq(DOMAIN Normal)
    BY SearchAssumption
  <2>2. Len(query) \in Nat /\ DOMAIN Resources(query) \subseteq 1..Len(query)
    BY <2>1 DEF Resources, Tokens
  <2>3. \A n \in Nat : IsFiniteSet(1..n)
    BY FS_Interval
  <2> QED
    BY <2>2, <2>3, FS_Subset
<1>2. PICK x : DOMAIN Resources(query) = {x}
  BY <1>1, FS_Singleton
<1> QED
  BY <1>2 DEF Range

\* An operation that has a resource among its tags, and is about it, is kept.
LEMMA TaggedIsKept ==
    ASSUME NEW query \in Queries, NEW retrieved, NEW o \in retrieved,
           NEW r \in Range(Resources(query)), r \in TagWords(o), ~Nested(r, o)
    PROVE  o \in Kept(query, retrieved)
<1>1. ResourceKey(Resources(query), o) # NoWord
  <2> DEFINE m == Matched(Resources(query), o)
  <2>1. m # NoWord /\ m \in Range(Resources(query))
    BY TagIsMatched
  <2>2. Cardinality(DOMAIN Resources(query)) = 1 => m = r
    BY <2>1, OnlyResource
  <2> HIDE DEF m
  <2>3. ~(Cardinality(DOMAIN Resources(query)) = 1 /\ m # NoWord /\ Nested(m, o))
    BY <2>2
  <2> QED
    BY <2>1, <2>3 DEF ResourceKey, m
<1> QED
  BY <1>1 DEF Kept, About

\* What is retrieved is not lost, and the best that is about the resource comes first:
\* nothing stands before it, and something before every other one.
LEMMA SearchIsWhole ==
    ASSUME NEW query \in Queries, NEW score \in Retrievals
    PROVE  LET found == Found(query, score)
               retrieved == DOMAIN score
           IN  /\ found = <<>> => retrieved = {}
               /\ \A o \in retrieved :
                    /\ \E r \in Range(Resources(query)) :
                          r \in TagWords(o) /\ ~Nested(r, o)
                    /\ \A q \in retrieved \ {o} : score[q] < score[o]
                    => found # <<>> /\ Head(found) = o
<1> DEFINE found == Found(query, score)
           retrieved == DOMAIN score
           kept == Kept(query, retrieved)
           Before(o) == {q \in kept : \/ score[q] > score[o]
                                      \/ score[q] = score[o] /\ q < o}
           n == IF Limit < Cardinality(kept) THEN Limit ELSE Cardinality(kept)
           Best(i) == CHOOSE o \in kept : Cardinality(Before(o)) = i - 1
<1>1. found = [i \in 1..n |-> Best(i)]
  BY Zenon DEF Found
<1>2. kept \subseteq retrieved /\ (retrieved # {} => kept # {})
  BY DEF Kept, About
<1>3. retrieved \subseteq Nat /\ IsFiniteSet(retrieved) /\ \A o \in retrieved : score[o] \in Nat
  BY SearchAssumption, FS_Subset
<1>4. IsFiniteSet(kept)
  BY <1>2, <1>3, FS_Subset
<1>5. Limit \in Nat \ {0} /\ Cardinality(kept) \in Nat /\ (Cardinality(kept) = 0 => kept = {})
  BY <1>4, SearchAssumption, FS_CardinalityType, FS_EmptySet
<1>6. n \in Nat /\ (kept # {} => n >= 1)
  <2> HIDE DEF kept
  <2> QED
    BY <1>5
<1>7. n >= 1 => found # <<>> /\ Head(found) = Best(1)
  <2> HIDE DEF n, Best
  <2> QED
    BY <1>1, <1>6
<1>8. ASSUME NEW o \in retrieved, NEW r \in Range(Resources(query)), r \in TagWords(o), ~Nested(r, o),
             \A q \in retrieved \ {o} : score[q] < score[o]
      PROVE  found # <<>> /\ Head(found) = o
  <2>1. o \in kept
    BY <1>8, TaggedIsKept
  <2>2. Before(o) = {}
    BY <1>2, <1>3, <1>8
  <2>3. Cardinality(Before(o)) = 0
    BY <2>2, FS_EmptySet
  <2>4. ASSUME NEW p \in kept, Cardinality(Before(p)) = 0
        PROVE  p = o
    <3>1. Before(p) = {}
      <4>1. IsFiniteSet(Before(p))
        BY <1>4, FS_Subset
      <4> HIDE DEF Before
      <4> QED
        BY <2>4, <4>1, FS_EmptySet
    <3>2. p # o => o \in Before(p)
      BY <1>2, <1>3, <1>8, <2>1
    <3> QED
      BY <3>1, <3>2
  <2>5. Best(1) = o
    <3> HIDE DEF kept, Before
    <3>1. 1 - 1 = 0
      OBVIOUS
    <3> QED
      BY <2>1, <2>3, <2>4, <3>1
  <2> QED
    BY <1>6, <1>7, <2>1, <2>5
<1>9. found = <<>> => retrieved = {}
  BY <1>2, <1>6, <1>7
<1> HIDE DEF found
<1> QED
  BY <1>8, <1>9 DEF found

-----------------------------------------------------------------------------
\* What a document that is put together has and still lacks.
Part(p, operations) ==
    LET direct == RefersTo(served[p], operations) \cap Schemas
    IN  /\ todo[p] \cup collected[p] \subseteq Needed(served[p], operations)
        /\ direct \subseteq todo[p] \cup collected[p]
        /\ \A s \in collected[p] : SchemaRefs[served[p]][s] \subseteq todo[p] \cup collected[p]

\* The answer of a process, from its load to its end.
AnswerOf(p) ==
    /\ pc[p] \in {"answer", "collect", "ended"} => served[p] \in Documents
    /\ pc[p] \notin {"collect", "ended"} => todo[p] = {} /\ collected[p] = {}
    /\ pc[p] = "collect" => \E operations \in SUBSET Operations :
         answer[p] = {[operations |-> operations]} /\ Part(p, operations)
    /\ pc[p] = "ended" =>
         \/ \E operations \in SUBSET Operations :
              answer[p] = {[operations |-> operations]} /\ Part(p, operations) /\ todo[p] = {}
         \/ \E query \in Queries, score \in Retrievals : answer[p] = {[query |-> query, score |-> score]}

AnswerInv ==
    /\ todo = [p \in Procs |-> todo[p]] /\ collected = [p \in Procs |-> collected[p]]
    /\ answer = [p \in Procs |-> answer[p]]
    /\ \A p \in Procs : AnswerOf(p)

\* What is needed is the least set that has what the operations refer to and is closed.
LEMMA NeededIsClosed ==
    ASSUME NEW d \in Documents, NEW operations, NEW s \in Needed(d, operations)
    PROVE  SchemaRefs[d][s] \subseteq Needed(d, operations)
<1> DEFINE direct == RefersTo(d, operations) \cap Schemas
           Closed(C) == direct \subseteq C /\ \A x \in C : SchemaRefs[d][x] \subseteq C
<1>1. \A x : x \in Needed(d, operations) <=> x \in Schemas /\ \A C \in SUBSET Schemas : Closed(C) => x \in C
  BY DEF Needed
<1>2. SchemaRefs[d][s] \subseteq Schemas
  BY <1>1, DocumentsAssumption
<1> QED
  BY <1>1, <1>2

LEMMA DirectIsNeeded ==
    ASSUME NEW d \in Documents, NEW operations
    PROVE  RefersTo(d, operations) \cap Schemas \subseteq Needed(d, operations)
BY DEF Needed

LEMMA ClosedHasNeeded ==
    ASSUME NEW d \in Documents, NEW operations, NEW C \in SUBSET Schemas,
           RefersTo(d, operations) \cap Schemas \subseteq C,
           \A s \in C : SchemaRefs[d][s] \subseteq C
    PROVE  Needed(d, operations) \subseteq C
BY DEF Needed

\* A step of another process.
LEMMA Elsewhere ==
    ASSUME NEW q, AnswerOf(q), pc'[q] = pc[q], served'[q] = served[q], todo'[q] = todo[q],
           collected'[q] = collected[q], answer'[q] = answer[q]
    PROVE  AnswerOf(q)'
<1>1. \A operations : Part(q, operations) => Part(q, operations)'
  BY DEF Part
<1> QED
  BY <1>1 DEF AnswerOf

LEMMA GetStep ==
    ASSUME Inv, AnswerInv, NEW p \in Procs, Get(p)
    PROVE  AnswerInv'
<1>1. PICK operations \in SUBSET Operations :
        /\ answer' = [answer EXCEPT ![p] = {[operations |-> operations]}]
        /\ todo' = [todo EXCEPT ![p] = RefersTo(served[p], operations) \cap Schemas]
  <2>1. PICK o \in Operations, wholePath \in BOOLEAN :
          LET asked == IF wholePath THEN {q \in Operations : Path[q] = Path[o]} ELSE {o}
          IN  /\ answer' = [answer EXCEPT ![p] = {[operations |-> asked]}]
              /\ todo' = [todo EXCEPT ![p] = RefersTo(served[p], asked) \cap Schemas]
    BY DEF Get
  <2> QED
    BY <2>1
<1>2. /\ pc[p] = "answer" /\ pc' = [pc EXCEPT ![p] = "collect"]
      /\ UNCHANGED <<collected, served>> /\ served[p] \in Documents /\ collected[p] = {}
  BY DEF Get, Goto, Loaded, AnswerInv, AnswerOf
<1>3. Part(p, operations)'
  <2>1. todo'[p] = RefersTo(served[p], operations) \cap Schemas
    BY <1>1 DEF AnswerInv
  <2> QED
    BY <1>2, <2>1, DirectIsNeeded DEF Part
<1>4. AnswerOf(p)'
  BY <1>1, <1>2, <1>3 DEF AnswerOf, AnswerInv, Inv, Types
<1>5. ASSUME NEW q \in Procs \ {p} PROVE AnswerOf(q)'
  BY <1>1, <1>2, Elsewhere DEF AnswerInv, Inv, Types
<1> QED
  BY <1>1, <1>2, <1>4, <1>5 DEF AnswerInv

LEMMA CollectStep ==
    ASSUME Inv, AnswerInv, NEW p \in Procs, Collect(p)
    PROVE  AnswerInv'
<1>1. PICK s \in todo[p] :
        /\ collected' = [collected EXCEPT ![p] = @ \cup {s}]
        /\ todo' = [todo EXCEPT ![p] =
              (@ \ {s}) \cup (SchemaRefs[served[p]][s] \ (collected[p] \cup {s}))]
  BY DEF Collect
<1>2. pc[p] = "collect" /\ UNCHANGED <<pc, served, answer>> /\ served[p] \in Documents
  BY DEF Collect, AnswerInv, AnswerOf
<1>3. PICK operations \in SUBSET Operations :
        answer[p] = {[operations |-> operations]} /\ Part(p, operations)
  BY <1>2 DEF AnswerInv, AnswerOf
<1>4. Part(p, operations)'
  <2>1. /\ collected'[p] = collected[p] \cup {s}
        /\ todo'[p] = (todo[p] \ {s}) \cup (SchemaRefs[served[p]][s] \ (collected[p] \cup {s}))
    BY <1>1 DEF AnswerInv
  <2>2. SchemaRefs[served[p]][s] \subseteq Needed(served[p], operations)
    BY <1>2, <1>3, NeededIsClosed DEF Part
  <2> QED
    BY <1>2, <1>3, <2>1, <2>2 DEF Part
<1>5. AnswerOf(p)'
  BY <1>2, <1>3, <1>4 DEF AnswerOf
<1>6. ASSUME NEW q \in Procs \ {p} PROVE AnswerOf(q)'
  BY <1>1, <1>2, Elsewhere DEF AnswerInv
<1> QED
  BY <1>1, <1>2, <1>5, <1>6 DEF AnswerInv

LEMMA EndingStep ==
    ASSUME Inv, AnswerInv, NEW p \in Procs, Search(p) \/ PrintDocument(p) \/ Again(p) \/ Kill(p)
    PROVE  AnswerInv'
<1> USE DEF Search, PrintDocument, Again, Kill, Fresh, Goto, Loaded, process, command
<1>1. ASSUME NEW q \in Procs \ {p} PROVE AnswerOf(q)'
  BY Elsewhere DEF AnswerInv, Inv, Types
<1>2. ASSUME Search(p) PROVE AnswerOf(p)'
  BY <1>2 DEF AnswerOf, AnswerInv, Inv, Types
<1>3. ASSUME PrintDocument(p) PROVE AnswerOf(p)'
  <2>1. \A operations : Part(p, operations) => Part(p, operations)'
    BY <1>3 DEF Part
  <2> QED
    BY <1>3, <2>1 DEF AnswerOf, AnswerInv, Inv, Types
<1>4. ASSUME Again(p) \/ Kill(p) PROVE AnswerOf(p)'
  BY <1>4 DEF AnswerOf, AnswerInv, Inv, Types
<1>5. AnswerOf(p)'
  BY <1>2, <1>3, <1>4
<1> QED
  BY <1>1, <1>5 DEF AnswerInv

\* A load touches no answer, and serves a document.
LEMMA LoadingStep ==
    ASSUME Inv, AnswerInv, NEW p \in Procs, Load(p)
    PROVE  AnswerInv'
<1>1. UNCHANGED command
  BY DEF Load, NoLoader, Stat, NotModified, Modified, CheckFails, ReadFails, Read, Truncate, Fill, SetTime,
     WriteFails, Parse, ParseFails, process
<1>2. \E to \in Loading \cup {"parse", "answer"} : pc' = [pc EXCEPT ![p] = to]
  BY DEF Load, NoLoader, Stat, NotModified, Modified, CheckFails, ReadFails, Read, Truncate, Fill, SetTime,
     WriteFails, Parse, ParseFails, FallBack, Serve, Goto, Loading, Writing
<1>3. pc[p] \notin {"collect", "ended"}
  BY DEF Load, NoLoader, Stat, NotModified, Modified, CheckFails, ReadFails, Read, Truncate, Fill, SetTime,
     WriteFails, Parse, ParseFails, Writing
<1>4. \/ served' = served /\ pc'[p] # "answer"
      \/ \E d \in Documents : served' = [served EXCEPT ![p] = d]
  BY Facts DEF Load, NoLoader, Stat, NotModified, Modified, CheckFails, ReadFails, Read, Truncate, Fill, SetTime,
     WriteFails, Parse, ParseFails, FallBack, Serve, Goto, process, Inv, Types
<1>5. AnswerOf(p)'
  BY <1>1, <1>2, <1>3, <1>4 DEF AnswerOf, AnswerInv, command, Inv, Types, Loading, Writing
<1>6. ASSUME NEW q \in Procs \ {p} PROVE AnswerOf(q)'
  BY <1>1, <1>2, <1>4, Elsewhere DEF AnswerInv, command, Inv, Types
<1> QED
  BY <1>1, <1>5, <1>6 DEF AnswerInv, command

LEMMA AnswerStep == Inv /\ AnswerInv /\ [Next]_vars => AnswerInv'
<1>1. ASSUME Inv, AnswerInv, Publish \/ UNCHANGED vars PROVE AnswerInv'
  BY <1>1 DEF Publish, vars, process, command, AnswerInv, AnswerOf, Part
<1> QED
  BY <1>1, GetStep, CollectStep, EndingStep, LoadingStep DEF Next, Report

LEMMA InitAnswer == Init => AnswerInv
BY DEF Init, AnswerInv, AnswerOf

\* A document that is printed has the schemas its operations need and no others,
\* whatever circles they form; a search loses nothing that it should print.
THEOREM AnswersHaveAll == Spec => []AnswersAreWhole
<1>1. ASSUME Inv, AnswerInv PROVE AnswersAreWhole
  <2> SUFFICES ASSUME NEW p \in Procs, pc[p] = "ended", NEW a \in answer[p]
               PROVE  IF "operations" \in DOMAIN a
                      THEN collected[p] = Needed(served[p], a.operations)
                      ELSE LET found     == Found(a.query, a.score)
                               retrieved == DOMAIN a.score
                           IN  /\ found = <<>> => retrieved = {}
                               /\ \A o \in retrieved :
                                    /\ \E r \in Range(Resources(a.query)) :
                                          r \in TagWords(o) /\ ~Nested(r, o)
                                    /\ \A q \in retrieved \ {o} : a.score[q] < a.score[o]
                                    => found # <<>> /\ Head(found) = o
    BY DEF AnswersAreWhole
  <2>1. CASE \E operations \in SUBSET Operations :
               answer[p] = {[operations |-> operations]} /\ Part(p, operations) /\ todo[p] = {}
    <3>1. "operations" \in DOMAIN a /\ Part(p, a.operations) /\ todo[p] = {}
      BY <2>1
    <3>2. served[p] \in Documents
      <4>1. AnswerOf(p)
        BY <1>1 DEF AnswerInv
      <4> QED
        BY <4>1 DEF AnswerOf
    <3>3. Needed(served[p], a.operations) \subseteq collected[p]
      BY <3>1, <3>2, ClosedHasNeeded DEF Part, Needed
    <3>4. collected[p] \subseteq Needed(served[p], a.operations)
      BY <3>1 DEF Part
    <3>5. collected[p] = Needed(served[p], a.operations)
      BY <3>3, <3>4
    <3> QED
      BY <3>1, <3>5, Zenon
  <2>2. CASE \E query \in Queries, score \in Retrievals : answer[p] = {[query |-> query, score |-> score]}
    <3>1. "operations" \notin DOMAIN a /\ a.query \in Queries /\ a.score \in Retrievals
      BY <2>2
    <3> QED
      BY <3>1, SearchIsWhole
  <2> QED
    BY <1>1, <2>1, <2>2 DEF AnswerInv, AnswerOf
<1> QED
  BY <1>1, Invariance, InitAnswer, AnswerStep, PTL DEF Spec
=============================================================================
