----------------------------- MODULE WalkProofs -----------------------------
(***************************************************************************)
(* Proofs about the loops that read page by page: a job's journal           *)
(* (JobJournal), the pages of a collection (Pagination), and the update     *)
(* cursors whose edits change the query they read (UpdateWalk), for any     *)
(* journal, call, rows and page size.                                       *)
(***************************************************************************)
EXTENDS JobJournal, Pagination, UpdateWalk, FiniteSetTheorems, SequenceTheorems, WellFoundedInduction, TLAPS

-----------------------------------------------------------------------------
(* Induction, for a set of natural numbers. *)

LEMMA NaturalsByInduction ==
  ASSUME NEW S, 0 \in S, \A n \in Nat : n \in S => n + 1 \in S
  PROVE  \A n \in Nat : n \in S
<1> DEFINE T == {n \in Nat : n \notin S}
<1>1. SUFFICES ASSUME T # {} PROVE FALSE
  OBVIOUS
<1>2. PICK x \in T : \A y \in T : ~(<<y, x>> \in OpToRel(<, Nat))
  BY <1>1, WFMin, NatLessThanWellFounded
<1>3. \A y \in T : ~(y < x)
  BY <1>2 DEF OpToRel
<1>4. x \in Nat /\ x \notin S /\ x # 0
  OBVIOUS
<1>5. x - 1 \in Nat /\ x - 1 < x /\ (x - 1) + 1 = x
  BY <1>4
<1>6. x - 1 \in S
  BY <1>3, <1>5
<1>7. QED
  BY <1>4, <1>5, <1>6

-----------------------------------------------------------------------------
(* The records of a journal. *)

\* f[n] holds the records of the first n lines of a journal.
Reads(f, journal) ==
  /\ f \in [0..Len(journal) -> Seq(Int)]
  /\ f[0] = <<>>
  /\ \A n \in 1..Len(journal) :
       f[n] = IF journal[n] = Bad THEN f[n - 1] ELSE Append(f[n - 1], journal[n])

LEMMA RecordsAreRead ==
  ASSUME NEW journal \in Seq(Int), NEW f, Reads(f, journal)
  PROVE  Records(journal) = f[Len(journal)]
<1> DEFINE Step(g) == [n \in 0..Len(journal) |->
             IF n = 0 THEN <<>>
             ELSE IF journal[n] = Bad THEN g[n - 1] ELSE Append(g[n - 1], journal[n])]
           read == CHOOSE g : g = Step(g)
<1>1. f = Step(f)
  <2>1. f = [n \in 0..Len(journal) |-> f[n]]
    BY DEF Reads
  <2>2. \A n \in 0..Len(journal) : n # 0 => n \in 1..Len(journal)
    OBVIOUS
  <2>3. \A n \in 0..Len(journal) :
           f[n] = IF n = 0 THEN <<>>
                  ELSE IF journal[n] = Bad THEN f[n - 1] ELSE Append(f[n - 1], journal[n])
    BY <2>2 DEF Reads
  <2> DEFINE body(n) == IF n = 0 THEN <<>>
                        ELSE IF journal[n] = Bad THEN f[n - 1] ELSE Append(f[n - 1], journal[n])
  <2>4. \A n \in 0..Len(journal) : f[n] = body(n)
    BY <2>3
  <2> HIDE DEF body
  <2>5. f = [n \in 0..Len(journal) |-> body(n)]
    BY <2>1, <2>4
  <2>6. QED
    BY <2>5 DEF body
<1>2. read = Step(read)
  BY <1>1
<1>3. Records(journal) = read[Len(journal)]
  BY DEF Records
<1>4. Len(journal) \in Nat
  OBVIOUS
<1>5. \A n \in 0..Len(journal) :
         read[n] = IF n = 0 THEN <<>>
                   ELSE IF journal[n] = Bad THEN read[n - 1] ELSE Append(read[n - 1], journal[n])
  BY <1>2
<1> HIDE DEF read
<1> DEFINE S == {n \in Nat : n <= Len(journal) => read[n] = f[n]}
<1>6. 0 \in S
  BY <1>4, <1>5 DEF Reads
<1>7. ASSUME NEW n \in Nat, n \in S PROVE n + 1 \in S
  <2>1. SUFFICES ASSUME n + 1 <= Len(journal) PROVE read[n + 1] = f[n + 1]
    OBVIOUS
  <2>2. n + 1 \in 1..Len(journal) /\ n + 1 \in 0..Len(journal) /\ n + 1 # 0 /\ (n + 1) - 1 = n /\ read[n] = f[n]
    BY <1>4, <1>7, <2>1
  <2>3. read[n + 1] = IF journal[n + 1] = Bad THEN read[n] ELSE Append(read[n], journal[n + 1])
    BY <1>5, <2>2
  <2>4. f[n + 1] = IF journal[n + 1] = Bad THEN f[n] ELSE Append(f[n], journal[n + 1])
    BY <2>2 DEF Reads
  <2>5. QED
    BY <2>2, <2>3, <2>4
<1> HIDE DEF S
<1>8. \A n \in Nat : n \in S
  BY <1>6, <1>7, NaturalsByInduction
<1>9. QED
  BY <1>3, <1>4, <1>8 DEF S

LEMMA JournalsAreRead ==
  ASSUME NEW journal \in Seq(Int)
  PROVE  \E f : Reads(f, journal)
<1> DEFINE ReadsTo(f, m) ==
             /\ f \in [0..m -> Seq(Int)]
             /\ f[0] = <<>>
             /\ \A n \in 1..m :
                  f[n] = IF journal[n] = Bad THEN f[n - 1] ELSE Append(f[n - 1], journal[n])
           S == {m \in Nat : m <= Len(journal) => \E f : ReadsTo(f, m)}
<1>1. Len(journal) \in Nat
  OBVIOUS
<1>2. 0 \in S
  <2> DEFINE f == [n \in 0..0 |-> <<>>]
  <2>1. ReadsTo(f, 0)
    OBVIOUS
  <2>2. QED
    BY <2>1
<1>3. ASSUME NEW m \in Nat, m \in S PROVE m + 1 \in S
  <2>1. SUFFICES ASSUME m + 1 <= Len(journal) PROVE \E f : ReadsTo(f, m + 1)
    <3>1. m + 1 \in Nat
      BY <1>3
    <3> HIDE DEF ReadsTo
    <3>2. QED
      BY <3>1, Zenon
  <2>2. PICK f : ReadsTo(f, m)
    <3>1. m <= Len(journal)
      BY <1>1, <2>1
    <3> HIDE DEF ReadsTo
    <3>2. QED
      BY <1>3, <3>1, Zenon
  <2> DEFINE final == IF journal[m + 1] = Bad THEN f[m] ELSE Append(f[m], journal[m + 1])
             g == [n \in 0..(m + 1) |-> IF n = m + 1 THEN final ELSE f[n]]
  <2>3. f[m] \in Seq(Int) /\ journal[m + 1] \in Int
    BY <1>1, <2>1, <2>2
  <2>4. final \in Seq(Int)
    BY <2>3
  <2> HIDE DEF final
  <2>5. g \in [0..(m + 1) -> Seq(Int)] /\ g[0] = <<>>
    BY <2>2, <2>4
  <2>6. ASSUME NEW n \in 1..(m + 1)
        PROVE  g[n] = IF journal[n] = Bad THEN g[n - 1] ELSE Append(g[n - 1], journal[n])
    <3>1. n - 1 \in 0..m /\ g[n - 1] = f[n - 1]
      OBVIOUS
    <3>2. CASE n = m + 1
      BY <3>1, <3>2 DEF final
    <3>3. CASE n # m + 1
      <4>1. n \in 1..m /\ g[n] = f[n]
        BY <3>3
      <4>2. QED
        BY <2>2, <3>1, <4>1
    <3>4. QED
      BY <3>2, <3>3
  <2>7. ReadsTo(g, m + 1)
    BY <2>5, <2>6
  <2>8. QED
    BY <2>7
<1> HIDE DEF S
<1>4. Len(journal) \in S
  BY <1>1, <1>2, <1>3, NaturalsByInduction
<1>5. QED
  BY <1>1, <1>4 DEF S, Reads

\* The records are a sequence of numbers.
LEMMA RecordsType ==
  ASSUME NEW journal \in Seq(Int)
  PROVE  Records(journal) \in Seq(Int)
<1>1. PICK f : Reads(f, journal)
  BY JournalsAreRead
<1>2. Records(journal) = f[Len(journal)]
  BY <1>1, RecordsAreRead
<1>3. QED
  BY <1>1, <1>2 DEF Reads

LEMMA RecordsEmpty == Records(<<>>) = <<>>
<1>1. <<>> \in Seq(Int) /\ Len(<<>>) = 0
  OBVIOUS
<1>2. PICK f : Reads(f, <<>>)
  BY <1>1, JournalsAreRead
<1>3. Records(<<>>) = f[0]
  BY <1>1, <1>2, RecordsAreRead
<1>4. QED
  BY <1>2, <1>3 DEF Reads

\* One more line adds itself to the records, unless it is bad.
LEMMA RecordsAppend ==
  ASSUME NEW journal \in Seq(Int), NEW l \in Int
  PROVE  Records(Append(journal, l)) = IF l = Bad THEN Records(journal) ELSE Append(Records(journal), l)
<1> DEFINE longer == Append(journal, l)
           m == Len(journal)
<1>1. longer \in Seq(Int) /\ Len(longer) = m + 1 /\ longer[m + 1] = l /\ m \in Nat
  OBVIOUS
<1>2. \A n \in 1..m : longer[n] = journal[n]
  OBVIOUS
<1>3. PICK f : Reads(f, longer)
  BY <1>1, JournalsAreRead
<1> DEFINE g == [n \in 0..m |-> f[n]]
<1> HIDE DEF longer
<1>4. Reads(g, journal)
  <2>1. g \in [0..m -> Seq(Int)] /\ g[0] = <<>>
    <3>1. \A n \in 0..m : n \in 0..(m + 1)
      BY <1>1
    <3>2. f \in [0..(m + 1) -> Seq(Int)] /\ f[0] = <<>> /\ 0 \in 0..m
      BY <1>1, <1>3 DEF Reads
    <3>3. QED
      BY <3>1, <3>2
  <2>2. ASSUME NEW n \in 1..m
        PROVE  g[n] = IF journal[n] = Bad THEN g[n - 1] ELSE Append(g[n - 1], journal[n])
    <3>1. n \in 0..m /\ n - 1 \in 0..m /\ n \in 1..(m + 1)
      BY <1>1
    <3>2. g[n] = f[n] /\ g[n - 1] = f[n - 1] /\ longer[n] = journal[n]
      BY <1>2, <3>1
    <3>3. f[n] = IF longer[n] = Bad THEN f[n - 1] ELSE Append(f[n - 1], longer[n])
      BY <1>1, <1>3, <3>1 DEF Reads
    <3>4. QED
      BY <3>2, <3>3
  <2>3. QED
    BY <2>1, <2>2 DEF Reads
<1>5. Records(journal) = g[m]
  BY <1>4, RecordsAreRead
<1>6. Records(longer) = f[m + 1]
  BY <1>1, <1>3, RecordsAreRead
<1>7. f[m + 1] = IF longer[m + 1] = Bad THEN f[m] ELSE Append(f[m], longer[m + 1])
  <2>1. m + 1 \in 1..Len(longer) /\ (m + 1) - 1 = m
    BY <1>1
  <2>2. QED
    BY <1>3, <2>1 DEF Reads
<1>8. g[m] = f[m]
  BY <1>1
<1>9. QED
  BY <1>1, <1>5, <1>6, <1>7, <1>8 DEF longer

-----------------------------------------------------------------------------
(* The reader of a journal: types, and what it knows of the page at hand. *)

Statuses == {Running, Unreadable} \cup Terminal
Offsets == Nat \cup {NoCursor}
Pages == [items : Seq(Int), total : Nat, next : Offsets, truncated : BOOLEAN, status : Statuses]

JournalTypes ==
  /\ lines \in Seq(Int) /\ receipt \in Statuses /\ run \in Nat /\ run >= 1
  /\ command \in Commands
  /\ reading \in {"idle", "receipt", "journal", "local", "remote", "done"}
  /\ status \in Statuses /\ records \in Seq(Int)
  /\ nextCursor \in Offsets /\ shown \in Seq(Int) /\ lastPage \in Pages /\ exit \in Int

\* The receipt has been final since before the journal was read, which has not grown.
VerdictsInv ==
  /\ reading = "remote" => ~command.local
  /\ reading \in {"journal", "local"} /\ status \in Terminal /\ run = 1 => receipt \in Terminal
  /\ reading = "local" /\ status \in Terminal /\ run = 1 => records = ReadJournal
  /\ command.local /\ lastPage.status \in Terminal /\ run = 1 =>
       receipt \in Terminal /\ lastPage.total = Len(ReadJournal)

\* Where a log starts.
First == IF command.cursor = NoCursor THEN 0 ELSE command.cursor

Numbered(r) == \A i \in 1..Len(r) : r[i] = i

\* The records are numbered in their order, and the cursor of a log is always behind
\* what it has shown.
LogsInv ==
  /\ Numbered(ReadJournal)
  /\ reading = "local" => Numbered(records)
  /\ reading # "done" => exit = NoCode
  /\ reading = "idle" => seen = {} /\ shown = <<>> /\ lastPage = NoPage
  /\ command.action = "logs" =>
       /\ (reading = "local" => nextCursor <= Len(records))
       /\ (reading \in {"receipt", "journal", "local", "remote"} =>
             nextCursor \in seen /\ nextCursor = First + Len(shown))
       /\ \A i \in 1..Len(shown) : shown[i] = First + i
       /\ (exit = Ok => First + Len(shown) = lastPage.total)
       /\ (exit = Interrupted => lastPage # NoPage)

\* A page at a cursor within the journal holds what follows it, up to the end unless
\* the page says where to go on.
PageFollows(sheet, all, start) ==
  start \in 0..Len(all) =>
    /\ Len(sheet.items) \in Nat
    /\ \A i \in 1..Len(sheet.items) : start + i \in 1..Len(all) /\ sheet.items[i] = all[start + i]
    /\ sheet.next = NoCursor => start + Len(sheet.items) = Len(all)
    /\ sheet.next # NoCursor => sheet.next = start + Len(sheet.items)

\* The page of a journal: the tail, or what follows the cursor, up to the end unless
\* the page says where to go on.
LEMMA PageOfRecords ==
  ASSUME NEW all \in Seq(Int), NEW limit \in Nat, NEW start \in Offsets,
         NEW sheet, sheet = SelectRecords(all, limit, start)
  PROVE  /\ sheet.items \in Seq(Int) /\ sheet.total = Len(all)
         /\ sheet.next \in Offsets /\ sheet.truncated \in BOOLEAN
         /\ PageFollows(sheet, all, start)
<1> DEFINE total == Len(all)
           first == IF start # NoCursor THEN start ELSE IF total > limit THEN total - limit ELSE 0
           upto == IF first + limit < total THEN first + limit ELSE total
           selected == SubSeq(all, first + 1, upto)
           end == first + Len(selected)
<1>1. total \in Nat /\ NoCursor = -1
  BY DEF NoCursor
<1>2. first \in Nat /\ (start # NoCursor => first = start)
  BY <1>1 DEF Offsets
<1>3. upto \in Nat /\ upto <= total
  BY <1>1, <1>2
<1>4. /\ sheet.items = selected /\ sheet.total = total /\ sheet.truncated = (total > Len(selected))
      /\ sheet.next = IF start # NoCursor /\ end < total THEN end ELSE NoCursor
  BY DEF SelectRecords
<1> HIDE DEF total, first
<1>5. /\ selected \in Seq(Int) /\ Len(selected) = IF first + 1 <= upto THEN upto - first ELSE 0
      /\ \A i \in 1..Len(selected) : selected[i] = all[first + i]
  <2>1. \A i \in (first + 1)..upto : all[i] \in Int
    BY <1>1, <1>2, <1>3 DEF total
  <2>2. /\ SubSeq(all, first + 1, upto) \in Seq(Int)
        /\ Len(SubSeq(all, first + 1, upto)) = IF first + 1 <= upto THEN upto - (first + 1) + 1 ELSE 0
        /\ \A i \in 1..(upto - (first + 1) + 1) : SubSeq(all, first + 1, upto)[i] = all[first + 1 + i - 1]
    <3> HIDE DEF upto
    <3>1. QED
      BY <1>2, <1>3, <2>1, SubSeqProperties
  <2> HIDE DEF upto
  <2>3. QED
    BY <1>2, <1>3, <2>2
<1> HIDE DEF upto, selected
<1>6. Len(selected) \in Nat /\ end \in Nat
  BY <1>2, <1>5
<1>7. sheet.next \in Offsets /\ sheet.truncated \in BOOLEAN
  BY <1>4, <1>6 DEF Offsets
<1>8. ASSUME start \in 0..total
      PROVE  /\ \A i \in 1..Len(selected) : start + i \in 1..total /\ selected[i] = all[start + i]
             /\ sheet.next = NoCursor => start + Len(selected) = total
             /\ sheet.next # NoCursor => sheet.next = start + Len(selected)
  <2>1. first = start /\ start # NoCursor /\ upto = IF start + limit < total THEN start + limit ELSE total
    BY <1>1, <1>2, <1>8 DEF upto
  <2>2. Len(selected) = upto - start
    <3>1. start \in Nat /\ start <= upto /\ upto \in Nat
      BY <1>1, <1>3, <1>8, <2>1
    <3>2. Len(selected) = IF start + 1 <= upto THEN upto - start ELSE 0
      BY <1>5, <2>1
    <3>3. QED
      BY <3>1, <3>2
  <2>3. \A i \in 1..Len(selected) : start + i \in 1..total /\ selected[i] = all[start + i]
    <3>1. SUFFICES ASSUME NEW i \in 1..Len(selected) PROVE start + i \in 1..total
      BY <1>5, <2>1
    <3>2. start \in Nat /\ upto \in Nat /\ i \in 1..(upto - start)
      BY <1>3, <1>8, <2>2
    <3>3. QED
      BY <1>1, <1>3, <3>2
  <2>4. sheet.next = NoCursor => start + Len(selected) = total
    <3>1. start \in Nat /\ upto \in Nat /\ total \in Nat /\ start + Len(selected) = upto
      BY <1>1, <1>3, <1>8, <2>2
    <3>2. start + Len(selected) < total => sheet.next = start + Len(selected)
      BY <1>4, <2>1
    <3>3. sheet.next = NoCursor => ~(upto < total)
      BY <1>1, <3>1, <3>2
    <3>4. QED
      BY <1>3, <3>1, <3>3
  <2>5. sheet.next # NoCursor => sheet.next = start + Len(selected)
    BY <1>4, <2>1
  <2>6. QED
    BY <2>3, <2>4, <2>5
<1>9. QED
  BY <1>4, <1>5, <1>6, <1>7, <1>8 DEF total, PageFollows

LEMMA ProjectedPage ==
  ASSUME NEW all \in Seq(Int), NEW s \in Statuses, NEW sheet, sheet = ProjectPage(all, s), JournalTypes
  PROVE  /\ sheet \in Pages /\ sheet.status = s /\ sheet.total = Len(all)
         /\ PageFollows(sheet, all, nextCursor)
<1> DEFINE chosen == SelectRecords(all, command.limit, nextCursor)
<1>1. command.limit \in Nat /\ nextCursor \in Offsets /\ Len(all) \in Nat
  BY JournalAssumption DEF JournalTypes
<1>2. sheet = [items |-> chosen.items, total |-> chosen.total, truncated |-> chosen.truncated,
              status |-> s, next |-> chosen.next]
  BY DEF ProjectPage
<1>c. chosen = SelectRecords(all, command.limit, nextCursor)
  OBVIOUS
<1> HIDE DEF chosen
<1>3. /\ sheet.items = chosen.items /\ sheet.total = chosen.total /\ sheet.next = chosen.next
      /\ sheet.status = s
  BY <1>2
<1>4. /\ chosen.items \in Seq(Int) /\ chosen.total = Len(all)
      /\ chosen.next \in Offsets /\ chosen.truncated \in BOOLEAN
      /\ PageFollows(chosen, all, nextCursor)
  BY <1>1, <1>c, PageOfRecords
<1>5. sheet \in Pages
  BY <1>1, <1>2, <1>4 DEF Pages
<1>6. PageFollows(sheet, all, nextCursor)
  BY <1>3, <1>4 DEF PageFollows
<1>7. QED
  BY <1>3, <1>4, <1>5, <1>6

\* A page that leads back to its own cursor is a page otherwise the same.
LEMMA PageLedBack ==
  ASSUME NEW sheet \in Pages, NEW c \in Offsets, NEW other, other = [sheet EXCEPT !.next = c]
  PROVE  /\ other \in Pages /\ other.next = c
         /\ other.items = sheet.items /\ other.total = sheet.total /\ other.status = sheet.status
BY DEF Pages

\* Only a failure after the first page of a log, and a cursor repeated, count as
\* interrupted.
LEMMA ExitCodes ==
  ASSUME NEW failure, NEW started \in BOOLEAN,
         failure \in {"usage", "unauthorized", "missing", "expired", "http", "transport", "contract"}
  PROVE  /\ ExitCode(failure, started) \in Int \ {Ok, NoCode}
         /\ ExitCode(failure, started) = Interrupted => started
<1>1. DOMAIN HttpFailure = {"unauthorized", "missing", "expired", "http"}
  BY DEF HttpFailure
<1>2. /\ HttpFailure["unauthorized"] = 3 /\ HttpFailure["missing"] = 4
      /\ HttpFailure["expired"] = 5 /\ HttpFailure["http"] = 1
  BY DEF HttpFailure, Unauthorized, Missing, Expired, Failed
<1>3. CASE failure = "usage"
  BY <1>3 DEF ExitCode, Ok, NoCode, Usage, Interrupted
<1>4. CASE failure \in {"unauthorized", "missing", "expired", "http"}
  BY <1>1, <1>2, <1>4 DEF ExitCode, Ok, NoCode, Interrupted
<1>5. CASE failure \in {"transport", "contract"}
  BY <1>1, <1>5 DEF ExitCode, Ok, NoCode, Interrupted, Failed
<1>6. QED
  BY <1>3, <1>4, <1>5

LEMMA RepeatedCode == ExitCode("repeated", TRUE) = Interrupted /\ Interrupted \in Int
<1>1. "repeated" \notin DOMAIN HttpFailure
  BY DEF HttpFailure
<1>2. QED
  BY <1>1 DEF ExitCode, Interrupted

-----------------------------------------------------------------------------
(* Types. *)

LEMMA ReadJournalType ==
  ASSUME lines \in Seq(Int)
  PROVE  ReadJournal \in Seq(Int) /\ Len(ReadJournal) \in Nat
BY RecordsType DEF ReadJournal

\* A page asked for.
LEMMA AskTypes ==
  ASSUME JournalTypes, NEW start \in Offsets, AskEvents(start)
  PROVE  /\ reading' \in {"receipt", "remote", "done"} /\ nextCursor' \in Offsets /\ exit' \in Int
<1>1. CASE start # NoCursor /\ start \in seen
  BY <1>1, RepeatedCode DEF AskEvents, JournalTypes
<1>2. CASE ~(start # NoCursor /\ start \in seen)
  BY <1>2 DEF AskEvents, JournalTypes
<1>3. QED
  BY <1>1, <1>2

\* A step of the printer: what it leaves of the reader's state.
LEMMA PrintTypes ==
  ASSUME JournalTypes, NEW sheet \in Pages, PrintPage(sheet)
  PROVE  /\ reading' \in {"receipt", "remote", "done"} /\ nextCursor' \in Offsets
         /\ shown' \in Seq(Int) /\ lastPage' \in Pages /\ exit' \in Int
<1>1. sheet.items \in Seq(Int) /\ sheet.next \in Offsets
  BY DEF Pages
<1>2. lastPage' \in Pages
  BY DEF PrintPage
<1>3. CASE command.action = "inspect"
  BY <1>2, <1>3 DEF PrintPage, JournalTypes, Ok
<1>4. CASE command.action # "inspect"
  <2>1. shown' \in Seq(Int)
    BY <1>1, <1>4, ConcatProperties DEF PrintPage, JournalTypes
  <2>2. CASE sheet.next = NoCursor
    BY <1>2, <1>4, <2>1, <2>2 DEF PrintPage, JournalTypes, Ok
  <2>3. CASE sheet.next # NoCursor
    <3>1. AskEvents(sheet.next)
      BY <1>4, <2>3 DEF PrintPage
    <3>2. /\ reading' \in {"receipt", "remote", "done"} /\ nextCursor' \in Offsets
          /\ exit' \in Int
      BY <1>1, <3>1, AskTypes
    <3>3. QED
      BY <1>2, <2>1, <3>2
  <2>4. QED
    BY <2>2, <2>3
<1>5. QED
  BY <1>3, <1>4

\* A failed command.
LEMMA FailureTypes ==
  ASSUME JournalTypes, NEW failure, CommandFails(failure),
         failure \in {"usage", "unauthorized", "missing", "expired", "http", "transport", "contract"}
  PROVE  /\ reading' = "done" /\ nextCursor' = nextCursor /\ shown' = shown /\ lastPage' = lastPage
         /\ seen' = seen
         /\ exit' \in Int \ {Ok, NoCode} /\ (exit' = Interrupted => Started)
BY ExitCodes DEF CommandFails, Started

LEMMA JournalTypesInit == JournalInit => JournalTypes
BY DEF JournalInit, JournalTypes, NoPage, Pages, Statuses, Offsets, Running, NoCursor, NoCode

LEMMA JournalTypesStep == JournalTypes /\ [JournalNext]_journalVars => JournalTypes'
<1> SUFFICES ASSUME JournalTypes, [JournalNext]_journalVars PROVE JournalTypes'
  OBVIOUS
<1> USE DEF readerVars, fileVars, pageReads
<1>1. CASE WriteLine
  <2>1. lines' \in Seq(Int)
    BY <1>1, ReadJournalType DEF WriteLine, JournalTypes, Bad
  <2>2. QED
    BY <1>1, <2>1 DEF WriteLine, JournalTypes
<1>2. CASE Tear
  BY <1>2 DEF Tear, JournalTypes
<1>3. CASE WriteReceipt
  BY <1>3 DEF WriteReceipt, JournalTypes, Statuses
<1>4. CASE Rewrite
  BY <1>4 DEF Rewrite, JournalTypes, Statuses
<1>5. CASE Parse
  <2>1. /\ reading' \in {"receipt", "remote", "done"} /\ nextCursor' \in Offsets
        /\ shown' = shown /\ lastPage' = lastPage /\ exit' \in Int
    <3>1. CASE CommandFails("usage")
      BY <3>1, FailureTypes DEF JournalTypes
    <3>2. CASE /\ AskEvents(IF command.action = "logs" /\ command.cursor = NoCursor THEN 0 ELSE command.cursor)
               /\ UNCHANGED <<shown, lastPage>>
      <4>1. (IF command.action = "logs" /\ command.cursor = NoCursor THEN 0 ELSE command.cursor) \in Offsets
        BY JournalAssumption DEF JournalTypes, Offsets, NoCursor
      <4>2. QED
        BY <3>2, <4>1, AskTypes DEF JournalTypes
    <3>3. QED
      BY <1>5, <3>1, <3>2 DEF Parse
  <2>2. QED
    BY <1>5, <2>1 DEF Parse, JournalTypes
<1>6. CASE ReadReceipt
  <2>1. /\ reading' \in {"journal", "done"} /\ nextCursor' = nextCursor /\ status' \in Statuses
        /\ shown' = shown /\ lastPage' = lastPage /\ exit' \in Int
    BY <1>6, FailureTypes DEF ReadReceipt, JournalTypes
  <2>2. QED
    BY <1>6, <2>1 DEF ReadReceipt, JournalTypes
<1>7. CASE ReadEvents
  <2>1. /\ reading' \in {"local", "done"} /\ nextCursor' = nextCursor /\ records' \in Seq(Int)
        /\ shown' = shown /\ lastPage' = lastPage /\ exit' \in Int
    BY <1>7, FailureTypes, ReadJournalType DEF ReadEvents, JournalTypes
  <2>2. QED
    BY <1>7, <2>1 DEF ReadEvents, JournalTypes
<1>8. CASE PrintLocalPage
  <2>1. ProjectPage(records, status) \in Pages
    BY ProjectedPage DEF JournalTypes
  <2>2. PrintPage(ProjectPage(records, status)) /\ records' = <<>> /\ status' = Running
    BY <1>8 DEF PrintLocalPage
  <2>3. /\ reading' \in {"receipt", "remote", "done"} /\ nextCursor' \in Offsets
        /\ shown' \in Seq(Int) /\ lastPage' \in Pages /\ exit' \in Int
    BY <2>1, <2>2, PrintTypes
  <2>4. QED
    BY <1>8, <2>2, <2>3 DEF PrintLocalPage, JournalTypes, Statuses
<1>9. CASE RemotePage
  <2>1. PICK sheet \in Pages : PrintPage(sheet)
    <3>1. ProjectPage(ReadJournal, receipt) \in Pages
      BY ProjectedPage, ReadJournalType DEF JournalTypes
    <3>2. [ProjectPage(ReadJournal, receipt) EXCEPT !.next = nextCursor] \in Pages
      BY <3>1, PageLedBack DEF JournalTypes
    <3>3. QED
      BY <1>9, <3>1, <3>2 DEF RemotePage
  <2>2. /\ reading' \in {"receipt", "remote", "done"} /\ nextCursor' \in Offsets
        /\ shown' \in Seq(Int) /\ lastPage' \in Pages /\ exit' \in Int
    BY <2>1, PrintTypes
  <2>3. QED
    BY <1>9, <2>2 DEF RemotePage, JournalTypes
<1>10. CASE RemoteFails
  <2>1. reading' = "done" /\ nextCursor' = nextCursor /\ shown' = shown /\ lastPage' = lastPage /\ exit' \in Int
    BY <1>10, FailureTypes DEF RemoteFails
  <2>2. QED
    BY <1>10, <2>1 DEF RemoteFails, JournalTypes
<1>11. CASE UNCHANGED journalVars
  BY <1>11 DEF journalVars, JournalTypes
<1>12. QED
  BY <1>1, <1>2, <1>3, <1>4, <1>5, <1>6, <1>7, <1>8, <1>9, <1>10, <1>11 DEF JournalNext, ReaderStep

-----------------------------------------------------------------------------
(* Verdicts and their events. *)

LEMMA SameLines == lines' = lines => ReadJournal' = ReadJournal
BY DEF ReadJournal

LEMMA StatusNames == Running \notin Terminal /\ Unreadable \notin Terminal /\ Running # Unreadable
BY DEF Running, Unreadable, Terminal

\* Nothing is read of a page that has only been asked for.
LEMMA PrintReading ==
  ASSUME NEW sheet \in Pages, PrintPage(sheet)
  PROVE  reading' \in {"receipt", "remote", "done"} /\ (reading' = "remote" => ~command.local) /\ lastPage' = sheet
BY DEF PrintPage, AskEvents

LEMMA VerdictsInit == JournalInit => VerdictsInv
BY StatusNames DEF JournalInit, VerdictsInv, NoPage

LEMMA VerdictsStep == JournalTypes /\ VerdictsInv /\ [JournalNext]_journalVars => VerdictsInv'
<1> SUFFICES ASSUME JournalTypes, VerdictsInv, [JournalNext]_journalVars PROVE VerdictsInv'
  OBVIOUS
<1> USE DEF readerVars, fileVars, pageReads
<1>1. CASE WriteLine
  BY <1>1, StatusNames DEF WriteLine, VerdictsInv
<1>2. CASE Tear
  BY <1>2, SameLines DEF Tear, VerdictsInv
<1>3. CASE WriteReceipt
  BY <1>3, SameLines, StatusNames DEF WriteReceipt, VerdictsInv
<1>4. CASE Rewrite
  <2>1. run' # 1
    BY <1>4 DEF Rewrite, JournalTypes
  <2>2. QED
    BY <1>4, <2>1 DEF Rewrite, VerdictsInv
<1>5. CASE Parse
  <2>1. /\ reading' \in {"receipt", "remote", "done"} /\ (reading' = "remote" => ~command.local)
        /\ lastPage' = lastPage
    BY <1>5 DEF Parse, CommandFails, AskEvents
  <2>2. QED
    BY <1>5, <2>1, SameLines DEF Parse, VerdictsInv
<1>6. CASE ReadReceipt
  <2>1. lastPage' = lastPage /\ (reading' = "done" \/ (reading' = "journal" /\ status' = receipt))
    BY <1>6 DEF ReadReceipt, CommandFails
  <2>2. QED
    BY <1>6, <2>1, SameLines DEF ReadReceipt, VerdictsInv
<1>7. CASE ReadEvents
  <2>1. lastPage' = lastPage /\ (reading' = "done" \/ (reading' = "local" /\ records' = ReadJournal))
    BY <1>7 DEF ReadEvents, CommandFails
  <2>2. QED
    BY <1>7, <2>1, SameLines DEF ReadEvents, VerdictsInv
<1>8. CASE PrintLocalPage
  <2> DEFINE sheet == ProjectPage(records, status)
  <2>1. sheet \in Pages /\ sheet.status = status /\ sheet.total = Len(records)
    BY ProjectedPage DEF JournalTypes
  <2>2. PrintPage(sheet) /\ reading = "local" /\ UNCHANGED <<fileVars, command>>
    BY <1>8 DEF PrintLocalPage
  <2> HIDE DEF sheet
  <2>3. /\ reading' \in {"receipt", "remote", "done"} /\ (reading' = "remote" => ~command.local)
        /\ lastPage' = sheet
    BY <2>1, <2>2, PrintReading
  <2>4. ReadJournal' = ReadJournal /\ receipt' = receipt /\ run' = run /\ command' = command
    BY <2>2, SameLines
  <2>5. QED
    BY <2>1, <2>2, <2>3, <2>4 DEF VerdictsInv
<1>9. CASE RemotePage
  <2>1. PICK sheet \in Pages : PrintPage(sheet)
    <3>1. ProjectPage(ReadJournal, receipt) \in Pages
      BY ProjectedPage, ReadJournalType DEF JournalTypes
    <3>2. [ProjectPage(ReadJournal, receipt) EXCEPT !.next = nextCursor] \in Pages
      BY <3>1, PageLedBack DEF JournalTypes
    <3>3. QED
      BY <1>9, <3>1, <3>2 DEF RemotePage
  <2>2. reading' \in {"receipt", "remote", "done"} /\ (reading' = "remote" => ~command.local)
    BY <2>1, PrintReading
  <2>3. ~command.local /\ command' = command
    BY <1>9 DEF RemotePage, VerdictsInv
  <2>4. QED
    BY <2>2, <2>3 DEF VerdictsInv
<1>10. CASE RemoteFails
  <2>1. reading' = "done" /\ lastPage' = lastPage
    BY <1>10 DEF RemoteFails, CommandFails
  <2>2. QED
    BY <1>10, <2>1, SameLines DEF RemoteFails, VerdictsInv
<1>11. CASE UNCHANGED journalVars
  BY <1>11, SameLines DEF journalVars, VerdictsInv
<1>12. QED
  BY <1>1, <1>2, <1>3, <1>4, <1>5, <1>6, <1>7, <1>8, <1>9, <1>10, <1>11 DEF JournalNext, ReaderStep

\* A local page that says how the run ended counts every record of that run, whenever
\* the two files are read and written.  (_local_document)
THEOREM VerdictsHaveTheirEvents == JournalSpec => []VerdictsComeWithTheirEvents
<1>1. JournalInit => JournalTypes /\ VerdictsInv
  BY JournalTypesInit, VerdictsInit
<1>2. JournalTypes /\ VerdictsInv /\ [JournalNext]_journalVars => (JournalTypes /\ VerdictsInv)'
  BY JournalTypesStep, VerdictsStep
<1>3. VerdictsInv => VerdictsComeWithTheirEvents
  BY DEF VerdictsInv, VerdictsComeWithTheirEvents
<1>4. QED
  BY <1>1, <1>2, <1>3, PTL DEF JournalSpec

-----------------------------------------------------------------------------
(* Logs. *)

LEMMA SumsAssociate == \A a, b, c \in Int : (a + b) + c = a + (b + c)
OBVIOUS

LEMMA FirstType == command \in Commands => First \in Nat
BY JournalAssumption DEF First, NoCursor

\* What a printed page of a log leaves: its items follow what has been shown, and the
\* next cursor follows them.
LEMMA PrintFollows ==
  ASSUME JournalTypes, LogsInv, command.action = "logs", reading \in {"local", "remote"},
         NEW all \in Seq(Int), Numbered(all), nextCursor \in 0..Len(all),
         NEW sheet \in Pages, PrintPage(sheet), sheet.total = Len(all),
         \A i \in 1..Len(sheet.items) : nextCursor + i \in 1..Len(all) /\ sheet.items[i] = all[nextCursor + i],
         sheet.next = NoCursor => nextCursor + Len(sheet.items) = Len(all),
         sheet.next # NoCursor => sheet.next \in {nextCursor, nextCursor + Len(sheet.items)}
  PROVE  /\ \A i \in 1..Len(shown') : shown'[i] = First + i
         /\ reading' # "done" =>
              exit' = NoCode /\ nextCursor' \in seen' /\ nextCursor' = First + Len(shown')
         /\ exit' = Ok => First + Len(shown') = lastPage'.total
         /\ exit' = Interrupted => lastPage' # NoPage
<1>1. /\ First \in Nat /\ nextCursor \in seen /\ nextCursor = First + Len(shown) /\ exit = NoCode
      /\ shown \in Seq(Int) /\ Len(shown) \in Nat
      /\ \A i \in 1..Len(shown) : shown[i] = First + i
  BY FirstType DEF LogsInv, JournalTypes
<1>2. sheet.items \in Seq(Int) /\ Len(sheet.items) \in Nat /\ sheet.next \in Offsets
  BY DEF Pages
<1>3. shown' = shown \o sheet.items /\ lastPage' = sheet
  BY DEF PrintPage
<1>4. \A i \in 1..Len(sheet.items) : sheet.items[i] = nextCursor + i
  BY DEF Numbered
<1>5. /\ Len(shown') = Len(shown) + Len(sheet.items)
      /\ \A i \in 1..Len(shown') :
           shown'[i] = IF i <= Len(shown) THEN shown[i] ELSE sheet.items[i - Len(shown)]
  BY <1>1, <1>2, <1>3, ConcatProperties
<1>6. \A i \in 1..Len(shown') : shown'[i] = First + i
  <2>1. SUFFICES ASSUME NEW i \in 1..Len(shown') PROVE shown'[i] = First + i
    OBVIOUS
  <2>2. CASE i <= Len(shown)
    <3>1. i \in 1..Len(shown)
      BY <1>1, <1>2, <1>5, <2>2
    <3>2. QED
      BY <1>1, <1>5, <2>2, <3>1
  <2>3. CASE ~(i <= Len(shown))
    <3>1. i - Len(shown) \in 1..Len(sheet.items)
      BY <1>1, <1>2, <1>5, <2>3
    <3>2. shown'[i] = nextCursor + (i - Len(shown))
      BY <1>4, <1>5, <2>3, <3>1
    <3>3. QED
      BY <1>1, <3>2
  <2>4. QED
    BY <2>2, <2>3
<1>7. CASE sheet.next = NoCursor
  <2>1. exit' = Ok /\ reading' = "done"
    BY <1>7 DEF PrintPage
  <2>2. First + Len(shown') = lastPage'.total
    <3>1. nextCursor = First + Len(shown) /\ nextCursor + Len(sheet.items) = Len(all)
      BY <1>1, <1>7
    <3>2. First \in Int /\ Len(shown) \in Int /\ Len(sheet.items) \in Int
      BY <1>1, <1>2
    <3>3. Len(shown') = Len(shown) + Len(sheet.items) /\ lastPage'.total = Len(all)
      BY <1>3, <1>5
    <3>4. (First + Len(shown)) + Len(sheet.items) = First + (Len(shown) + Len(sheet.items))
      BY <3>2, SumsAssociate
    <3>5. QED
      BY ONLY <3>1, <3>3, <3>4
  <2>3. QED
    BY <1>6, <2>1, <2>2 DEF Ok, Interrupted
<1>8. CASE sheet.next # NoCursor
  <2>1. AskEvents(sheet.next)
    BY <1>8 DEF PrintPage
  <2>2. lastPage' # NoPage
    BY <1>3, <1>8 DEF NoPage
  <2>3. CASE sheet.next \in seen
    <3>1. reading' = "done" /\ exit' = Interrupted
      BY <1>8, <2>1, <2>3, RepeatedCode DEF AskEvents
    <3>2. QED
      BY <1>6, <2>2, <3>1 DEF Ok, Interrupted
  <2>4. CASE sheet.next \notin seen
    <3>1. sheet.next = nextCursor + Len(sheet.items)
      BY <1>1, <1>8, <2>4
    <3>2. exit' = NoCode /\ nextCursor' = sheet.next /\ nextCursor' \in seen'
      BY <1>1, <1>8, <2>1, <2>4 DEF AskEvents
    <3>3. nextCursor' = First + Len(shown')
      <4>1. nextCursor = First + Len(shown) /\ nextCursor' = nextCursor + Len(sheet.items)
        BY <1>1, <3>1, <3>2
      <4>2. First \in Int /\ Len(shown) \in Int /\ Len(sheet.items) \in Int
        BY <1>1, <1>2
      <4>3. Len(shown') = Len(shown) + Len(sheet.items)
        BY <1>5
      <4>4. (First + Len(shown)) + Len(sheet.items) = First + (Len(shown) + Len(sheet.items))
        BY <4>2, SumsAssociate, Zenon
      <4>5. QED
        BY <4>1, <4>3, <4>4, Zenon
    <3>4. QED
      BY <1>6, <3>2, <3>3 DEF Ok, Interrupted, NoCode
  <2>5. QED
    BY <2>3, <2>4
<1>9. QED
  BY <1>7, <1>8

LEMMA LogsInit == JournalInit => LogsInv
BY RecordsEmpty DEF JournalInit, LogsInv, ReadJournal, Numbered, NoCode, Ok, Interrupted

\* Another record takes the next number, and a line that is none takes no number.
LEMMA WriteNumbers ==
  ASSUME JournalTypes, Numbered(ReadJournal), WriteLine
  PROVE  Numbered(ReadJournal')
<1>1. PICK l \in {Len(ReadJournal) + 1, Bad} : lines' = Append(lines, l)
  BY DEF WriteLine
<1>2. ReadJournal \in Seq(Int) /\ Len(ReadJournal) \in Nat
  BY ReadJournalType DEF JournalTypes
<1>3. l \in Int /\ lines \in Seq(Int)
  BY <1>2 DEF JournalTypes, Bad
<1>4. ReadJournal' = IF l = Bad THEN ReadJournal ELSE Append(ReadJournal, l)
  BY <1>1, <1>3, RecordsAppend DEF ReadJournal
<1>5. CASE l = Bad
  BY <1>4, <1>5
<1>6. CASE l # Bad
  <2>1. l = Len(ReadJournal) + 1 /\ ReadJournal' = Append(ReadJournal, l)
    BY <1>1, <1>4, <1>6
  <2> DEFINE r == ReadJournal
             q == Append(r, l)
  <2>2. \A i \in 1..Len(q) : q[i] = i
    <3> HIDE DEF r
    <3>1. r \in Seq(Int) /\ l \in Int /\ l = Len(r) + 1 /\ \A i \in 1..Len(r) : r[i] = i
      BY <1>2, <1>3, <2>1 DEF Numbered, r
    <3>2. QED
      BY <3>1
  <2>3. QED
    BY <2>1, <2>2 DEF Numbered
<1>7. QED
  BY <1>5, <1>6

\* Steps of the writer leave the reader as it is.
LEMMA WriterStep ==
  ASSUME LogsInv, UNCHANGED readerVars, Numbered(ReadJournal')
  PROVE  LogsInv'
BY DEF LogsInv, readerVars, pageReads, First, Numbered

\* A command that fails says nothing of success, and counts as interrupted only when
\* a page has been printed.
LEMMA FailureStep ==
  ASSUME JournalTypes, LogsInv, UNCHANGED <<fileVars, command>>, NEW failure, CommandFails(failure),
         failure \in {"usage", "unauthorized", "missing", "expired", "http", "transport", "contract"}
  PROVE  LogsInv'
<1>1. /\ reading' = "done" /\ nextCursor' = nextCursor /\ shown' = shown /\ lastPage' = lastPage
      /\ seen' = seen
      /\ exit' # Ok /\ (exit' = Interrupted => lastPage # NoPage)
  BY FailureTypes DEF Started
<1>2. ReadJournal' = ReadJournal /\ First' = First /\ command' = command
  BY SameLines DEF fileVars, First
<1>3. QED
  BY <1>1, <1>2 DEF LogsInv, Numbered

\* A printed page, local or from the server.
LEMMA PrintStep ==
  ASSUME JournalTypes, LogsInv, reading \in {"local", "remote"}, UNCHANGED <<fileVars, command>>,
         NEW all \in Seq(Int), Numbered(all), nextCursor <= Len(all),
         NEW sheet \in Pages, PrintPage(sheet), sheet.total = Len(all),
         NEW projected, PageFollows(projected, all, nextCursor), sheet.items = projected.items,
         \/ sheet.next = projected.next
         \/ sheet.next = nextCursor /\ projected.next # NoCursor
  PROVE  LogsInv'
<1>1. reading' \in {"receipt", "remote", "done"}
  BY PrintReading
<1>2. ReadJournal' = ReadJournal /\ First' = First /\ command' = command
  BY SameLines DEF fileVars, First
<1>3. CASE command.action # "logs"
  <2>1. command.action = "inspect"
    BY <1>3, JournalAssumption DEF JournalTypes
  <2>2. reading' = "done"
    BY <2>1 DEF PrintPage
  <2>3. QED
    BY <1>2, <1>3, <2>2 DEF LogsInv, Numbered
<1>4. CASE command.action = "logs"
  <2>1. nextCursor \in 0..Len(all) /\ nextCursor # NoCursor
    <3>1. First \in Nat /\ nextCursor = First + Len(shown) /\ Len(shown) \in Nat /\ Len(all) \in Nat
      BY <1>4, FirstType DEF LogsInv, JournalTypes
    <3>2. QED
      BY <3>1 DEF NoCursor
  <2>2. /\ \A i \in 1..Len(sheet.items) :
             nextCursor + i \in 1..Len(all) /\ sheet.items[i] = all[nextCursor + i]
        /\ projected.next = NoCursor => nextCursor + Len(sheet.items) = Len(all)
        /\ projected.next # NoCursor => projected.next = nextCursor + Len(sheet.items)
    BY <2>1 DEF PageFollows
  <2>3. /\ sheet.next = NoCursor => nextCursor + Len(sheet.items) = Len(all)
        /\ sheet.next # NoCursor => sheet.next \in {nextCursor, nextCursor + Len(sheet.items)}
    BY <2>1, <2>2
  <2>4. /\ \A i \in 1..Len(shown') : shown'[i] = First + i
        /\ reading' # "done" =>
             exit' = NoCode /\ nextCursor' \in seen' /\ nextCursor' = First + Len(shown')
        /\ exit' = Ok => First + Len(shown') = lastPage'.total
        /\ exit' = Interrupted => lastPage' # NoPage
    BY <1>4, <2>1, <2>2, <2>3, PrintFollows
  <2>5. QED
    BY <1>1, <1>2, <1>4, <2>4 DEF LogsInv, Numbered
<1>5. QED
  BY <1>3, <1>4

LEMMA LogsStep == JournalTypes /\ LogsInv /\ [JournalNext]_journalVars => LogsInv'
<1> SUFFICES ASSUME JournalTypes, LogsInv, [JournalNext]_journalVars PROVE LogsInv'
  OBVIOUS
<1>1. CASE WriteLine
  <2>1. Numbered(ReadJournal')
    BY <1>1, WriteNumbers DEF LogsInv
  <2>2. QED
    BY <1>1, <2>1, WriterStep DEF WriteLine
<1>2. CASE Tear
  <2>1. Numbered(ReadJournal') /\ UNCHANGED readerVars
    BY <1>2, SameLines DEF Tear, LogsInv, Numbered
  <2>2. QED
    BY <2>1, WriterStep
<1>3. CASE WriteReceipt
  <2>1. Numbered(ReadJournal') /\ UNCHANGED readerVars
    BY <1>3, SameLines DEF WriteReceipt, LogsInv, Numbered
  <2>2. QED
    BY <2>1, WriterStep
<1>4. CASE Rewrite
  <2>1. ReadJournal' = <<>> /\ UNCHANGED readerVars
    BY <1>4, RecordsEmpty DEF Rewrite, ReadJournal
  <2>2. Numbered(ReadJournal')
    BY <2>1 DEF Numbered
  <2>3. QED
    BY <2>1, <2>2, WriterStep
<1>5. CASE Parse
  <2>1. CASE CommandFails("usage")
    BY <1>5, <2>1, FailureStep DEF Parse
  <2>2. CASE /\ AskEvents(IF command.action = "logs" /\ command.cursor = NoCursor THEN 0 ELSE command.cursor)
             /\ UNCHANGED <<shown, lastPage>>
    <3>1. seen = {} /\ shown = <<>> /\ lastPage = NoPage /\ exit = NoCode
      BY <1>5 DEF Parse, LogsInv
    <3>2. /\ reading' \in {"receipt", "remote"} /\ exit' = NoCode /\ shown' = <<>> /\ lastPage' = NoPage
          /\ command.action = "logs" => nextCursor' = First /\ nextCursor' \in seen'
      <4>1. First \in Nat /\ command.action = "logs" =>
              (IF command.action = "logs" /\ command.cursor = NoCursor THEN 0 ELSE command.cursor) = First
        BY DEF First
      <4>2. First \in Nat /\ First # NoCursor
        BY FirstType DEF JournalTypes, NoCursor
      <4>3. QED
        BY <2>2, <3>1, <4>1, <4>2 DEF AskEvents
    <3>3. ReadJournal' = ReadJournal /\ First' = First /\ command' = command
      BY <1>5, SameLines DEF Parse, fileVars, First
    <3>4. Len(shown') = 0 /\ First \in Nat
      BY <3>2, FirstType DEF JournalTypes
    <3>5. Numbered(ReadJournal)'
      BY <3>3 DEF LogsInv, Numbered
    <3>6. command.action = "logs" => nextCursor' = First + Len(shown')
      BY <3>2, <3>4
    <3>7. QED
      BY <3>2, <3>3, <3>4, <3>5, <3>6 DEF LogsInv, Ok, Interrupted, NoCode
  <2>3. QED
    BY <1>5, <2>1, <2>2 DEF Parse
<1>6. CASE ReadReceipt
  <2>1. CASE CommandFails("usage")
    BY <1>6, <2>1, FailureStep DEF ReadReceipt
  <2>2. CASE reading' = "journal" /\ UNCHANGED <<nextCursor, seen, shown, lastPage, exit>>
    <3>1. ReadJournal' = ReadJournal /\ First' = First /\ command' = command /\ reading = "receipt"
      BY <1>6, SameLines DEF ReadReceipt, fileVars, First
    <3>2. QED
      BY <2>2, <3>1 DEF LogsInv, Numbered
  <2>3. QED
    BY <1>6, <2>1, <2>2 DEF ReadReceipt
<1>7. CASE ReadEvents
  <2>1. CASE CommandFails("usage")
    BY <1>7, <2>1, FailureStep DEF ReadEvents
  <2>2. CASE /\ ~(tail = "char" \/ nextCursor > Len(ReadJournal))
             /\ reading' = "local" /\ records' = ReadJournal
             /\ UNCHANGED <<nextCursor, seen, shown, lastPage, exit>>
    <3>1. ReadJournal' = ReadJournal /\ First' = First /\ command' = command /\ reading = "journal"
      BY <1>7, SameLines DEF ReadEvents, fileVars, First
    <3>2. nextCursor <= Len(ReadJournal)
      BY <2>2, ReadJournalType DEF JournalTypes, Offsets, NoCursor
    <3>3. QED
      BY <2>2, <3>1, <3>2 DEF LogsInv, Numbered
  <2>3. QED
    BY <1>7, <2>1, <2>2 DEF ReadEvents
<1>8. CASE PrintLocalPage
  <2> DEFINE sheet == ProjectPage(records, status)
  <2>1. PrintPage(sheet) /\ reading = "local" /\ UNCHANGED <<fileVars, command>>
    BY <1>8 DEF PrintLocalPage
  <2>2. sheet \in Pages /\ sheet.total = Len(records) /\ PageFollows(sheet, records, nextCursor)
    BY ProjectedPage DEF JournalTypes
  <2>3. records \in Seq(Int) /\ Numbered(records)
    BY <2>1 DEF JournalTypes, LogsInv
  <2>4. CASE command.action = "logs"
    <3>1. nextCursor <= Len(records)
      BY <2>1, <2>4 DEF LogsInv
    <3> HIDE DEF sheet
    <3>2. QED
      BY <2>1, <2>2, <2>3, <3>1, PrintStep
  <2>5. CASE command.action # "logs"
    <3>1. reading' = "done" /\ command' = command
      BY <2>1, <2>5, JournalAssumption DEF PrintPage, JournalTypes
    <3>2. ReadJournal' = ReadJournal
      BY <2>1, SameLines DEF fileVars
    <3>3. QED
      BY <2>5, <3>1, <3>2 DEF LogsInv, Numbered
  <2>6. QED
    BY <2>4, <2>5
<1>9. CASE RemotePage
  <2> DEFINE sheet == ProjectPage(ReadJournal, receipt)
  <2>1. /\ reading = "remote" /\ UNCHANGED <<fileVars, command>> /\ nextCursor <= Len(ReadJournal)
        /\ \/ PrintPage(sheet)
           \/ sheet.next # NoCursor /\ PrintPage([sheet EXCEPT !.next = nextCursor])
    BY <1>9 DEF RemotePage
  <2>2. ReadJournal \in Seq(Int) /\ Numbered(ReadJournal)
    BY ReadJournalType DEF JournalTypes, LogsInv
  <2>3. sheet \in Pages /\ sheet.total = Len(ReadJournal) /\ PageFollows(sheet, ReadJournal, nextCursor)
    BY <2>2, ProjectedPage DEF JournalTypes
  <2> HIDE DEF sheet
  <2>4. CASE PrintPage(sheet)
    BY <2>1, <2>2, <2>3, <2>4, PrintStep
  <2>5. CASE sheet.next # NoCursor /\ PrintPage([sheet EXCEPT !.next = nextCursor])
    <3> DEFINE back == [sheet EXCEPT !.next = nextCursor]
    <3>1. back \in Pages /\ back.next = nextCursor /\ back.items = sheet.items /\ back.total = sheet.total
      BY <2>3, PageLedBack DEF JournalTypes
    <3>2. PrintPage(back)
      BY <2>5
    <3> HIDE DEF back
    <3>3. QED
      BY <2>1, <2>2, <2>3, <2>5, <3>1, <3>2, PrintStep
  <2>6. QED
    BY <2>1, <2>4, <2>5
<1>10. CASE RemoteFails
  BY <1>10, FailureStep DEF RemoteFails
<1>11. CASE UNCHANGED journalVars
  <2>1. Numbered(ReadJournal') /\ UNCHANGED readerVars
    BY <1>11, SameLines DEF journalVars, readerVars, pageReads, LogsInv, Numbered
  <2>2. QED
    BY <2>1, WriterStep
<1>12. QED
  BY <1>1, <1>2, <1>3, <1>4, <1>5, <1>6, <1>7, <1>8, <1>9, <1>10, <1>11 DEF JournalNext, ReaderStep

\* A log has printed every record from its first cursor on, once and in order, as far
\* as it went, and to the end if it ended with success, whatever the writer and the
\* server do between its pages; and only a log that has printed something counts as
\* interrupted.  (iter_local_event_pages, iter_event_pages, diagnostics_failure)
THEOREM LogsPrintEveryRecord == JournalSpec => []LogsAreWhole
<1>1. JournalInit => JournalTypes /\ LogsInv
  BY JournalTypesInit, LogsInit
<1>2. JournalTypes /\ LogsInv /\ [JournalNext]_journalVars => (JournalTypes /\ LogsInv)'
  BY JournalTypesStep, LogsStep
<1>3. JournalTypes /\ LogsInv => LogsAreWhole
  BY DEF LogsInv, LogsAreWhole, First, Started
<1>4. QED
  BY <1>1, <1>2, <1>3, PTL DEF JournalSpec

-----------------------------------------------------------------------------
(* The walkers, for any collection, page size, limit, page cap and offset. *)

PageTypes ==
  /\ walk \in Walks
  /\ at \in {"next", "asked", "collected", "done", "raised"}
  /\ from \in 0..walk.total
  /\ next \in [pos : 0..walk.total, size : Nat]
  /\ Walker # "feature-server" => last = next
  /\ Walker = "feature-server" => (next = NoLink /\ last \subseteq Rows)
  /\ next # NoLink => (next.size \in 1..walk.size /\ Linked)
  /\ pages \in Nat /\ fetched \in Nat
  /\ got \in [Rows -> 0..2]
  /\ exceeded \in BOOLEAN /\ warned \in BOOLEAN
  /\ at = "asked" => (walk.limit = 0 \/ fetched < walk.limit)

\* The servers a walker gets through, from the row it is asked to start at: the links
\* of one that knows no offset are not followed past the end by STAC's walker only, and
\* not if the collection fits into one page; links are announced where _next_link looks;
\* items_pages resumes at an offset only if it is handed one itself.
WellServed ==
  /\ Linked
  /\ Walker = "feature-server" => Server \in {"offset", "stuck"}
  /\ Server = "token" => (Walker = "stac" /\ walk.start = 0 /\ walk.size < walk.total)
  /\ (Walker = "ogc" /\ walk.method.facade # "none") => walk.start = 0

\* The limit leaves something to ask for.
Open == walk.limit = 0 \/ fetched < walk.limit
Kept(r) == walk.limit = 0 \/ Yields = "pages" \/ r <= StartsAt + walk.limit

\* The rows up to p have been handed out, once each, and the next request goes on from
\* there.
WalkedTo(p) ==
  /\ p \in StartsAt..walk.total
  /\ \A r \in Rows : got[r] = IF r > StartsAt /\ r <= p /\ Kept(r) THEN 1 ELSE 0
  /\ fetched = IF walk.limit = 0 THEN 0 ELSE p - StartsAt
  /\ walk.limit > 0 => p < StartsAt + walk.limit + walk.size
  /\ Walker = "feature-server" => \A r \in last : r <= p
  /\ Walker = "ogc" => p <= from
  /\ Server = "plain" => next = NoLink
  /\ (at \in {"next", "asked"} /\ Open) => Position = p
  /\ (at \in {"collected", "done"} /\ Honest) => (p = walk.total \/ ~Open \/ CapReached)

\* A FeatureServer that answers every request with its first page has been heard once.
HeardOnce ==
  /\ \A r \in Rows : got[r] <= 1
  /\ at \in {"next", "asked"} =>
       \/ last = {} /\ \A r \in Rows : got[r] = 0
       \/ last # {} /\ Page \subseteq last

CollectInv ==
  WellServed =>
    /\ Server # "stuck" => \E p \in Nat : WalkedTo(p)
    /\ (Server = "stuck" /\ Walker = "feature-server") => HeardOnce

\* Whatever the server, rows that are missing behind the walker are announced.
Told == WantedRows \subseteq Collected \/ exceeded
SignalInv ==
  (Yields = "result" /\ walk.limit = 0 /\ Server # "plain" /\ Flagged) =>
    /\ at \in {"next", "asked"} => \A r \in WantedRows : r <= Position => got[r] > 0
    /\ (at \in {"collected", "done"} \/ pages > 0 \/ (Walker = "feature-server" /\ last # {})) => Told
    /\ (at = "done" /\ exceeded /\ CapReached) => warned

-----------------------------------------------------------------------------
(* A page. *)

LEMMA LesserOfTwo ==
  ASSUME NEW a \in Int, NEW b \in Int
  PROVE  Min({a, b}) = IF a <= b THEN a ELSE b
<1>1. \E x \in {a, b} : \A y \in {a, b} : x <= y
  OBVIOUS
<1>2. Min({a, b}) \in {a, b} /\ \A y \in {a, b} : Min({a, b}) <= y
  BY <1>1 DEF Min
<1>3. QED
  BY <1>2

LEMMA WalkFields ==
  ASSUME walk \in Walks
  PROVE  /\ walk.total \in Nat /\ walk.size \in Nat \ {0} /\ walk.cap \in Nat \ {0}
         /\ walk.limit \in Nat /\ walk.maxPages \in Nat /\ walk.start \in Nat
         /\ Server \in {"offset", "plain", "token", "stuck"}
         /\ walk.method \in Methods
BY WalksAssumption DEF Server

\* The page a request asks for.
LEMMA PageFacts ==
  ASSUME PageTypes, at = "asked"
  PROVE  /\ Position \in 0..walk.total /\ Asked \in 1..walk.size /\ PageLimit \in 1..walk.size
         /\ PageEnd \in Position..walk.total /\ PageEnd <= Position + Asked
         /\ (PageEnd < Position + Asked /\ Asked <= walk.cap) => PageEnd = walk.total
         /\ PageEnd = Position => PageEnd = walk.total
         /\ Page = (Position + 1)..PageEnd /\ Cardinality(Page) = PageEnd - Position
         /\ Page \subseteq Rows
<1>1. /\ walk.total \in Nat /\ walk.size \in Nat \ {0} /\ walk.cap \in Nat \ {0} /\ walk.limit \in Nat
  BY WalkFields DEF PageTypes
<1>2. Position \in 0..walk.total
  BY <1>1 DEF PageTypes, Position
<1>3. PageLimit \in 1..walk.size
  <2>1. CASE walk.limit = 0
    BY <1>1, <2>1 DEF PageLimit
  <2>2. CASE walk.limit # 0
    <3>1. walk.limit - fetched \in Nat \ {0}
      BY <1>1, <2>2 DEF PageTypes
    <3>2. Min({walk.size, walk.limit - fetched}) =
            IF walk.size <= walk.limit - fetched THEN walk.size ELSE walk.limit - fetched
      BY <1>1, <3>1, LesserOfTwo
    <3>3. QED
      BY <1>1, <2>2, <3>1, <3>2 DEF PageLimit
  <2>3. QED
    BY <2>1, <2>2
<1>4. Asked \in 1..walk.size
  BY <1>3 DEF Asked, PageTypes
<1> DEFINE least == Min({Asked, walk.cap})
<1>5. least \in Nat \ {0} /\ least <= Asked /\ (Asked <= walk.cap => least = Asked)
  BY <1>1, <1>4, LesserOfTwo
<1>6. PageEnd = Min({Position + least, walk.total})
  BY DEF PageEnd, Clip
<1> HIDE DEF least
<1>7. PageEnd = IF Position + least <= walk.total THEN Position + least ELSE walk.total
  BY <1>1, <1>2, <1>5, <1>6, LesserOfTwo
<1>8. /\ PageEnd \in Position..walk.total /\ PageEnd <= Position + Asked
      /\ (PageEnd < Position + Asked /\ Asked <= walk.cap) => PageEnd = walk.total
      /\ PageEnd = Position => PageEnd = walk.total
  BY <1>1, <1>2, <1>4, <1>5, <1>7
<1>9. Page = (Position + 1)..PageEnd
  BY DEF Page
<1>10. Cardinality(Page) = PageEnd - Position
  <2>1. Position + 1 \in Int /\ PageEnd \in Int
    BY <1>2, <1>8
  <2>2. Cardinality((Position + 1)..PageEnd) = IF Position + 1 > PageEnd THEN 0 ELSE PageEnd - (Position + 1) + 1
    BY ONLY <2>1, FS_Interval
  <2>3. QED
    BY <1>2, <1>8, <1>9, <2>2
<1>11. Page \subseteq Rows
  BY <1>1, <1>2, <1>8, <1>9 DEF Rows
<1>12. QED
  BY <1>2, <1>3, <1>4, <1>8, <1>9, <1>10, <1>11

\* The link it comes with.
LEMMA LinkFacts ==
  ASSUME PageTypes, at = "asked"
  PROVE  /\ PageLink \in [pos : 0..walk.total, size : Nat]
         /\ PageLink # NoLink => (PageLink.size \in 1..walk.size /\ More /\ Linked /\ Walker # "feature-server")
         /\ (PageLink # NoLink /\ Server # "stuck") => PageLink.pos = PageEnd
         /\ (More /\ Linked /\ Walker # "feature-server") => PageLink # NoLink
<1>1. walk.total \in Nat /\ Asked \in 1..walk.size /\ PageEnd \in 0..walk.total /\ walk.size \in Nat
  BY PageFacts, WalkFields DEF PageTypes
<1>2. CASE ~More \/ ~Linked \/ Walker = "feature-server"
  <2>1. PageLink = NoLink
    BY <1>2 DEF PageLink
  <2>2. QED
    BY <1>1, <1>2, <2>1 DEF NoLink
<1>3. CASE More /\ Linked /\ Walker # "feature-server"
  <2>1. PageLink = [pos |-> IF Server = "stuck" THEN 0 ELSE PageEnd, size |-> Asked]
    BY <1>3 DEF PageLink, Link
  <2>2. Asked # 0
    BY <1>1
  <2>3. QED
    BY <1>1, <1>3, <2>1, <2>2 DEF NoLink
<1>4. QED
  BY <1>2, <1>3

LEMMA Clipped ==
  ASSUME walk \in Walks, NEW n \in Nat
  PROVE  Clip(n) = (IF n <= walk.total THEN n ELSE walk.total) /\ Clip(n) \in 0..walk.total
<1>1. walk.total \in Nat
  BY WalkFields
<1>2. Clip(n) = IF n <= walk.total THEN n ELSE walk.total
  BY <1>1, LesserOfTwo DEF Clip
<1>3. QED
  BY <1>1, <1>2

LEMMA StartType == walk \in Walks => StartsAt \in 0..walk.total
<1> SUFFICES ASSUME walk \in Walks PROVE StartsAt \in 0..walk.total
  OBVIOUS
<1>1. walk.total \in Nat /\ walk.start \in Nat
  BY WalkFields
<1>2. Clip(walk.start) \in 0..walk.total
  BY <1>1, Clipped
<1>3. QED
  BY <1>1, <1>2 DEF StartsAt

\* What handing a page out changes.
LEMMA HandedOut ==
  ASSUME PageTypes, at = "asked", HandOut
  PROVE  /\ \A r \in Rows : got'[r] = IF r \in Take(Page) THEN (IF got[r] = 0 THEN 1 ELSE 2) ELSE got[r]
         /\ got' \in [Rows -> 0..2]
         /\ fetched' = (IF walk.limit = 0 THEN 0 ELSE fetched + (PageEnd - Position)) /\ fetched' \in Nat
         /\ pages' \in Nat /\ exceeded' = TransferExceeded
         /\ PageCap # 0 => pages' > 0
<1>1. ASSUME NEW r \in Rows PROVE Min({2, got[r] + 1}) = IF got[r] = 0 THEN 1 ELSE 2
  <2>1. got[r] \in 0..2
    BY DEF PageTypes
  <2>2. QED
    BY <2>1, LesserOfTwo
<1>2. \A r \in Rows : got'[r] = IF r \in Take(Page) THEN (IF got[r] = 0 THEN 1 ELSE 2) ELSE got[r]
  BY <1>1 DEF HandOut
<1>3. got' \in [Rows -> 0..2]
  <2>1. \A r \in Rows : got[r] \in 0..2
    BY DEF PageTypes
  <2>2. \A r \in Rows : got'[r] \in 0..2
    BY <1>2, <2>1
  <2>3. got' = [r \in Rows |-> got'[r]]
    BY DEF HandOut
  <2>4. QED
    BY <2>2, <2>3
<1>4. PageEnd - Position \in Nat /\ Cardinality(Page) = PageEnd - Position
  BY PageFacts, WalkFields DEF PageTypes
<1>5. fetched' = (IF walk.limit = 0 THEN 0 ELSE fetched + (PageEnd - Position)) /\ fetched' \in Nat
  BY <1>4 DEF HandOut, PageTypes
<1>6. QED
  BY <1>2, <1>3, <1>5 DEF HandOut, PageTypes

-----------------------------------------------------------------------------
(* Types. *)

LEMMA PageTypesInit == PageInit => PageTypes
<1> SUFFICES ASSUME PageInit PROVE PageTypes
  OBVIOUS
<1>1. walk \in Walks
  BY DEF PageInit
<1>2. from \in 0..walk.total
  BY <1>1, StartType DEF PageInit
<1>3. walk.total \in Nat
  BY <1>1, WalkFields
<1>4. NoLink \in [pos : 0..walk.total, size : Nat]
  BY <1>3 DEF NoLink
<1>5. got \in [Rows -> 0..2]
  BY DEF PageInit
<1>6. /\ at = "next" /\ next = NoLink /\ fetched = 0 /\ pages = 0 /\ exceeded = FALSE /\ warned = FALSE
      /\ last = IF Walker = "feature-server" THEN {} ELSE NoLink
  BY DEF PageInit
<1>7. QED
  BY <1>1, <1>2, <1>4, <1>5, <1>6 DEF PageTypes

\* The walk is fixed, and with it all that is said of the collection and the method.
LEMMA SameWalk ==
  ASSUME walk' = walk
  PROVE  /\ Walker' = Walker /\ Yields' = Yields /\ Server' = Server /\ Rows' = Rows
         /\ StartsAt' = StartsAt /\ PageCap' = PageCap /\ WantedRows' = WantedRows
         /\ Honest' = Honest /\ WellServed' = WellServed /\ Linked' = Linked /\ Flagged' = Flagged
BY DEF Linked, Flagged, Walker, Yields, Server, Rows, StartsAt, PageCap, WantedRows, Honest, WellServed, Clip

LEMMA WalkIsFixed == [PageNext]_pageVars => walk' = walk
<1>1. (StopWalk \/ Ask \/ Fail \/ CancelWalk \/ Return) => walk' = walk
  BY Zenon DEF StopWalk, Ask, Fail, CancelWalk, Return
<1>2. (AnswerFeatureServer \/ AnswerOgc \/ AnswerStac) => walk' = walk
  BY Zenon DEF AnswerFeatureServer, AnswerOgc, AnswerStac
<1>3. QED
  BY <1>1, <1>2 DEF PageNext, pageVars

LEMMA PageTypesStep == PageTypes /\ [PageNext]_pageVars => PageTypes'
<1> SUFFICES ASSUME PageTypes, [PageNext]_pageVars PROVE PageTypes'
  OBVIOUS
<1> USE DEF position, result, pageVars
<1>1. walk' = walk /\ walk \in Walks
  BY WalkIsFixed DEF PageTypes
<1>2. Walker' = Walker /\ Rows' = Rows /\ Linked' = Linked
  BY <1>1, SameWalk
<1>3. walk.total \in Nat /\ walk.size \in Nat \ {0}
  BY <1>1, WalkFields
\* What an answer has to keep.
<1>a. ASSUME at = "asked", HandOut, UNCHANGED warned,
             at' \in {"collected", "next"}, from' \in 0..walk.total,
             next' \in [pos : 0..walk.total, size : Nat], next' # NoLink => (next'.size \in 1..walk.size /\ Linked),
             Walker # "feature-server" => last' = next',
             Walker = "feature-server" => (next' = NoLink /\ last' \subseteq Rows)
      PROVE  PageTypes'
  <2>1. got' \in [Rows -> 0..2] /\ fetched' \in Nat /\ pages' \in Nat /\ exceeded' \in BOOLEAN
    <3>1. TransferExceeded \in BOOLEAN
      BY Zenon DEF TransferExceeded
    <3>2. QED
      BY <1>a, <3>1, HandedOut
  <2>2. warned' \in BOOLEAN /\ at' # "asked"
    BY <1>a DEF PageTypes
  <2>3. QED
    BY <1>a, <1>1, <1>2, <2>1, <2>2 DEF PageTypes
<1>b. ASSUME UNCHANGED <<position, result>>, at' \in {"next", "collected", "done", "raised"}, warned' \in BOOLEAN
      PROVE  PageTypes'
  BY <1>b, <1>1, <1>2 DEF PageTypes
<1>4. CASE StopWalk \/ Fail \/ CancelWalk
  <2>1. UNCHANGED <<position, result>> /\ at' \in {"next", "collected", "done", "raised"} /\ warned' = warned
    BY <1>4 DEF StopWalk, Fail, CancelWalk
  <2>2. QED
    BY <1>b, <2>1 DEF PageTypes
<1>5. CASE Return
  <2>1. UNCHANGED <<position, result>> /\ at' = "done"
    BY <1>5 DEF Return
  <2>2. warned' \in BOOLEAN
    BY <1>5, Zenon DEF Return
  <2>3. QED
    BY <1>b, <2>1, <2>2
<1>6. CASE Ask
  BY <1>6, <1>1, <1>2 DEF Ask, PageTypes
<1>7. CASE AnswerFeatureServer
  <2>1. at = "asked" /\ Walker = "feature-server" /\ next = NoLink
    BY <1>7 DEF AnswerFeatureServer, PageTypes
  <2>2. CASE Page # {} /\ Page \subseteq last
    <3>1. UNCHANGED <<position, result>> /\ at' = "collected" /\ warned' = warned
      BY <1>7, <2>2 DEF AnswerFeatureServer
    <3>2. QED
      BY <1>b, <3>1 DEF PageTypes
  <2>3. CASE ~(Page # {} /\ Page \subseteq last)
    <3>1. /\ HandOut /\ After(Page = {} \/ ~More) /\ last' = Page
          /\ from' = Clip(from + Cardinality(Page)) /\ next' = next /\ warned' = warned
      BY <1>7, <2>3 DEF AnswerFeatureServer
    <3>2. from + Cardinality(Page) \in Nat /\ Page \subseteq Rows
      BY <1>3, <2>1, PageFacts DEF PageTypes
    <3>3. from' \in 0..walk.total
      BY <1>1, <3>1, <3>2, Clipped
    <3>5. at' \in {"collected", "next"}
      BY <3>1 DEF After
    <3>6. QED
      BY <1>a, <2>1, <3>1, <3>2, <3>3, <3>5 DEF PageTypes
  <2>4. QED
    BY <2>2, <2>3
<1>8. CASE AnswerOgc \/ AnswerStac
  <2>1. /\ at = "asked" /\ Walker # "feature-server" /\ HandOut
        /\ next' = PageLink /\ last' = PageLink /\ warned' = warned
    BY <1>8 DEF AnswerOgc, AnswerStac
  <2>2. at' \in {"collected", "next"}
    BY <1>8 DEF AnswerOgc, AnswerStac, After
  <2>3. from' \in 0..walk.total
    <3>0. from \in Nat /\ Cardinality(Page) \in Nat
      BY <1>3, <2>1, PageFacts DEF PageTypes
    <3>1. from + walk.size \in Nat /\ from + Cardinality(Page) \in Nat
      BY <1>3, <3>0
    <3>2. Clip(from + walk.size) \in 0..walk.total /\ Clip(from + Cardinality(Page)) \in 0..walk.total
      BY <1>1, <3>1, Clipped
    <3>3. CASE AnswerOgc
      BY <3>2, <3>3 DEF AnswerOgc
    <3>4. CASE AnswerStac
      BY <3>2, <3>4 DEF AnswerStac, PageTypes
    <3>5. QED
      BY <1>8, <3>3, <3>4
  <2>5. QED
    BY <1>a, <2>1, <2>2, <2>3, LinkFacts
<1>9. CASE UNCHANGED pageVars
  BY <1>9, <1>2 DEF PageTypes
<1>10. QED
  BY <1>4, <1>5, <1>6, <1>7, <1>8, <1>9 DEF PageNext

-----------------------------------------------------------------------------
(* What is collected. *)

LEMMA WalkedOn ==
  ASSUME PageTypes, at = "asked", NEW p \in Nat, WalkedTo(p), HandOut
  PROVE  /\ Position = p /\ PageEnd \in Nat /\ PageEnd \in StartsAt..walk.total
         /\ \A r \in Rows : got'[r] = IF r > StartsAt /\ r <= PageEnd /\ Kept(r) THEN 1 ELSE 0
         /\ fetched' = IF walk.limit = 0 THEN 0 ELSE PageEnd - StartsAt
         /\ walk.limit > 0 => PageEnd < StartsAt + walk.limit + walk.size
<1>1. /\ walk.total \in Nat /\ walk.limit \in Nat /\ walk.size \in Nat \ {0} /\ StartsAt \in Nat
  BY WalkFields, StartType DEF PageTypes
<1>2. /\ p \in StartsAt..walk.total
      /\ \A r \in Rows : got[r] = IF r > StartsAt /\ r <= p /\ Kept(r) THEN 1 ELSE 0
      /\ fetched = IF walk.limit = 0 THEN 0 ELSE p - StartsAt
      /\ Open => Position = p
  BY DEF WalkedTo
<1>3. Open /\ Position = p
  BY <1>2 DEF PageTypes, Open
<1>4. /\ PageEnd \in p..walk.total /\ PageEnd <= p + Asked /\ Asked \in 1..walk.size
      /\ Page = (p + 1)..PageEnd
  BY <1>3, PageFacts
<1>5. /\ \A r \in Rows : got'[r] = IF r \in Take(Page) THEN (IF got[r] = 0 THEN 1 ELSE 2) ELSE got[r]
      /\ fetched' = IF walk.limit = 0 THEN 0 ELSE fetched + (PageEnd - Position)
  BY HandedOut
<1>6. ASSUME NEW r \in Rows PROVE r \in Take(Page) <=> (p < r /\ r <= PageEnd /\ Kept(r))
  <2>1. r \in Nat
    BY <1>1 DEF Rows
  <2>2. r \in Page <=> (p < r /\ r <= PageEnd)
    BY <1>1, <1>4, <2>1
  <2>3. CASE walk.limit = 0 \/ Yields = "pages"
    BY <2>2, <2>3 DEF Take, Kept
  <2>4. CASE ~(walk.limit = 0 \/ Yields = "pages")
    <3>1. fetched = p - StartsAt
      BY <1>2, <2>4
    <3>2. r - Position <= walk.limit - fetched <=> r <= StartsAt + walk.limit
      BY <1>1, <1>3, <2>1, <3>1
    <3>3. QED
      BY <2>2, <2>4, <3>2 DEF Take, Kept
  <2>5. QED
    BY <2>3, <2>4
<1>7. ASSUME NEW r \in Rows PROVE got'[r] = IF r > StartsAt /\ r <= PageEnd /\ Kept(r) THEN 1 ELSE 0
  <2>1. r \in Nat
    BY <1>1 DEF Rows
  <2>2. CASE p < r
    BY <1>1, <1>2, <1>5, <1>6, <2>1, <2>2
  <2>3. CASE ~(p < r)
    <3>1. r \notin Take(Page) /\ r <= p /\ r <= PageEnd
      BY <1>1, <1>4, <1>6, <2>1, <2>3
    <3>2. QED
      BY <1>2, <1>5, <3>1
  <2>4. QED
    BY <2>2, <2>3
<1>8. fetched' = IF walk.limit = 0 THEN 0 ELSE PageEnd - StartsAt
  BY <1>1, <1>2, <1>3, <1>4, <1>5
<1>9. walk.limit > 0 => PageEnd < StartsAt + walk.limit + walk.size
  BY <1>1, <1>2, <1>3, <1>4 DEF Open
<1>10. QED
  BY <1>1, <1>2, <1>3, <1>4, <1>7, <1>8, <1>9

\* Whether the walk can go on, and from where, once its page is handed out.
LEMMA CollectStep == PageTypes /\ CollectInv /\ [PageNext]_pageVars => CollectInv'
<1> SUFFICES ASSUME PageTypes, CollectInv, [PageNext]_pageVars PROVE CollectInv'
  OBVIOUS
<1> USE DEF position, result, pageVars
<1>1. walk' = walk /\ walk \in Walks
  BY WalkIsFixed DEF PageTypes
<1>2. /\ Walker' = Walker /\ Yields' = Yields /\ Server' = Server /\ Rows' = Rows
      /\ StartsAt' = StartsAt /\ PageCap' = PageCap /\ Honest' = Honest
      /\ \A r : Kept(r)' = Kept(r)
  BY <1>1, SameWalk DEF Kept
<1>3. /\ walk.total \in Nat /\ walk.limit \in Nat /\ walk.size \in Nat \ {0} /\ walk.cap \in Nat \ {0}
      /\ StartsAt \in Nat /\ Server \in {"offset", "plain", "token", "stuck"}
      /\ walk.start \in Nat
  BY <1>1, WalkFields, StartType
<1> SUFFICES ASSUME WellServed
             PROVE  /\ Server # "stuck" => (\E p \in Nat : WalkedTo(p))'
                    /\ (Server = "stuck" /\ Walker = "feature-server") => HeardOnce'
  BY <1>1, <1>2, SameWalk DEF CollectInv
\* An answer.
<1>a. ASSUME at = "asked", NEW p \in Nat, WalkedTo(p), Server # "stuck", HandOut,
             Walker = "feature-server" => \A r \in last' : r <= PageEnd,
             Walker = "ogc" => PageEnd <= from',
             Server = "plain" => next' = NoLink,
             (at' = "next" /\ Open') => Position' = PageEnd,
             at' \in {"next", "collected"},
             (at' = "collected" /\ Honest) => (PageEnd = walk.total \/ ~Open')
      PROVE  (\E q \in Nat : WalkedTo(q))'
  <2>1. /\ PageEnd \in Nat /\ PageEnd \in StartsAt..walk.total
        /\ \A r \in Rows : got'[r] = IF r > StartsAt /\ r <= PageEnd /\ Kept(r) THEN 1 ELSE 0
        /\ fetched' = IF walk.limit = 0 THEN 0 ELSE PageEnd - StartsAt
        /\ walk.limit > 0 => PageEnd < StartsAt + walk.limit + walk.size
    BY <1>a, WalkedOn
  <2> DEFINE q == PageEnd
  <2>2. PICK n \in Nat : n = PageEnd
    BY <2>1
  <2>3. WalkedTo(n)'
    BY <1>a, <1>1, <1>2, <2>1, <2>2 DEF WalkedTo
  <2>4. QED
    BY <2>3
\* A step that hands nothing out.
<1>b. ASSUME UNCHANGED <<position, result>>, NEW p \in Nat, WalkedTo(p),
             at' \in {"next", "asked"} => at \in {"next", "asked"},
             at' \in {"collected", "done"} => (at \in {"collected", "done"} \/ CapReached \/ ~Open)
      PROVE  (\E q \in Nat : WalkedTo(q))'
  <2>1. Open' = Open /\ CapReached' = CapReached /\ Position' = Position
    BY <1>b, <1>1, <1>2 DEF Open, CapReached, Position
  <2>2. WalkedTo(p)'
    BY <1>b, <1>1, <1>2, <2>1 DEF WalkedTo
  <2>3. QED
    BY <2>2
<1>4. ASSUME Server # "stuck" PROVE (\E q \in Nat : WalkedTo(q))'
  <2>0. PICK p \in Nat : WalkedTo(p)
    BY <1>4 DEF CollectInv
  <2>1. CASE StopWalk
    <3>1. UNCHANGED <<position, result>> /\ at' = "collected" /\ (CapReached \/ ~Open)
      BY <1>3, <2>1 DEF StopWalk, CapReached, Open, PageTypes
    <3>2. QED
      BY <1>b, <2>0, <3>1
  <2>2. CASE Ask \/ Fail \/ CancelWalk
    <3>1. /\ UNCHANGED <<position, result>> /\ at' \notin {"collected", "done"}
          /\ at' \in {"next", "asked"} => at \in {"next", "asked"}
      BY <2>2 DEF Ask, Fail, CancelWalk
    <3>2. QED
      BY <1>b, <2>0, <3>1
  <2>3. CASE Return
    <3>1. UNCHANGED <<position, result>> /\ at' = "done" /\ at = "collected"
      BY <2>3 DEF Return
    <3>2. QED
      BY <1>b, <2>0, <3>1
  <2>4. CASE UNCHANGED pageVars
    BY <1>b, <2>0, <2>4
  <2> HIDE DEF position, result, pageVars
  <2>f. ASSUME at = "asked", HandOut, Full PROVE ~Open'
    <3>1. walk.limit > 0 /\ fetched + Cardinality(Page) >= walk.limit
      BY <2>f DEF Full
    <3>2. fetched' = fetched + Cardinality(Page) /\ walk' = walk
      BY <1>1, <1>3, <2>f, <3>1 DEF HandOut
    <3>3. fetched + Cardinality(Page) \in Nat
      BY <1>1, <1>3, <2>f, PageFacts DEF PageTypes
    <3>4. QED
      BY <1>3, <3>1, <3>2, <3>3 DEF Open
  <2>g. ASSUME at = "asked"
        PROVE  /\ Position = p /\ Asked \in 1..walk.size /\ PageLimit \in 1..walk.size
               /\ PageEnd \in p..walk.total /\ PageEnd <= p + Asked
               /\ (PageEnd < p + Asked /\ Asked <= walk.cap) => PageEnd = walk.total
               /\ PageEnd = p => PageEnd = walk.total
               /\ Page = (p + 1)..PageEnd /\ Cardinality(Page) = PageEnd - p
               /\ fetched = (IF walk.limit = 0 THEN 0 ELSE p - StartsAt)
    <3>1. Open
      BY <2>g DEF PageTypes, Open
    <3>2. Position = p
      BY <2>0, <2>g, <3>1 DEF WalkedTo
    <3>3. QED
      BY <2>0, <2>g, <3>2, PageFacts DEF WalkedTo
  <2>h. ASSUME at = "asked", Walker # "feature-server", PageLink # NoLink
        PROVE  /\ PageEnd < walk.total /\ PageLink.pos = PageEnd /\ PageLink # last
               /\ Server \in {"offset", "token"}
    <3>1. More /\ PageLink.pos = PageEnd
      BY <1>4, <2>h, LinkFacts
    <3>2. Server # "plain" /\ PageEnd < walk.total
      BY <1>4, <3>1 DEF More
    <3>3. PageLink # last
      <4>1. SUFFICES ASSUME PageLink = last PROVE FALSE
        OBVIOUS
      <4>2. next = PageLink
        BY <2>h, <4>1 DEF PageTypes
      <4>3. Position = PageEnd
        BY <1>4, <2>h, <3>1, <4>2 DEF Position
      <4>4. QED
        BY <1>3, <2>g, <2>h, <3>2, <4>3
    <3>4. QED
      BY <1>3, <1>4, <3>1, <3>2, <3>3
  <2>i. ASSUME at = "asked", ~More, Server # "plain" PROVE PageEnd = walk.total
    BY <1>3, <1>4, <2>g, <2>i DEF More
  <2>5. CASE AnswerFeatureServer
    <3>1. at = "asked" /\ Walker = "feature-server" /\ Server = "offset" /\ next = NoLink /\ from = p
      <4>1. at = "asked" /\ Walker = "feature-server"
        BY <2>5 DEF AnswerFeatureServer
      <4>2. Server = "offset" /\ next = NoLink
        BY <1>4, <4>1 DEF WellServed, PageTypes
      <4>3. Position = from
        BY <4>2 DEF Position
      <4>4. QED
        BY <2>g, <4>1, <4>2, <4>3
    <3>2. ~(Page # {} /\ Page \subseteq last)
      <4>1. \A r \in last : r <= p
        BY <2>0, <3>1 DEF WalkedTo
      <4>2. \A r \in Page : ~(r <= p)
        BY <2>g, <3>1
      <4>3. QED
        BY <4>1, <4>2
    <3>3. /\ HandOut /\ After(Page = {} \/ ~More) /\ last' = Page
          /\ from' = Clip(from + Cardinality(Page)) /\ next' = next
      BY <2>5, <3>2 DEF AnswerFeatureServer
    <3>4. from' = PageEnd
      <4>1. from + Cardinality(Page) = PageEnd /\ PageEnd \in 0..walk.total
        BY <1>3, <2>g, <3>1
      <4>2. Clip(PageEnd) = PageEnd
        BY <1>1, <1>3, <4>1, Clipped
      <4>3. QED
        BY <3>3, <4>1, <4>2
    <3>5. \A r \in last' : r <= PageEnd
      BY <1>3, <2>g, <3>1, <3>3
    <3>6. Position' = PageEnd
      BY <1>2, <3>1, <3>3, <3>4 DEF Position
    <3>7. at' = "collected" => (PageEnd = walk.total \/ ~Open')
      <4>1. CASE Full
        BY <2>f, <3>1, <3>3, <4>1
      <4>2. CASE Page = {}
        <5>1. PageEnd = p
          BY <1>3, <2>g, <3>1, <4>2
        <5>2. QED
          BY <2>g, <3>1, <5>1
      <4>3. CASE ~More
        BY <2>i, <3>1, <4>3
      <4>4. QED
        BY <3>3, <4>1, <4>2, <4>3 DEF After
    <3>8. at' \in {"next", "collected"}
      BY <3>3 DEF After
    <3>9. QED
      BY <1>4, <1>a, <2>0, <3>1, <3>3, <3>5, <3>6, <3>7, <3>8
  <2>j. ASSUME AnswerOgc \/ AnswerStac
        PROVE  /\ at = "asked" /\ Walker # "feature-server" /\ HandOut
               /\ next' = PageLink /\ at' \in {"next", "collected"}
               /\ Server = "plain" => next' = NoLink
               /\ next' # NoLink => Position' = PageEnd
    <3>1. /\ at = "asked" /\ Walker # "feature-server" /\ HandOut
          /\ next' = PageLink
      BY <2>j DEF AnswerOgc, AnswerStac
    <3>2. at' \in {"next", "collected"}
      BY <2>j DEF AnswerOgc, AnswerStac, After
    <3>3. Server = "plain" => next' = NoLink
      BY <2>h, <3>1
    <3>4. next' # NoLink => Position' = PageEnd
      BY <1>2, <1>4, <2>h, <3>1 DEF Position
    <3>5. QED
      BY <3>1, <3>2, <3>3, <3>4
  <2>k. ASSUME at = "asked", Honest, Server = "plain", Cardinality(Page) < PageLimit PROVE PageEnd = walk.total
    <3>1. next = NoLink
      BY <2>0, <2>k DEF WalkedTo
    <3>2. Asked = PageLimit
      BY <3>1 DEF Asked
    <3>3. walk.cap >= walk.size
      BY <2>k DEF Honest
    <3>4. PageEnd < p + Asked /\ Asked <= walk.cap
      BY <1>3, <2>g, <2>k, <3>2, <3>3
    <3>5. QED
      BY <2>g, <2>k, <3>4
  <2>6. CASE AnswerOgc
    <3>1. Walker = "ogc" /\ from' = Clip(from + walk.size) /\ Server \in {"offset", "plain"}
      BY <1>3, <1>4, <2>6 DEF AnswerOgc, WellServed
    <3>c. ASSUME NEW n \in Nat PROVE Clip(n) = IF n <= walk.total THEN n ELSE walk.total
      BY <1>1, Clipped
    <3>2. PageEnd <= from'
      <4>1. p <= from /\ from \in Nat
        BY <1>3, <2>0, <3>1 DEF WalkedTo, PageTypes
      <4>2. PageEnd \in Nat /\ PageEnd <= walk.total /\ PageEnd <= from + walk.size /\ from + walk.size \in Nat
        BY <1>3, <2>g, <2>j, <2>6, <4>1
      <4>3. QED
        BY <1>3, <3>1, <3>c, <4>2
    <3>3. (at' = "next" /\ Open') => Position' = PageEnd
      <4>1. SUFFICES ASSUME at' = "next", Open', next' = NoLink PROVE Position' = PageEnd
        BY <2>j, <2>6
      <4>2. Position' = from' /\ from' \in 0..walk.total
        <5>1. Position' = from'
          BY <1>2, <3>1, <4>1 DEF Position
        <5>2. from + walk.size \in Nat
          BY <1>3 DEF PageTypes
        <5>3. QED
          BY <1>1, <3>1, <5>1, <5>2, Clipped
      <4>3. CASE Server = "offset"
        <5>1. ~More
          BY <2>j, <2>6, <4>1, LinkFacts DEF WellServed
        <5>2. PageEnd = walk.total
          BY <2>i, <2>j, <2>6, <4>3, <5>1
        <5>3. QED
          BY <1>3, <3>2, <4>2, <5>2
      <4>4. CASE Server = "plain"
        <5>1. next = NoLink /\ Position = from /\ Position = p
          BY <2>0, <2>g, <2>j, <2>6, <4>4 DEF WalkedTo, Position
        <5>2. Asked = PageLimit
          BY <5>1 DEF Asked
        <5>3. ~(Cardinality(Page) < PageLimit)
          BY <2>j, <2>6, <4>1 DEF AnswerOgc, After
        <5>4. PageEnd = p + PageLimit
          BY <1>3, <2>g, <2>j, <2>6, <5>2, <5>3
        <5>5. PageLimit = walk.size
          <6>1. CASE walk.limit = 0
            BY <6>1 DEF PageLimit
          <6>2. CASE walk.limit # 0
            <7>1. fetched \in Nat /\ fetched < walk.limit
              BY <2>j, <2>6, <6>2 DEF PageTypes
            <7>2. PageLimit = IF walk.size <= walk.limit - fetched THEN walk.size ELSE walk.limit - fetched
              BY <1>3, <6>2, <7>1, LesserOfTwo DEF PageLimit
            <7>3. fetched' = fetched + PageLimit
              BY <1>3, <2>g, <2>j, <2>6, <5>4, <6>2 DEF HandOut
            <7>4. fetched' < walk.limit
              BY <1>1, <4>1, <6>2 DEF Open
            <7>5. QED
              BY <1>3, <7>1, <7>2, <7>3, <7>4
          <6>3. QED
            BY <6>1, <6>2
        <5>6. PageEnd = from + walk.size /\ PageEnd \in 0..walk.total /\ PageEnd \in Nat
          BY <1>3, <2>g, <2>j, <2>6, <5>1, <5>4, <5>5
        <5>7. QED
          BY <1>3, <3>1, <3>c, <4>2, <5>6
      <4>5. QED
        BY <3>1, <4>3, <4>4
    <3>4. (at' = "collected" /\ Honest) => (PageEnd = walk.total \/ ~Open')
      <4>1. SUFFICES ASSUME at' = "collected", Honest, ~Full PROVE PageEnd = walk.total
        BY <2>f, <2>j, <2>6
      <4>2. IF PageLink = NoLink THEN Cardinality(Page) < PageLimit ELSE PageLink = last
        BY <2>6, <4>1 DEF AnswerOgc, After
      <4>3. PageLink = NoLink /\ Cardinality(Page) < PageLimit
        BY <2>h, <2>j, <2>6, <4>2
      <4>4. CASE Server = "offset"
        <5>1. ~More
          BY <2>j, <2>6, <4>3, LinkFacts DEF WellServed
        <5>2. QED
          BY <2>i, <2>j, <2>6, <4>4, <5>1
      <4>5. CASE Server = "plain"
        BY <2>j, <2>k, <2>6, <4>1, <4>3, <4>5
      <4>6. QED
        BY <3>1, <4>4, <4>5
    <3>5. QED
      BY <1>4, <1>a, <2>0, <2>j, <2>6, <3>1, <3>2, <3>3, <3>4
  <2>7. CASE AnswerStac
    <3>1. /\ Walker = "stac" /\ Server \in {"offset", "plain", "token"}
          /\ from' = IF PageLink = NoLink THEN Clip(from + Cardinality(Page)) ELSE from
      BY <1>3, <1>4, <2>7 DEF AnswerStac
    <3>2. ASSUME PageLink = NoLink, Server \in {"offset", "token"} PROVE PageEnd = walk.total
      <4>1. ~More
        BY <2>j, <2>7, <3>2, LinkFacts DEF WellServed
      <4>2. QED
        BY <2>i, <2>j, <2>7, <3>2, <4>1
    <3>3. (at' = "next" /\ Open') => Position' = PageEnd
      <4>1. SUFFICES ASSUME at' = "next", Open', next' = NoLink PROVE Position' = PageEnd
        BY <2>j, <2>7
      <4>2. next = NoLink
        BY <2>j, <2>7, <4>1 DEF AnswerStac, After
      <4>3. CASE Server = "token"
        <5>1. Position = 0 /\ p = 0
          BY <2>g, <2>j, <2>7, <4>2, <4>3 DEF Position, NoLink
        <5>2. walk.size < walk.total
          BY <4>3 DEF WellServed
        <5>3. PageEnd = walk.total
          BY <2>j, <2>7, <3>2, <4>1, <4>3
        <5>4. QED
          BY <1>3, <2>g, <2>j, <2>7, <5>1, <5>2, <5>3
      <4>4. CASE Server # "token"
        <5>1. Position = from /\ Position = p
          BY <1>4, <2>g, <2>j, <2>7, <4>2, <4>4 DEF Position
        <5>2. from + Cardinality(Page) = PageEnd /\ PageEnd \in Nat /\ PageEnd <= walk.total
          BY <1>3, <2>g, <2>j, <2>7, <5>1
        <5>3. from' = PageEnd
          <6>1. Clip(PageEnd) = PageEnd
            BY <1>1, <1>3, <5>2, Clipped
          <6>2. QED
            BY <2>j, <2>7, <3>1, <4>1, <5>2, <6>1
        <5>4. QED
          BY <1>2, <1>4, <4>1, <4>4, <5>3 DEF Position
      <4>5. QED
        BY <4>3, <4>4
    <3>4. (at' = "collected" /\ Honest) => (PageEnd = walk.total \/ ~Open')
      <4>1. SUFFICES ASSUME at' = "collected", Honest, ~Full PROVE PageEnd = walk.total
        BY <2>f, <2>j, <2>7
      <4>2. IF PageLink = NoLink THEN next # NoLink \/ Cardinality(Page) < PageLimit ELSE PageLink = last
        BY <2>7, <4>1 DEF AnswerStac, After
      <4>3. PageLink = NoLink /\ (next # NoLink \/ Cardinality(Page) < PageLimit)
        BY <2>h, <2>j, <2>7, <4>2
      <4>4. CASE Server = "plain"
        <5>1. next = NoLink
          BY <2>0, <4>4 DEF WalkedTo
        <5>2. QED
          BY <2>j, <2>k, <2>7, <4>1, <4>3, <4>4, <5>1
      <4>5. CASE Server # "plain"
        BY <3>1, <3>2, <4>3, <4>5
      <4>6. QED
        BY <4>4, <4>5
    <3>5. QED
      BY <1>4, <1>a, <2>0, <2>j, <2>7, <3>1, <3>3, <3>4
  <2>8. QED
    BY <2>1, <2>2, <2>3, <2>4, <2>5, <2>6, <2>7 DEF PageNext
<1>5. ASSUME Server = "stuck", Walker = "feature-server" PROVE HeardOnce'
  <2>0. HeardOnce
    BY <1>5 DEF CollectInv
  <2>1. CASE StopWalk \/ Fail \/ CancelWalk \/ Return
    <3>1. got' = got /\ at' \notin {"next", "asked"}
      BY <2>1 DEF StopWalk, Fail, CancelWalk, Return
    <3>2. QED
      BY <1>2, <2>0, <3>1 DEF HeardOnce
  <2>2. CASE Ask \/ UNCHANGED pageVars
    <3>1. got' = got /\ last' = last /\ UNCHANGED <<position, result>> /\ (at' \in {"next", "asked"} => at \in {"next", "asked"})
      BY <2>2 DEF Ask
    <3>2. Page' = Page
      BY <1>1, <3>1 DEF Page, PageEnd, Position, Asked, PageLimit, Clip, Server
    <3>3. QED
      BY <1>2, <2>0, <3>1, <3>2 DEF HeardOnce
  <2>3. CASE AnswerFeatureServer
    <3>1. at = "asked" /\ next = NoLink /\ Position = 0
      BY <1>5, <2>3 DEF AnswerFeatureServer, PageTypes, Position
    <3>2. CASE Page # {} /\ Page \subseteq last
      <4>1. at' = "collected" /\ got' = got
        BY <2>3, <3>2 DEF AnswerFeatureServer
      <4>2. QED
        BY <1>2, <2>0, <4>1 DEF HeardOnce
    <3>3. CASE ~(Page # {} /\ Page \subseteq last)
      <4>1. HandOut /\ After(Page = {} \/ ~More) /\ last' = Page /\ next' = next
        BY <2>3, <3>3 DEF AnswerFeatureServer
      <4>2. /\ \A r \in Rows : got'[r] = IF r \in Take(Page) THEN (IF got[r] = 0 THEN 1 ELSE 2) ELSE got[r]
            /\ fetched' = IF walk.limit = 0 THEN 0 ELSE fetched + (PageEnd - Position)
        BY <3>1, <4>1, HandedOut
      <4>3. Take(Page) \subseteq Page
        BY DEF Take
      <4>4. \A r \in Rows : got'[r] <= 1
        <5>1. CASE Page = {}
          BY <2>0, <4>2, <4>3, <5>1 DEF HeardOnce
        <5>2. CASE Page # {}
          <6>1. \A r \in Rows : got[r] = 0
            BY <2>0, <3>1, <3>3, <5>2 DEF HeardOnce
          <6>2. QED
            BY <4>2, <6>1
        <5>3. QED
          BY <5>1, <5>2
      <4>5. ASSUME at' \in {"next", "asked"} PROVE last' # {} /\ Page' \subseteq last'
        <5>1. Page # {}
          BY <4>1, <4>5 DEF After
        <5>2. fetched \in Nat /\ fetched' \in Nat /\ (walk.limit # 0 => fetched <= fetched')
          <6>1. PageEnd - Position \in Nat
            BY <1>3, <3>1, PageFacts
          <6>2. fetched \in Nat
            BY DEF PageTypes
          <6>3. QED
            BY <4>2, <6>1, <6>2
        <5>3. PageLimit \in Int /\ PageLimit' \in Int /\ PageLimit' <= PageLimit
          <6>1. CASE walk.limit = 0
            BY <1>1, <1>3, <6>1 DEF PageLimit
          <6>2. CASE walk.limit # 0
            <7>1. PageLimit = IF walk.size <= walk.limit - fetched THEN walk.size ELSE walk.limit - fetched
              BY <1>3, <5>2, <6>2, LesserOfTwo DEF PageLimit
            <7>2. PageLimit' = IF walk.size <= walk.limit - fetched' THEN walk.size ELSE walk.limit - fetched'
              <8>1. PageLimit' = Min({walk.size, walk.limit - fetched'})
                BY <1>1, <6>2 DEF PageLimit
              <8>2. QED
                BY <1>3, <5>2, <8>1, LesserOfTwo
            <7>3. QED
              BY <1>3, <5>2, <6>2, <7>1, <7>2
          <6>3. QED
            BY <6>1, <6>2
        <5>4. Asked = PageLimit /\ Asked' = PageLimit' /\ Position' = 0
          BY <1>2, <1>5, <3>1, <4>1 DEF Asked, Position
        <5> DEFINE now == Min({Asked, walk.cap})
                   then == Min({Asked', walk.cap})
        <5>5. now \in Int /\ then \in Int /\ then <= now
          <6>1. now = IF Asked <= walk.cap THEN Asked ELSE walk.cap
            BY <1>3, <5>3, <5>4, LesserOfTwo
          <6>2. then = IF Asked' <= walk.cap THEN Asked' ELSE walk.cap
            BY <1>3, <5>3, <5>4, LesserOfTwo
          <6>3. QED
            BY <1>3, <5>3, <5>4, <6>1, <6>2
        <5>6. PageEnd = Min({Position + now, walk.total})
          BY DEF PageEnd, Clip
        <5>7. PageEnd' = Min({Position' + then, walk.total})
          BY <1>1 DEF PageEnd, Clip
        <5> HIDE DEF now, then
        <5>8. PageEnd \in Int /\ PageEnd' \in Int /\ PageEnd' <= PageEnd
          <6>1. Position + now = now /\ Position' + then = then
            BY <3>1, <5>4, <5>5
          <6>2. PageEnd = IF now <= walk.total THEN now ELSE walk.total
            BY <1>3, <5>5, <5>6, <6>1, LesserOfTwo
          <6>3. PageEnd' = IF then <= walk.total THEN then ELSE walk.total
            BY <1>3, <5>5, <5>7, <6>1, LesserOfTwo
          <6>4. QED
            BY <1>3, <5>5, <6>2, <6>3
        <5>9. Page = 1..PageEnd /\ Page' = 1..PageEnd'
          BY <3>1, <5>4 DEF Page
        <5>10. QED
          BY <4>1, <5>1, <5>8, <5>9
      <4>6. QED
        BY <1>2, <4>4, <4>5 DEF HeardOnce
    <3>4. QED
      BY <3>2, <3>3
  <2>4. CASE AnswerOgc \/ AnswerStac
    BY <1>5, <2>4 DEF AnswerOgc, AnswerStac
  <2>5. QED
    BY <2>1, <2>2, <2>3, <2>4 DEF PageNext
<1>6. QED
  BY <1>4, <1>5

LEMMA CollectInit == PageInit => CollectInv
<1> SUFFICES ASSUME PageInit, WellServed
             PROVE  /\ Server # "stuck" => \E p \in Nat : WalkedTo(p)
                    /\ (Server = "stuck" /\ Walker = "feature-server") => HeardOnce
  BY DEF CollectInv
<1>1. /\ walk \in Walks /\ at = "next" /\ from = StartsAt /\ next = NoLink
      /\ last = (IF Walker = "feature-server" THEN {} ELSE NoLink)
      /\ fetched = 0 /\ pages = 0 /\ \A r \in Rows : got[r] = 0
  BY DEF PageInit
<1>2. /\ StartsAt \in 0..walk.total /\ walk.total \in Nat /\ walk.limit \in Nat /\ walk.size \in Nat \ {0}
      /\ walk.start \in Nat
  BY <1>1, StartType, WalkFields
<1>3. ASSUME Server # "stuck" PROVE WalkedTo(StartsAt)
  <2>1. Position = StartsAt
    <3>1. CASE Server = "token"
      <4>1. walk.start = 0 /\ Walker = "stac"
        BY <3>1 DEF WellServed
      <4>2. Clip(0) = 0
        BY <1>1, <1>2, Clipped
      <4>3. QED
        BY <1>1, <3>1, <4>1, <4>2 DEF Position, StartsAt, NoLink
    <3>2. CASE Server # "token"
      BY <1>1, <1>3, <3>2 DEF Position
    <3>3. QED
      BY <3>1, <3>2
  <2>2. \A r \in Rows : ~(r > StartsAt /\ r <= StartsAt)
    BY <1>2 DEF Rows
  <2>3. \A r \in Rows : got[r] = IF r > StartsAt /\ r <= StartsAt /\ Kept(r) THEN 1 ELSE 0
    BY <1>1, <2>2
  <2>4. fetched = IF walk.limit = 0 THEN 0 ELSE StartsAt - StartsAt
    BY <1>1, <1>2
  <2>5. QED
    BY <1>1, <1>2, <2>1, <2>3, <2>4 DEF WalkedTo
<1>4. (Server = "stuck" /\ Walker = "feature-server") => HeardOnce
  BY <1>1 DEF HeardOnce
<1>5. QED
  BY <1>2, <1>3, <1>4

\* What has been handed out at the last row, or at the limit, is what was asked for.
LEMMA CollectedIsWanted ==
  ASSUME PageTypes, WellServed, NEW p \in Nat, WalkedTo(p), p = walk.total \/ ~Open
  PROVE  Exact
<1>1. /\ walk.total \in Nat /\ walk.limit \in Nat /\ walk.size \in Nat \ {0} /\ walk.start \in Nat
      /\ walk \in Walks
  BY WalkFields DEF PageTypes
<1>2. StartsAt = IF walk.start <= walk.total THEN walk.start ELSE walk.total
  <2>1. \A n \in Nat : Clip(n) = IF n <= walk.total THEN n ELSE walk.total
    BY <1>1, Clipped
  <2>2. CASE Walker = "ogc" /\ walk.method.facade # "none"
    <3>1. walk.start = 0
      BY <2>2 DEF WellServed
    <3>2. QED
      BY <1>1, <2>2, <3>1 DEF StartsAt
  <2>3. CASE ~(Walker = "ogc" /\ walk.method.facade # "none")
    <3>1. StartsAt = Clip(walk.start)
      BY <2>3 DEF StartsAt
    <3>2. QED
      BY <1>1, <2>1, <3>1
  <2>4. QED
    BY <2>2, <2>3
<1>3. /\ p \in StartsAt..walk.total
      /\ \A r \in Rows : got[r] = IF r > StartsAt /\ r <= p /\ Kept(r) THEN 1 ELSE 0
      /\ fetched = IF walk.limit = 0 THEN 0 ELSE p - StartsAt
      /\ walk.limit > 0 => p < StartsAt + walk.limit + walk.size
  BY DEF WalkedTo
<1>4. walk.limit = 0 => p = walk.total
  BY DEF Open
<1>5. walk.limit > 0 => (p = walk.total \/ p >= StartsAt + walk.limit)
  BY <1>1, <1>2, <1>3 DEF Open
<1>6. \A r \in Rows : r \in Collected <=> (r > StartsAt /\ r <= p /\ Kept(r))
  BY <1>3 DEF Collected
<1>7. \A r \in Rows : r \in WantedRows <=> (r > walk.start /\ (walk.limit > 0 => r <= walk.start + walk.limit))
  BY DEF WantedRows
<1>8. Collected \subseteq Rows /\ WantedRows \subseteq Rows
  BY DEF Collected, WantedRows
<1>9. ASSUME NEW r \in Rows
      PROVE  /\ r > StartsAt <=> r > walk.start
             /\ r > StartsAt => StartsAt = walk.start
             /\ (r \in WantedRows) => (r > StartsAt /\ r <= p)
  <2>1. r \in Nat /\ r <= walk.total
    BY <1>1 DEF Rows
  <2>2. (r > StartsAt <=> r > walk.start) /\ (r > StartsAt => StartsAt = walk.start)
    BY <1>1, <1>2, <2>1
  <2>3. ASSUME r \in WantedRows PROVE r > StartsAt /\ r <= p
    <3>1. r > walk.start /\ (walk.limit > 0 => r <= walk.start + walk.limit)
      BY <1>7, <2>3
    <3>2. CASE walk.limit = 0
      BY <1>1, <1>4, <2>1, <2>2, <3>1, <3>2
    <3>3. CASE walk.limit > 0
      BY <1>1, <1>2, <1>3, <1>5, <2>1, <2>2, <3>1, <3>3
    <3>4. QED
      BY <1>1, <3>2, <3>3
  <2>4. QED
    BY <2>2, <2>3
<1>10. CASE Yields # "pages"
  <2>1. ASSUME NEW r \in Rows PROVE r \in Collected <=> r \in WantedRows
    <3>1. r \in Nat
      BY <1>1 DEF Rows
    <3>2. r > StartsAt => (Kept(r) <=> (walk.limit > 0 => r <= walk.start + walk.limit))
      BY <1>1, <1>9, <1>10 DEF Kept
    <3>3. QED
      BY <1>6, <1>7, <1>9, <3>2
  <2>2. QED
    BY <1>8, <1>10, <2>1 DEF Exact
<1>11. CASE Yields = "pages"
  <2>1. \A r : Kept(r)
    BY <1>11 DEF Kept
  <2>2. WantedRows \subseteq Collected
    BY <1>6, <1>8, <1>9, <2>1
  <2>3. \A r \in Collected : r > walk.start
    BY <1>6, <1>8, <1>9
  <2> DEFINE w == IF walk.limit = 0 \/ walk.start + walk.limit >= walk.total THEN walk.total
                  ELSE walk.start + walk.limit
  <2>4. w \in Nat /\ w <= walk.total /\ StartsAt <= w /\ p < w + walk.size
    BY <1>1, <1>2, <1>3
  <2>5. Collected = (StartsAt + 1)..p
    <3>1. \A r : r \in (StartsAt + 1)..p => r \in Rows
      BY <1>1, <1>2, <1>3 DEF Rows
    <3>2. \A r \in Rows : r \in (StartsAt + 1)..p <=> (r > StartsAt /\ r <= p)
      BY <1>1, <1>2, <1>3 DEF Rows
    <3>3. QED
      BY <1>6, <1>8, <2>1, <3>1, <3>2
  <2>6. WantedRows = (StartsAt + 1)..w
    <3>1. \A r : r \in (StartsAt + 1)..w => r \in Rows
      BY <1>1, <1>2, <2>4 DEF Rows
    <3>2. \A r \in Rows : r \in (StartsAt + 1)..w <=> (r > walk.start /\ (walk.limit > 0 => r <= walk.start + walk.limit))
      BY <1>1, <1>2, <1>9 DEF Rows
    <3>3. QED
      BY <1>7, <1>8, <3>1, <3>2
  <2> HIDE DEF w
  <2>7. Cardinality(Collected) = p - StartsAt /\ Cardinality(WantedRows) = w - StartsAt
    <3>1. StartsAt + 1 \in Int /\ p \in Int /\ w \in Int
      BY <1>1, <1>2, <2>4
    <3>2. Cardinality((StartsAt + 1)..p) = IF StartsAt + 1 > p THEN 0 ELSE p - (StartsAt + 1) + 1
      BY ONLY <3>1, FS_Interval
    <3>3. Cardinality((StartsAt + 1)..w) = IF StartsAt + 1 > w THEN 0 ELSE w - (StartsAt + 1) + 1
      BY ONLY <3>1, FS_Interval
    <3>4. QED
      BY <1>1, <1>2, <1>3, <2>4, <2>5, <2>6, <3>2, <3>3
  <2>8. Cardinality(Collected) < Cardinality(WantedRows) + walk.size
    BY <1>1, <1>2, <2>4, <2>7
  <2>9. QED
    BY <1>11, <2>2, <2>3, <2>8 DEF Exact
<1>12. QED
  BY <1>10, <1>11

\* A walk over a server that suits it hands out the rows from the offset to the last, or
\* to the limit, none else, and no row twice, for every page size, page limit of the
\* server, limit and page cap.  (query, iter_query, items_pages, query_pages)
THEOREM WalksCollectWhatWasAsked == PageSpec => [](WellServed => CollectsWhatWasAsked)
<1>1. ASSUME PageTypes, CollectInv, WellServed PROVE CollectsWhatWasAsked
  <2>1. CASE Server = "stuck"
    <3>1. ~Honest
      BY <2>1 DEF Honest
    <3>2. Walker = "feature-server" => \A r \in Rows : got[r] <= 1
      BY <1>1, <2>1 DEF CollectInv, HeardOnce
    <3>3. QED
      BY <2>1, <3>1, <3>2 DEF CollectsWhatWasAsked, NoRowTwice
  <2>2. CASE Server # "stuck"
    <3>1. PICK p \in Nat : WalkedTo(p)
      BY <1>1, <2>2 DEF CollectInv
    <3>2. \A r \in Rows : got[r] <= 1
      BY <3>1 DEF WalkedTo
    <3>3. (at = "done" /\ Honest) => (p = walk.total \/ ~Open \/ CapReached)
      BY <3>1 DEF WalkedTo
    <3>4. (p = walk.total \/ ~Open) => Exact
      BY <1>1, <3>1, CollectedIsWanted
    <3>5. QED
      BY <3>2, <3>3, <3>4 DEF CollectsWhatWasAsked, NoRowTwice
  <2>3. QED
    BY <2>1, <2>2
<1>2. PageTypes /\ CollectInv => (WellServed => CollectsWhatWasAsked)
  BY <1>1
<1>3. PageTypes /\ CollectInv /\ [PageNext]_pageVars => (PageTypes /\ CollectInv)'
  BY PageTypesStep, CollectStep
<1>4. QED
  BY <1>2, <1>3, PageTypesInit, CollectInit, PTL DEF PageSpec

-----------------------------------------------------------------------------
(* What is signalled. *)

LEMMA SignalInit == PageInit => SignalInv
<1> SUFFICES ASSUME PageInit PROVE SignalInv
  OBVIOUS
<1>1. /\ walk \in Walks /\ at = "next" /\ from = StartsAt /\ next = NoLink /\ pages = 0
      /\ last = (IF Walker = "feature-server" THEN {} ELSE NoLink)
  BY DEF PageInit
<1>2. Position \in 0..walk.total /\ (Position = 0 \/ Position = StartsAt)
  BY <1>1, StartType, WalkFields DEF Position, NoLink
<1>3. walk.total \in Nat /\ walk.start \in Nat
  BY <1>1, WalkFields
<1>4. Position <= walk.start
  <2>1. Clip(walk.start) <= walk.start
    BY <1>1, <1>3, Clipped
  <2>2. QED
    BY <1>2, <1>3, <2>1 DEF StartsAt
<1>5. \A r \in WantedRows : ~(r <= Position)
  BY <1>2, <1>3, <1>4 DEF WantedRows, Rows
<1>6. QED
  BY <1>1, <1>5 DEF SignalInv

LEMMA SignalStep == PageTypes /\ SignalInv /\ [PageNext]_pageVars => SignalInv'
<1> SUFFICES ASSUME PageTypes, SignalInv, [PageNext]_pageVars PROVE SignalInv'
  OBVIOUS
<1> USE DEF position, result, pageVars
<1>1. walk' = walk /\ walk \in Walks
  BY WalkIsFixed DEF PageTypes
<1>2. /\ Walker' = Walker /\ Yields' = Yields /\ Server' = Server /\ Rows' = Rows
      /\ PageCap' = PageCap /\ WantedRows' = WantedRows /\ Flagged' = Flagged
  BY <1>1, SameWalk
<1>3. /\ walk.total \in Nat /\ walk.size \in Nat \ {0} /\ Server \in {"offset", "plain", "token", "stuck"}
      /\ WantedRows \subseteq Rows
  BY <1>1, WalkFields DEF WantedRows
<1> SUFFICES ASSUME Yields = "result", walk.limit = 0, Server # "plain", Flagged
             PROVE  /\ at' \in {"next", "asked"} => \A r \in WantedRows : r <= Position' => got'[r] > 0
                    /\ (at' \in {"collected", "done"} \/ pages' > 0 \/ (Walker = "feature-server" /\ last' # {})) => Told'
                    /\ (at' = "done" /\ exceeded' /\ CapReached') => warned'
  BY <1>1, <1>2 DEF SignalInv
<1>4. /\ at \in {"next", "asked"} => \A r \in WantedRows : r <= Position => got[r] > 0
      /\ (at \in {"collected", "done"} \/ pages > 0 \/ (Walker = "feature-server" /\ last # {})) => Told
      /\ (at = "done" /\ exceeded /\ CapReached) => warned
  BY DEF SignalInv
\* A step that hands nothing out.
<1>b. ASSUME UNCHANGED <<position, result>>,
             at' \in {"next", "asked"} => at \in {"next", "asked"},
             at' \in {"collected", "done"} => Told,
             (at' = "done" /\ exceeded /\ CapReached) => warned'
      PROVE  /\ at' \in {"next", "asked"} => \A r \in WantedRows : r <= Position' => got'[r] > 0
             /\ (at' \in {"collected", "done"} \/ pages' > 0 \/ (Walker = "feature-server" /\ last' # {})) => Told'
             /\ (at' = "done" /\ exceeded' /\ CapReached') => warned'
  <2>1. Position' = Position /\ CapReached' = CapReached /\ Told' = Told
    BY <1>b, <1>1, <1>2 DEF Position, CapReached, Told, Collected
  <2>2. QED
    BY <1>4, <1>b, <2>1
<1>5. CASE StopWalk
  <2>0. PageCap \in Nat
    BY <1>1, WalkFields, WalksAssumption DEF PageCap
  <2>1. UNCHANGED <<position, result>> /\ at' = "collected" /\ pages > 0
    BY <1>5, <2>0 DEF StopWalk, PageTypes
  <2>2. QED
    BY <1>4, <1>b, <2>1
<1>6. CASE Ask \/ Fail \/ CancelWalk
  BY <1>6, <1>b DEF Ask, Fail, CancelWalk
<1>7. CASE Return
  <2>1. /\ UNCHANGED <<position, result>> /\ at' = "done" /\ at = "collected"
        /\ (exceeded /\ CapReached) => warned'
    BY <1>7 DEF Return, CapReached
  <2>2. QED
    BY <1>4, <1>b, <2>1
<1>8. CASE UNCHANGED pageVars
  BY <1>4, <1>8, <1>b
\* A page that is handed out.
<1>a. ASSUME at = "asked", HandOut, at' \in {"next", "collected"},
             (More /\ at' = "next") => Position' \in 0..PageEnd
      PROVE  /\ at' \in {"next", "asked"} => \A r \in WantedRows : r <= Position' => got'[r] > 0
             /\ (at' \in {"collected", "done"} \/ pages' > 0 \/ (Walker = "feature-server" /\ last' # {})) => Told'
             /\ (at' = "done" /\ exceeded' /\ CapReached') => warned'
  <2>1. /\ \A r \in Rows : got'[r] = IF r \in Take(Page) THEN (IF got[r] = 0 THEN 1 ELSE 2) ELSE got[r]
        /\ exceeded' = TransferExceeded
    BY <1>a, HandedOut
  <2>2. Page = (Position + 1)..PageEnd /\ Position \in 0..walk.total /\ PageEnd \in Position..walk.total
    BY <1>a, PageFacts
  <2>3. Take(Page) = Page
    BY DEF Take
  <2>4. ASSUME NEW r \in WantedRows, r <= PageEnd PROVE got'[r] > 0
    <3>1. r \in Rows /\ r \in Nat
      BY <1>3 DEF Rows
    <3>2. CASE r \in Page
      BY <2>1, <2>3, <3>1, <3>2
    <3>3. CASE r \notin Page
      <4>1. r <= Position
        BY <1>3, <2>2, <2>4, <3>1, <3>3
      <4>2. QED
        BY <1>4, <1>a, <2>1, <2>3, <3>1, <3>3, <4>1
    <3>4. QED
      BY <3>2, <3>3
  <2>5. CASE More
    <3>1. Told'
      BY <2>1, <2>5 DEF Told, TransferExceeded
    <3>2. ASSUME NEW r \in WantedRows, r <= Position', at' = "next" PROVE got'[r] > 0
      <4>1. r \in Nat /\ Position' \in 0..PageEnd /\ PageEnd \in Nat
        BY <1>3, <1>a, <2>2, <2>5, <3>2 DEF Rows
      <4>2. r <= PageEnd
        BY <3>2, <4>1
      <4>3. QED
        BY <2>4, <4>2
    <3>3. QED
      BY <1>a, <3>1, <3>2
  <2>6. CASE ~More
    <3>1. PageEnd = walk.total
      BY <1>3, <2>2, <2>6 DEF More
    <3>2. \A r \in WantedRows : got'[r] > 0
      BY <1>3, <2>4, <3>1 DEF Rows
    <3>3. Told'
      <4>1. WantedRows \subseteq Collected'
        BY <1>2, <1>3, <3>2 DEF Collected
      <4>2. QED
        BY <1>2, <4>1 DEF Told
    <3>4. QED
      BY <1>a, <3>2, <3>3
  <2>7. QED
    BY <2>5, <2>6
<1>9. CASE AnswerFeatureServer
  <2>1. at = "asked" /\ Walker = "feature-server" /\ next = NoLink /\ warned' = warned
    BY <1>9 DEF AnswerFeatureServer, PageTypes
  <2>2. CASE Page # {} /\ Page \subseteq last
    <3>1. UNCHANGED <<position, result>> /\ at' = "collected" /\ last # {}
      BY <1>9, <2>2 DEF AnswerFeatureServer
    <3>2. QED
      BY <1>4, <1>b, <2>1, <3>1
  <2>3. CASE ~(Page # {} /\ Page \subseteq last)
    <3>1. /\ HandOut /\ After(Page = {} \/ ~More)
          /\ from' = Clip(from + Cardinality(Page)) /\ next' = next
      BY <1>9, <2>3 DEF AnswerFeatureServer
    <3>2. PageEnd \in Position..walk.total /\ Cardinality(Page) = PageEnd - Position /\ Position \in 0..walk.total
      BY <2>1, PageFacts
    <3>3. Position' \in 0..PageEnd
      <4>1. CASE Server \in {"stuck", "token"}
        <5>1. Position' = 0
          BY <1>2, <2>1, <3>1, <4>1 DEF Position, NoLink
        <5>2. QED
          BY <1>3, <3>2, <5>1
      <4>2. CASE Server = "offset"
        <5>1. Position = from /\ Position' = from'
          BY <1>2, <2>1, <3>1, <4>2 DEF Position
        <5>2. from + Cardinality(Page) = PageEnd /\ PageEnd \in Nat /\ PageEnd <= walk.total
          BY <1>3, <3>2, <5>1
        <5>3. Clip(PageEnd) = PageEnd
          BY <1>1, <1>3, <5>2, Clipped
        <5>4. QED
          BY <3>1, <5>1, <5>2, <5>3
      <4>3. QED
        BY <1>3, <4>1, <4>2
    <3>4. at' \in {"next", "collected"}
      BY <3>1 DEF After
    <3>5. QED
      BY <1>a, <2>1, <3>1, <3>3, <3>4
  <2>4. QED
    BY <2>2, <2>3
<1>10. CASE AnswerOgc \/ AnswerStac
  <2>1. /\ at = "asked" /\ Walker # "feature-server" /\ HandOut
        /\ next' = PageLink
    BY <1>10 DEF AnswerOgc, AnswerStac
  <2>2. at' \in {"next", "collected"}
    BY <1>10 DEF AnswerOgc, AnswerStac, After
  <2>3. ASSUME More, at' = "next" PROVE Position' \in 0..PageEnd
    <3>1. /\ PageEnd \in Position..walk.total /\ Position \in 0..walk.total /\ PageEnd <= Position + Asked
          /\ Asked \in 1..walk.size /\ Cardinality(Page) = PageEnd - Position
      BY <2>1, PageFacts
    <3>2. CASE Server = "stuck"
      <4>1. Position' = 0
        BY <1>2, <3>2 DEF Position
      <4>2. QED
        BY <1>3, <3>1, <4>1
    <3>3. CASE Server # "stuck" /\ Linked
      <4>1. PageLink.pos = PageEnd /\ next' # NoLink
        BY <2>1, <2>3, <3>3, LinkFacts
      <4>2. Position' = PageEnd
        BY <1>2, <2>1, <3>3, <4>1 DEF Position
      <4>3. QED
        BY <1>3, <3>1, <4>2
    <3>4. CASE Server # "stuck" /\ ~Linked
      <4>1. next = NoLink /\ PageLink = NoLink /\ next' = NoLink
        BY <2>1, <3>4, LinkFacts DEF PageTypes
      <4>2. CASE Server = "token"
        <5>1. Position' = 0
          BY <1>2, <4>1, <4>2 DEF Position, NoLink
        <5>2. QED
          BY <1>3, <3>1, <5>1
      <4>3. CASE Server # "token"
        <5>1. Position = from /\ Position' = from' /\ Asked = PageLimit /\ PageLimit = walk.size
          BY <1>2, <3>4, <4>1, <4>3 DEF Position, Asked, PageLimit
        <5>2. ~(Cardinality(Page) < PageLimit)
          BY <1>10, <2>3, <4>1 DEF AnswerOgc, AnswerStac, After
        <5>3. /\ PageEnd = from + walk.size /\ PageEnd = from + Cardinality(Page)
              /\ PageEnd \in Nat /\ PageEnd <= walk.total
          BY <1>3, <3>1, <5>1, <5>2
        <5>4. from' = Clip(PageEnd)
          BY <1>10, <4>1, <5>3 DEF AnswerOgc, AnswerStac
        <5>5. Clip(PageEnd) = PageEnd
          BY <1>1, <1>3, <5>3, Clipped
        <5>6. QED
          BY <5>1, <5>3, <5>4, <5>5
      <4>4. QED
        BY <4>2, <4>3
    <3>5. QED
      BY <3>2, <3>3, <3>4
  <2>4. QED
    BY <1>a, <2>1, <2>2, <2>3
<1>11. QED
  BY <1>5, <1>6, <1>7, <1>8, <1>9, <1>10 DEF PageNext

\* A result that lacks rows its server announced where the collector of the result looks,
\* with no limit to account for them, is flagged, and warned of if the page cap cut it,
\* wherever the walk starts and whether or not the walker could follow the announcement.
\* (warn_if_truncated)
THEOREM MissingRowsAreSignalled == PageSpec => []TruncationIsSignalled
<1>1. SignalInv => TruncationIsSignalled
  BY DEF SignalInv, TruncationIsSignalled, Told
<1>2. PageTypes /\ SignalInv /\ [PageNext]_pageVars => (PageTypes /\ SignalInv)'
  BY PageTypesStep, SignalStep
<1>3. QED
  BY <1>1, <1>2, PageTypesInit, SignalInit, PTL DEF PageSpec

-----------------------------------------------------------------------------
(* The order of the rows. *)

\* A row's rank in S is between one and the number of rows.
LEMMA RankBounds ==
  ASSUME NEW S, S \subseteq Nat, IsFiniteSet(S), NEW o \in S
  PROVE  Rank(S, o) \in 1..Cardinality(S)
<1> DEFINE below == {x \in S : x <= o}
<1>1. below \in SUBSET S /\ o \in below
  OBVIOUS
<1> HIDE DEF below
<1>2. IsFiniteSet(below) /\ Cardinality(below) <= Cardinality(S)
  BY <1>1, FS_Subset
<1>3. Cardinality(below) \in Nat /\ Cardinality(S) \in Nat
  BY <1>2, FS_CardinalityType
<1>4. Cardinality(below) # 0
  BY <1>1, <1>2, FS_EmptySet
<1>5. Rank(S, o) = Cardinality(below)
  BY DEF Rank, below
<1>6. QED
  BY <1>2, <1>3, <1>4, <1>5

\* A later row has a larger rank.
LEMMA RankIncreases ==
  ASSUME NEW S, S \subseteq Nat, IsFiniteSet(S), NEW a \in S, NEW b \in S, a < b
  PROVE  Rank(S, a) < Rank(S, b)
<1> DEFINE upTo(o) == {x \in S : x <= o}
<1>1. upTo(a) \in SUBSET upTo(b) /\ b \in upTo(b) /\ b \notin upTo(a) /\ upTo(b) \in SUBSET S
  <2>1. a \in Nat /\ b \in Nat /\ a <= b /\ ~(b <= a) /\ b <= b
    OBVIOUS
  <2>2. \A x \in S : x <= a => x <= b
    BY <2>1
  <2>3. QED
    BY ONLY <2>1, <2>2, b \in S
<1>2. Rank(S, a) = Cardinality(upTo(a)) /\ Rank(S, b) = Cardinality(upTo(b))
  BY DEF Rank
<1> HIDE DEF upTo
<1>3. IsFiniteSet(upTo(b))
  BY <1>1, FS_Subset
<1>4. IsFiniteSet(upTo(a)) /\ Cardinality(upTo(a)) <= Cardinality(upTo(b))
      /\ Cardinality(upTo(a)) # Cardinality(upTo(b))
  BY <1>1, <1>3, FS_Subset
<1>5. Cardinality(upTo(a)) \in Nat /\ Cardinality(upTo(b)) \in Nat
  BY <1>3, <1>4, FS_CardinalityType
<1>6. QED
  BY <1>2, <1>4, <1>5

\* When rows leave, the ranks of the others do not grow.
LEMMA RankShrinks ==
  ASSUME NEW S, IsFiniteSet(S), NEW T \in SUBSET S, NEW o
  PROVE  Rank(T, o) <= Rank(S, o) /\ Rank(T, o) \in Nat /\ Rank(S, o) \in Nat
<1> DEFINE upTo(A) == {x \in A : x <= o}
<1>1. upTo(T) \in SUBSET upTo(S) /\ upTo(S) \in SUBSET S
  OBVIOUS
<1>2. Rank(T, o) = Cardinality(upTo(T)) /\ Rank(S, o) = Cardinality(upTo(S))
  BY DEF Rank
<1> HIDE DEF upTo
<1>3. IsFiniteSet(upTo(S))
  BY <1>1, FS_Subset
<1>4. IsFiniteSet(upTo(T)) /\ Cardinality(upTo(T)) <= Cardinality(upTo(S))
  BY <1>1, <1>3, FS_Subset
<1>5. QED
  BY <1>2, <1>3, <1>4, FS_CardinalityType

\* Each rank up to the number of rows is a row's.
LEMMA RanksAreTaken ==
  ASSUME NEW S, S \subseteq Nat, IsFiniteSet(S), NEW i \in 1..Cardinality(S)
  PROVE  \E o \in S : Rank(S, o) = i
<1> DEFINE rank == [o \in S |-> Rank(S, o)]
           n == Cardinality(S)
<1>1. n \in Nat
  BY FS_CardinalityType
<1>2. rank \in [S -> 1..n]
  BY RankBounds
<1>3. ASSUME NEW a \in S, NEW b \in S, a # b PROVE rank[a] # rank[b]
  <2>1. Rank(S, a) \in Nat /\ Rank(S, b) \in Nat
    BY RankShrinks
  <2>2. a < b \/ b < a
    BY <1>3
  <2>3. Rank(S, a) < Rank(S, b) \/ Rank(S, b) < Rank(S, a)
    <3>1. CASE a < b
      BY <3>1, RankIncreases, Zenon
    <3>2. CASE b < a
      BY <3>2, RankIncreases, Zenon
    <3>3. QED
      BY <2>2, <3>1, <3>2
  <2>4. QED
    BY <2>1, <2>3
<1>4. rank \in Injection(S, 1..n)
  BY <1>2, <1>3 DEF Injection, IsInjective
<1>5. IsFiniteSet(1..n) /\ Cardinality(1..n) = n
  BY <1>1, FS_Interval
<1> HIDE DEF rank
<1>6. rank \in Surjection(S, 1..n)
  BY <1>4, <1>5, FS_Injection
<1>7. \E o \in S : rank[o] = i
  BY <1>6 DEF Surjection
<1>8. QED
  BY <1>7 DEF rank

\* The rows of S in order: each at the place of its rank.
LEMMA RowsAreInOrder ==
  ASSUME NEW S, S \subseteq Nat, IsFiniteSet(S)
  PROVE  /\ InOrder(S) \in Seq(S) /\ Len(InOrder(S)) = Cardinality(S)
         /\ \A i \in 1..Cardinality(S) : InOrder(S)[i] \in S /\ Rank(S, InOrder(S)[i]) = i
         /\ \A o \in S : InOrder(S)[Rank(S, o)] = o
<1> DEFINE n == Cardinality(S)
<1>1. n \in Nat
  BY FS_CardinalityType
<1>2. ASSUME NEW i \in 1..n PROVE InOrder(S)[i] \in S /\ Rank(S, InOrder(S)[i]) = i
  <2>1. \E o \in S : Rank(S, o) = i
    BY RanksAreTaken
  <2>2. InOrder(S)[i] = CHOOSE o \in S : Rank(S, o) = i
    BY DEF InOrder
  <2>3. QED
    BY <2>1, <2>2
<1>3. InOrder(S) \in [1..n -> S]
  BY <1>2 DEF InOrder
<1>4. InOrder(S) \in Seq(S) /\ Len(InOrder(S)) = n
  BY <1>1, <1>3
<1>5. ASSUME NEW o \in S PROVE InOrder(S)[Rank(S, o)] = o
  <2> DEFINE r == InOrder(S)[Rank(S, o)]
  <2>1. Rank(S, o) \in 1..n
    BY RankBounds
  <2>2. r \in S /\ Rank(S, r) = Rank(S, o)
    BY <1>2, <2>1
  <2> HIDE DEF r
  <2>3. ~(r < o)
    <3>1. r < o => Rank(S, r) < Rank(S, o)
      BY <2>2, RankIncreases, Zenon
    <3>2. QED
      BY <2>1, <2>2, <3>1, <1>1
  <2>4. ~(o < r)
    <3>1. o < r => Rank(S, o) < Rank(S, r)
      BY <2>2, RankIncreases, Zenon
    <3>2. QED
      BY <2>1, <2>2, <3>1, <1>1
  <2>5. r = o
    <3>1. r \in Nat /\ o \in Nat
      BY <2>2
    <3>2. QED
      BY <2>3, <2>4, <3>1
  <2>6. QED
    BY <2>5 DEF r
<1>6. QED
  BY <1>2, <1>4, <1>5

-----------------------------------------------------------------------------
(* What holds throughout a walk. *)

Once(s) == \A i, j \in 1..Len(s) : s[i] = s[j] => i = j

\* The rows the current query asks for, and those its next pages hold.
Query == matches \cap chunk
Ahead == IF more THEN {o \in Query : offset < Rank(Query, o)} ELSE {}

Visited == {o \in Oids : visits[o] # 0}

WholeQuery == pc = "snapshot" \/ ~Snapshot

\* Only rows that have been handed out are edited.
EditsInv ==
  /\ leaving \subseteq updates /\ updates \subseteq Visited
  /\ row = None \/ row \in Visited

\* No row is read twice: the rows to come are apart from the ones visited, those in
\* the batches from those in the pages, and these from the pages before.
ReadInv ==
  ~disturbed =>
    /\ wanted = chunk \ Visited
    /\ \A o \in Oids : visits[o] <= 1
    /\ Once(ids) /\ ToSet(ids) \cap Visited = {}
    /\ pc # "snapshot" => ToSet(ids) \cap chunk = {}
    /\ ~Snapshot => ids = <<>> /\ pc # "snapshot"
    /\ WholeQuery /\ pc # "done" =>
         /\ foreign = {} /\ chunk = Oids
         /\ Once(page) /\ ToSet(page) \cap (ToSet(ids) \cup Visited) = {}
         /\ Ahead \cap (ToSet(ids) \cup Visited \cup previous) = {}
         /\ ToSet(page) \subseteq previous

StillToCome(o) ==
  /\ o \in matches
  /\ o \in ToSet(ids) \/ (o \in wanted /\ o \in ToSet(page) \cup Ahead)

\* While the whole query is read nothing has left it, and the pages that may still be
\* asked for reach as far as all of them together.
WholeReach ==
  WholeQuery /\ pc # "done" =>
    matches = original /\ (more => Reach <= offset + left * PageSize)

\* A safe cursor has visited each row that its pages reach, or will come to it.
VisitInv ==
  (~disturbed /\ Safe) =>
    /\ pc \in {"stream", "body"} /\ Snapshot =>
         Cardinality(chunk) <= BatchSize /\ (more => offset = 0 /\ previous = {})
    /\ WholeReach
    /\ \A o \in Due : o \in Visited \/ (pc # "done" /\ StillToCome(o))

-----------------------------------------------------------------------------
(* A page. *)

LEMMA QueriesAreFinite ==
  ASSUME NEW S \in SUBSET Oids
  PROVE  S \subseteq Nat /\ IsFiniteSet(S) /\ Cardinality(S) \in Nat /\ Cardinality(S) <= Cardinality(Oids)
         /\ Cardinality(Oids) \in Nat
BY WalkAssumption, FS_Subset, FS_CardinalityType

\* The page at an offset holds the rows of the next ranks.
LEMMA PagesHoldTheNextRanks ==
  ASSUME NEW S \in SUBSET Oids, offset \in Nat, PageSize \in Nat \ {0}
  PROVE  /\ PageOf(S) \in Seq(S) /\ Len(PageOf(S)) <= PageSize
         /\ Once(PageOf(S))
         /\ ToSet(PageOf(S)) = {o \in S : offset < Rank(S, o) /\ Rank(S, o) <= offset + PageSize}
         /\ Exceeded(S) => Len(PageOf(S)) = PageSize
<1> DEFINE n == Cardinality(S)
           all == InOrder(S)
           to == IF offset + PageSize < n THEN offset + PageSize ELSE n
           p == PageOf(S)
<1>1. n \in Nat /\ S \subseteq Nat /\ IsFiniteSet(S)
  BY QueriesAreFinite
<1>2. /\ all \in Seq(S) /\ Len(all) = n
      /\ \A i \in 1..n : all[i] \in S /\ Rank(S, all[i]) = i
      /\ \A o \in S : all[Rank(S, o)] = o
  BY <1>1, RowsAreInOrder, Zenon
<1>3. p = SubSeq(all, offset + 1, to)
  BY <1>2 DEF PageOf
<1>4. \A o \in S : Rank(S, o) \in 1..n
  BY <1>1, RankBounds, Zenon
<1>5. to \in Nat /\ to <= n /\ to <= offset + PageSize
  BY <1>1
<1>6. Exceeded(S) => to = offset + PageSize
  BY DEF Exceeded
<1> HIDE DEF all, n, p, to
<1>7. /\ Len(p) = IF offset < to THEN to - offset ELSE 0
      /\ Len(p) \in Nat /\ \A i \in 1..Len(p) : p[i] = all[offset + i] /\ offset + i \in 1..n
  BY <1>1, <1>2, <1>3, <1>5
<1>8. p \in Seq(S)
  BY <1>1, <1>2, <1>3, <1>5, <1>7
<1>9. Len(p) <= PageSize /\ (Exceeded(S) => Len(p) = PageSize)
  BY <1>5, <1>6, <1>7
<1>10. ASSUME NEW i \in 1..Len(p)
       PROVE  p[i] \in S /\ Rank(S, p[i]) = offset + i
  BY <1>2, <1>7
<1>11. Once(p)
  <2>1. ASSUME NEW i \in 1..Len(p), NEW j \in 1..Len(p), p[i] = p[j] PROVE i = j
    <3>1. offset + i = offset + j
      BY <1>10, <2>1
    <3>2. QED
      BY <1>7, <3>1
  <2>2. QED
    BY <2>1 DEF Once
<1>12. ASSUME NEW o \in ToSet(p)
       PROVE  o \in S /\ offset < Rank(S, o) /\ Rank(S, o) <= offset + PageSize
  <2>1. PICK i \in 1..Len(p) : p[i] = o
    BY <1>8 DEF ToSet
  <2>2. QED
    BY <1>7, <1>9, <1>10, <2>1
<1>13. ASSUME NEW o \in S, offset < Rank(S, o), Rank(S, o) <= offset + PageSize
       PROVE  o \in ToSet(p)
  <2> DEFINE i == Rank(S, o) - offset
  <2>1. Rank(S, o) \in 1..n
    BY <1>4
  <2>2. Rank(S, o) <= to
    BY <2>1, <1>13, <1>1 DEF to
  <2>3. i \in 1..Len(p) /\ offset + i = Rank(S, o)
    BY <1>5, <1>7, <1>13, <2>1, <2>2
  <2>4. p[i] = o
    BY <1>2, <1>7, <2>3
  <2>5. QED
    BY <1>8, <2>3, <2>4 DEF ToSet
<1>14. QED
  BY <1>8, <1>9, <1>11, <1>12, <1>13 DEF p

\* The next page of a query, none of whose rows was on the page before: it holds the
\* rows ahead that come first, and the others stay ahead unless it is the last page.
LEMMA PagesGoOn ==
  ASSUME matches \subseteq Oids, chunk \subseteq Oids, offset \in Nat, PageSize \in Nat \ {0},
         left \in Nat \ {0}, more, Ahead \cap previous = {}, TakePage(Query),
         UNCHANGED <<matches, chunk>>
  PROVE  /\ page' \in Seq(Query) /\ Len(page') <= PageSize /\ Once(page')
         /\ ToSet(page') = previous' /\ ToSet(page') \cup Ahead' \subseteq Ahead /\ ToSet(page') \cap Ahead' = {}
         /\ offset' \in Nat /\ more' \in BOOLEAN
         /\ offset <= Cardinality(Oids) => offset' <= Cardinality(Oids)
         /\ more' => Cardinality(Query) > PageSize /\ offset' = offset + PageSize
         /\ left' = left - 1
         /\ \A o \in Ahead :
              o \in ToSet(page') \cup Ahead' \/ (left = 1 /\ offset + PageSize < Rank(Query, o))
<1> DEFINE p == PageOf(Query)
           rank(o) == Rank(Query, o)
<1>1. Query \in SUBSET Oids /\ Query' = Query
  BY DEF Query
<1>2. /\ Query \subseteq Nat /\ IsFiniteSet(Query) /\ Cardinality(Query) \in Nat
      /\ Cardinality(Query) <= Cardinality(Oids) /\ Cardinality(Oids) \in Nat
  BY <1>1, QueriesAreFinite
<1>3. /\ p \in Seq(Query) /\ Len(p) <= PageSize /\ Once(p)
      /\ ToSet(p) = {o \in Query : offset < rank(o) /\ rank(o) <= offset + PageSize}
      /\ Exceeded(Query) => Len(p) = PageSize
  BY <1>1, PagesHoldTheNextRanks, Zenon
<1>4. \A o \in Query : rank(o) \in 1..Cardinality(Query)
  BY <1>2, RankBounds, Zenon
<1> HIDE DEF p, rank
<1>5. Ahead = {o \in Query : offset < rank(o)}
  BY DEF Ahead, rank
<1>6. ~(p # <<>> /\ ToSet(p) \subseteq previous)
  <2>1. SUFFICES ASSUME p # <<>>, ToSet(p) \subseteq previous PROVE FALSE
    OBVIOUS
  <2>2. p[1] \in ToSet(p)
    BY <1>3, <2>1 DEF ToSet
  <2>3. p[1] \in Ahead
    BY <1>3, <1>5, <2>2
  <2>4. QED
    BY <2>1, <2>2, <2>3
<1>7. /\ page' = p /\ previous' = ToSet(p)
      /\ more' = (p # <<>> /\ Exceeded(Query) /\ left > 1) /\ left' = left - 1
      /\ offset' = IF more' THEN offset + Len(p) ELSE offset
  BY <1>6 DEF TakePage, p
<1>8. more' => Len(p) = PageSize /\ offset + PageSize < Cardinality(Query)
  BY <1>3, <1>7 DEF Exceeded
<1>9. Len(p) \in Nat
  BY <1>3
<1>10. Ahead' = IF more' THEN {o \in Query : offset + PageSize < rank(o)} ELSE {}
  <2>1. Ahead' = IF more' THEN {o \in Query : offset' < rank(o)} ELSE {}
    BY <1>1 DEF Ahead, rank
  <2>2. more' => offset' = offset + PageSize
    BY <1>7, <1>8
  <2>3. QED
    BY <2>1, <2>2
<1>11. ASSUME NEW o \in Query, offset < rank(o)
       PROVE  o \in ToSet(p) \cup Ahead' \/ (left = 1 /\ offset + PageSize < rank(o))
  <2>1. rank(o) \in 1..Cardinality(Query)
    BY <1>4
  <2>2. CASE rank(o) <= offset + PageSize
    BY <1>3, <1>11, <2>2
  <2>3. CASE ~(rank(o) <= offset + PageSize)
    <3>1. offset + PageSize < rank(o) /\ Exceeded(Query)
      BY <1>2, <2>1, <2>3 DEF Exceeded
    <3>2. p # <<>>
      BY <1>3, <3>1
    <3>3. CASE left = 1
      BY <3>1, <3>3
    <3>4. CASE left # 1
      <4>1. left > 1
        BY <3>4
      <4>2. more'
        BY <1>7, <3>1, <3>2, <4>1
      <4>3. QED
        BY <1>10, <3>1, <4>2
    <3>5. QED
      BY <3>3, <3>4
  <2>4. QED
    BY <2>2, <2>3
<1>12. ToSet(p) \cup Ahead' \subseteq Ahead /\ ToSet(p) \cap Ahead' = {}
  <2>1. ToSet(p) \cup Ahead' \subseteq Ahead
    <3>1. \A o \in Query : offset + PageSize < rank(o) => offset < rank(o)
      BY <1>2, <1>4
    <3>2. QED
      BY <1>3, <1>5, <1>10, <3>1
  <2>2. \A o \in Query : ~(offset + PageSize < rank(o) /\ rank(o) <= offset + PageSize)
    BY <1>2, <1>4
  <2>3. QED
    BY <1>3, <1>10, <2>1, <2>2
<1>13. offset' \in Nat /\ (offset <= Cardinality(Oids) => offset' <= Cardinality(Oids))
  BY <1>2, <1>7, <1>8, <1>9
<1>14. more' => Cardinality(Query) > PageSize /\ offset' = offset + PageSize
  BY <1>2, <1>7, <1>8
<1>15. ASSUME NEW o \in Ahead
       PROVE  o \in ToSet(page') \cup Ahead' \/ (left = 1 /\ offset + PageSize < Rank(Query, o))
  <2>1. o \in Query /\ offset < rank(o)
    BY <1>5
  <2>2. o \in ToSet(p) \cup Ahead' \/ (left = 1 /\ offset + PageSize < rank(o))
    BY <1>11, <2>1
  <2>3. QED
    BY <1>7, <2>2 DEF rank
<1>16. QED
  BY <1>3, <1>7, <1>12, <1>13, <1>14, <1>15

-----------------------------------------------------------------------------
(* The types. *)

\* What the next page does to the stream's types, whatever it holds.
LEMMA PagesAreTyped ==
  ASSUME TypeOK, more, TakePage(matches \cap chunk)
  PROVE  /\ offset' \in 0..Cardinality(Oids)
         /\ page' \in Seq(Oids) /\ Len(page') <= PageSize
         /\ previous' \subseteq Oids /\ more' \in BOOLEAN
         /\ left' \in 0..MaxPages /\ (more' => left' > 0)
<1> DEFINE S == matches \cap chunk
           p == PageOf(S)
<1>1. S \in SUBSET Oids /\ offset \in 0..Cardinality(Oids) /\ PageSize \in Nat \ {0}
  BY WalkAssumption DEF TypeOK, PageSize
<1>2. Cardinality(S) \in Nat /\ Cardinality(S) <= Cardinality(Oids) /\ Cardinality(Oids) \in Nat
  BY <1>1, QueriesAreFinite, Zenon
<1>3. offset \in Nat
  BY <1>1, <1>2
<1>4. p \in Seq(S) /\ Len(p) <= PageSize /\ (Exceeded(S) => Len(p) = PageSize)
  BY <1>1, <1>3, PagesHoldTheNextRanks, Zenon
<1> HIDE DEF p, S
<1>5. p \in Seq(Oids) /\ ToSet(p) \subseteq Oids
  BY <1>1, <1>4 DEF ToSet
<1>6. TakePage(S)
  BY DEF S
<1>7. /\ left' = left - 1 /\ (more' => left > 1)
      /\ MaxPages \in Nat /\ left \in 1..MaxPages
  <2>1. left' = left - 1 /\ (more' => left > 1)
    BY <1>6 DEF TakePage
  <2>2. cursor \in Cursors /\ left \in 0..MaxPages /\ left > 0
    BY DEF TypeOK
  <2>3. MaxPages \in Nat
    BY <2>2, WalkAssumption DEF MaxPages
  <2>4. QED
    BY <2>1, <2>2, <2>3
<1>8. left' \in 0..MaxPages /\ (more' => left' > 0)
  BY <1>7
<1>9. CASE p # <<>> /\ ToSet(p) \subseteq previous
  BY <1>6, <1>9, <1>8 DEF TakePage, TypeOK, p
<1>10. CASE ~(p # <<>> /\ ToSet(p) \subseteq previous)
  <2>1. /\ page' = p /\ previous' = ToSet(p)
        /\ more' = (p # <<>> /\ Exceeded(S) /\ left > 1)
        /\ offset' = IF more' THEN offset + Len(p) ELSE offset
    BY <1>6, <1>10 DEF TakePage, p
  <2>2. more' => offset + Len(p) <= Cardinality(S)
    <3>1. more' => Exceeded(S)
      BY <2>1
    <3>2. Exceeded(S) => offset + Len(p) <= Cardinality(S)
      BY <1>1, <1>2, <1>3, <1>4 DEF Exceeded
    <3>3. QED
      BY <3>1, <3>2
  <2>3. Len(p) \in Nat
    BY <1>4
  <2>4. offset' \in 0..Cardinality(Oids)
    BY <1>1, <1>2, <1>3, <2>1, <2>2, <2>3
  <2>5. QED
    BY <1>4, <1>5, <1>8, <2>1, <2>4
<1>11. QED
  BY <1>9, <1>10

\* The ids of a batch and of those to come.
LEMMA BatchesSplitTheIds ==
  ASSUME NEW s \in Seq(Oids), NEW n \in 1..Len(s)
  PROVE  /\ SubSeq(s, n + 1, Len(s)) \in Seq(Oids)
         /\ ToSet(SubSeq(s, 1, n)) \cup ToSet(SubSeq(s, n + 1, Len(s))) = ToSet(s)
         /\ ToSet(s) \subseteq Oids
         /\ Once(s) => /\ Once(SubSeq(s, n + 1, Len(s)))
                       /\ ToSet(SubSeq(s, 1, n)) \cap ToSet(SubSeq(s, n + 1, Len(s))) = {}
         /\ Cardinality(ToSet(SubSeq(s, 1, n))) <= n
<1> DEFINE a == SubSeq(s, 1, n)
           b == SubSeq(s, n + 1, Len(s))
<1>1. Len(s) \in Nat /\ n \in Nat /\ n <= Len(s)
  OBVIOUS
<1>2. a \in Seq(Oids) /\ Len(a) = n /\ \A i \in 1..n : a[i] = s[i] /\ i \in 1..Len(s)
  BY <1>1
<1>3. b \in Seq(Oids) /\ Len(b) = Len(s) - n /\ \A i \in 1..Len(b) : b[i] = s[n + i] /\ n + i \in 1..Len(s)
  BY <1>1
<1> HIDE DEF a, b
<1>4. ToSet(a) = {a[i] : i \in 1..n} /\ ToSet(b) = {b[i] : i \in 1..Len(b)} /\ ToSet(s) = {s[i] : i \in 1..Len(s)}
  <2>1. \A t \in Seq(Oids) : ToSet(t) = {t[i] : i \in 1..Len(t)}
    BY DEF ToSet
  <2>2. QED
    BY <1>2, <1>3, <2>1
<1>5. ToSet(a) \cup ToSet(b) \subseteq ToSet(s)
  BY <1>2, <1>3, <1>4
<1>6. ASSUME NEW i \in 1..Len(s) PROVE s[i] \in ToSet(a) \cup ToSet(b)
  <2>1. CASE i <= n
    BY <1>2, <1>4, <2>1, <1>1
  <2>2. CASE ~(i <= n)
    <3>1. i - n \in 1..Len(b) /\ n + (i - n) = i
      BY <1>1, <1>3, <2>2
    <3>2. s[i] = b[i - n]
      BY <1>3, <3>1
    <3>3. QED
      BY <1>4, <3>1, <3>2
  <2>3. QED
    BY <2>1, <2>2
<1>7. ToSet(a) \cup ToSet(b) = ToSet(s)
  BY <1>4, <1>5, <1>6
<1>8. ToSet(s) \subseteq Oids
  BY <1>4
<1>9. ASSUME Once(s) PROVE Once(b) /\ ToSet(a) \cap ToSet(b) = {}
  <2>1. \A i, j \in 1..Len(s) : s[i] = s[j] => i = j
    BY <1>9 DEF Once
  <2>2. ASSUME NEW i \in 1..Len(b), NEW j \in 1..Len(b), b[i] = b[j] PROVE i = j
    <3>1. n + i = n + j
      BY <1>3, <2>1, <2>2
    <3>2. QED
      BY <1>1, <1>3, <3>1
  <2>3. ASSUME NEW i \in 1..n, NEW j \in 1..Len(b) PROVE a[i] # b[j]
    <3>1. n + j # i
      BY <1>1, <1>3
    <3>2. QED
      BY <1>2, <1>3, <2>1, <3>1
  <2>4. QED
    BY <1>4, <2>2, <2>3 DEF Once
<1>10. Cardinality(ToSet(a)) <= n
  <2>1. a \in [1..n -> ToSet(a)]
    BY <1>2, <1>4
  <2>2. a \in Surjection(1..n, ToSet(a))
    BY <1>4, <2>1 DEF Surjection
  <2>3. IsFiniteSet(1..n) /\ Cardinality(1..n) = n
    BY <1>1, FS_Interval
  <2>4. QED
    BY <2>2, <2>3, FS_Surjection
<1>11. QED
  BY <1>3, <1>7, <1>8, <1>9, <1>10 DEF a, b

LEMMA InitialTypes == Init => TypeOK
<1> SUFFICES ASSUME Init PROVE TypeOK
  OBVIOUS
<1>1. Cardinality(Oids) \in Nat /\ PageSize \in Nat /\ BatchSize \in Nat \ {0} /\ Snapshot \in BOOLEAN
  BY WalkAssumption, FS_CardinalityType DEF Init, PageSize, BatchSize, Snapshot
<1>2. Cardinality(updates) = 0
  BY FS_EmptySet DEF Init
<1>3. /\ ids \in Seq(Oids) /\ page \in Seq(Oids) /\ Len(page) <= PageSize
      /\ offset \in 0..Cardinality(Oids) /\ edits \in 0..MaxForeign /\ visits \in [Oids -> Nat]
      /\ Cardinality(updates) < BatchSize /\ left \in 0..MaxPages /\ left > 0
  BY <1>1, <1>2, WalkAssumption DEF Init, StreamStart, MaxPages
<1>4. QED
  BY <1>3 DEF Init, StreamStart, TypeOK, None

LEMMA TypesStay == TypeOK /\ [Next]_vars => TypeOK'
<1> SUFFICES ASSUME TypeOK, [Next]_vars PROVE TypeOK'
  OBVIOUS
<1> USE DEF TypeOK, PageSize, BatchSize, MaxPages, Snapshot
<1>1. /\ cursor.page \in Nat \ {0} /\ cursor.batch \in Nat \ {0} /\ cursor.sdk \in BOOLEAN
      /\ cursor.maxPages \in Nat \ {0}
      /\ Cardinality(Oids) \in Nat /\ MaxForeign \in Nat
  BY WalkAssumption, FS_CardinalityType
<1>2. CASE FetchPage
  BY <1>2, PagesAreTyped DEF FetchPage, buffer, others
<1>3. CASE SnapshotPage
  <2>1. page' \in Seq(Oids) /\ Len(page') <= cursor.page /\ ids' \in Seq(Oids)
    BY <1>1, <1>3 DEF SnapshotPage
  <2>2. QED
    BY <1>3, <2>1 DEF SnapshotPage, buffer, others
<1>4. CASE NextChunk
  <2> DEFINE n == IF cursor.batch < Len(ids) THEN cursor.batch ELSE Len(ids)
  <2>1. n \in 1..Len(ids)
    BY <1>1, <1>4 DEF NextChunk
  <2>2. chunk' = ToSet(SubSeq(ids, 1, n)) /\ ids' = SubSeq(ids, n + 1, Len(ids))
    BY <1>4 DEF NextChunk
  <2> HIDE DEF n
  <2>3. chunk' \subseteq Oids /\ ids' \in Seq(Oids)
    BY <2>1, <2>2, BatchesSplitTheIds
  <2>4. /\ offset' \in 0..Cardinality(Oids) /\ page' \in Seq(Oids) /\ Len(page') <= cursor.page
        /\ previous' \subseteq Oids /\ more' \in BOOLEAN
        /\ cursor' = cursor /\ left' = cursor.maxPages /\ left' \in 0..cursor.maxPages /\ left' > 0
    BY <1>1, <1>4 DEF NextChunk, Restart
  <2>5. wanted' = chunk' /\ pc' = "stream"
        /\ UNCHANGED <<cursor, matches, row, updates, leaving, original, foreign, edits, disturbed, visits>>
    BY <1>4 DEF NextChunk, buffer, others
  <2>6. QED
    BY <2>3, <2>4, <2>5
<1>5. CASE Yield
  <2>1. Head(page) \in Oids /\ page' \in Seq(Oids) /\ Len(page') <= cursor.page
    BY <1>1, <1>5 DEF Yield
  <2>2. /\ pc' \in {"snapshot", "stream", "body", "done"} /\ row' \in Oids \cup {None}
        /\ wanted' \subseteq chunk /\ visits' \in [Oids -> Nat]
    <3>1. visits' \in [Oids -> Nat]
      BY <1>5, <2>1 DEF Yield
    <3>2. wanted' \subseteq chunk /\ row' \in Oids \cup {None} /\ pc' \in {"snapshot", "stream", "body", "done"}
      BY <1>5, <2>1 DEF Yield
    <3>3. QED
      BY <3>1, <3>2
  <2>3. QED
    BY <1>5, <2>1, <2>2 DEF Yield, buffer, others
<1>6. CASE UpdateRow
  <2> DEFINE U == updates \cup {row}
  <2>1. U \subseteq Oids /\ row \in Oids
    BY <1>6 DEF UpdateRow
  <2>2. PICK L \in {leaving, leaving \cup {row}} :
             IF cursor.sdk /\ Cardinality(U) >= cursor.batch
             THEN Apply(L)
             ELSE updates' = U /\ leaving' = L /\ UNCHANGED matches
    BY <1>6 DEF UpdateRow
  <2>3. L \subseteq U
    BY <2>2
  <2>4. Cardinality({}) = 0 /\ Cardinality(U) \in Nat
    BY <2>1, WalkAssumption, FS_EmptySet, FS_Subset, FS_CardinalityType
  <2>5. /\ matches' \subseteq Oids /\ leaving' \subseteq updates' /\ updates' \subseteq Oids
        /\ cursor.sdk => Cardinality(updates') < cursor.batch
    <3>1. CASE cursor.sdk /\ Cardinality(U) >= cursor.batch
      <4>1. matches' = matches \ L /\ updates' = {} /\ leaving' = {}
        BY <2>2, <3>1 DEF Apply
      <4>2. 0 < cursor.batch
        BY <1>1
      <4>3. QED
        BY <2>4, <4>1, <4>2
    <3>2. CASE ~(cursor.sdk /\ Cardinality(U) >= cursor.batch)
      <4>1. updates' = U /\ leaving' = L /\ matches' = matches
        BY <2>2, <3>2
      <4>2. cursor.sdk => Cardinality(U) < cursor.batch
        BY <1>1, <2>4, <3>2
      <4> HIDE DEF U
      <4>3. QED
        BY <2>1, <2>3, <4>1, <4>2
    <3>3. QED
      BY <3>1, <3>2
  <2>6. QED
    BY <1>6, <2>5 DEF UpdateRow, stream, others
<1>7. CASE Flush
  BY <1>1, <1>7, FS_EmptySet DEF Flush, Apply, stream, others
<1>8. CASE BodyEnds
  BY <1>8 DEF BodyEnds, stream, buffer, others
<1>9. CASE Finish
  BY <1>1, <1>9, FS_EmptySet DEF Finish, Apply, stream, others
<1>10. CASE \E o \in Oids : ForeignEdit(o)
  <2>1. PICK o \in Oids : ForeignEdit(o)
    BY <1>10
  <2>2. edits' \in 0..MaxForeign
    BY <1>1, <2>1 DEF ForeignEdit
  <2>3. matches' \subseteq Oids /\ foreign' \subseteq Oids /\ disturbed' \in BOOLEAN
    BY <1>1, <2>1 DEF ForeignEdit
  <2>4. QED
    BY <2>1, <2>2, <2>3 DEF ForeignEdit, stream, buffer
<1>11. CASE UNCHANGED vars
  BY <1>11 DEF vars, stream, buffer, others
<1>12. QED
  BY <1>2, <1>3, <1>4, <1>5, <1>6, <1>7, <1>8, <1>9, <1>10, <1>11 DEF Next, WalkStep

\* The cursors' state has its type.
THEOREM WalksAreTyped == Spec => []TypeOK
<1>1. QED
  BY InitialTypes, TypesStay, PTL DEF Spec

-----------------------------------------------------------------------------
(* What is edited has been visited. *)

\* What an action of the loop's own edits does to the rows that match.
LEMMA OwnEditsTakeVisitedRows ==
  ASSUME TypeOK, EditsInv, UpdateRow \/ Flush \/ Finish
  PROVE  /\ matches' \subseteq matches /\ matches \ matches' \subseteq Visited
         /\ leaving' \subseteq updates' /\ updates' \subseteq Visited
         /\ (UpdateRow /\ ~Snapshot) => matches' = matches
<1>1. leaving \subseteq updates /\ updates \subseteq Visited /\ (row = None \/ row \in Visited)
  BY DEF EditsInv
<1>2. CASE UpdateRow
  <2>1. PICK L \in {leaving, leaving \cup {row}} :
             IF Snapshot /\ Cardinality(updates \cup {row}) >= BatchSize
             THEN Apply(L)
             ELSE updates' = updates \cup {row} /\ leaving' = L /\ UNCHANGED matches
    BY <1>2 DEF UpdateRow
  <2>2. row \in Visited
    BY <1>1, <1>2 DEF UpdateRow
  <2>3. L \subseteq updates \cup {row} /\ L \subseteq Visited
    BY <1>1, <2>2
  <2>4. \/ matches' = matches \ L /\ updates' = {} /\ leaving' = {} /\ Snapshot
        \/ updates' = updates \cup {row} /\ leaving' = L /\ matches' = matches
    BY <2>1 DEF Apply
  <2>5. ~(Flush \/ Finish)
    BY <1>2 DEF UpdateRow, Flush, Finish
  <2>6. QED
    BY <1>1, <2>2, <2>3, <2>4
<1>3. CASE Flush \/ Finish
  <2>1. Apply(leaving)
    BY <1>3 DEF Flush, Finish
  <2>2. ~UpdateRow
    <3>1. CASE Flush
      <4>1. row' = row
        BY <3>1 DEF Flush
      <4>2. QED
        BY <4>1 DEF UpdateRow
    <3>2. CASE Finish
      BY <3>2 DEF Finish, UpdateRow
    <3>3. QED
      BY <1>3, <3>1, <3>2
  <2>3. QED
    BY <1>1, <2>1, <2>2 DEF Apply
<1>4. QED
  BY <1>2, <1>3

LEMMA EditsStay == TypeOK /\ EditsInv /\ [Next]_vars => EditsInv'
<1> SUFFICES ASSUME TypeOK, EditsInv, [Next]_vars PROVE EditsInv'
  OBVIOUS
<1>1. leaving \subseteq updates /\ updates \subseteq Visited /\ (row = None \/ row \in Visited)
  BY DEF EditsInv
<1>2. visits' = visits => Visited' = Visited
  BY DEF Visited
<1>3. CASE UpdateRow \/ Flush \/ Finish
  <2>1. visits' = visits /\ (row' = None \/ row' = row)
    BY <1>3 DEF UpdateRow, Flush, Finish
  <2>2. QED
    BY <1>1, <1>2, <1>3, <2>1, OwnEditsTakeVisitedRows DEF EditsInv, None
<1>4. CASE Yield
  <2>1. leaving' = leaving /\ updates' = updates
    BY <1>4 DEF Yield, buffer
  <2>2. page \in Seq(Oids) /\ page # <<>> /\ visits \in [Oids -> Nat]
    BY <1>4 DEF Yield, TypeOK
  <2>3. Head(page) \in Oids
    BY <2>2
  <2>4. \/ row' = Head(page) /\ visits' = [visits EXCEPT ![Head(page)] = @ + 1]
        \/ row' = row /\ visits' = visits
    BY <1>4 DEF Yield
  <2>5. Visited \subseteq Visited' /\ (row' = row \/ row' \in Visited')
    BY <2>2, <2>3, <2>4 DEF Visited
  <2>6. QED
    BY <1>1, <2>1, <2>5 DEF EditsInv, None
<1>5. CASE FetchPage \/ SnapshotPage \/ NextChunk \/ BodyEnds \/ (\E o \in Oids : ForeignEdit(o)) \/ UNCHANGED vars
  <2>1. leaving' = leaving /\ updates' = updates /\ visits' = visits /\ (row' = row \/ row' = None)
    BY <1>5 DEF FetchPage, SnapshotPage, NextChunk, BodyEnds, ForeignEdit, vars, buffer, None
  <2>2. QED
    BY <1>1, <1>2, <2>1 DEF EditsInv, None
<1>6. QED
  BY <1>3, <1>4, <1>5 DEF Next, WalkStep

-----------------------------------------------------------------------------
(* No row is read twice. *)

\* Two sequences without repetition that share no row make one.
LEMMA OnceTogether ==
  ASSUME NEW s \in Seq(Oids), NEW t \in Seq(Oids), Once(s), Once(t), ToSet(s) \cap ToSet(t) = {}
  PROVE  Once(s \o t)
<1>1. Len(s) \in Nat /\ Len(t) \in Nat /\ Len(s \o t) = Len(s) + Len(t)
  OBVIOUS
<1>2. \A i \in 1..Len(s) : (s \o t)[i] = s[i] /\ s[i] \in ToSet(s)
  BY DEF ToSet
<1>3. ASSUME NEW i \in 1..Len(s \o t), i > Len(s)
      PROVE  (s \o t)[i] = t[i - Len(s)] /\ t[i - Len(s)] \in ToSet(t) /\ i - Len(s) \in 1..Len(t)
  <2>1. i - Len(s) \in 1..Len(t)
    BY <1>1, <1>3
  <2>2. (s \o t)[i] = t[i - Len(s)]
    BY <1>1, <1>3, <2>1
  <2>3. QED
    BY <2>1, <2>2 DEF ToSet
<1>4. ASSUME NEW i \in 1..Len(s \o t), NEW j \in 1..Len(s \o t), (s \o t)[i] = (s \o t)[j]
      PROVE  i = j
  <2>1. CASE i > Len(s) /\ j > Len(s)
    <3>1. t[i - Len(s)] = t[j - Len(s)] /\ i - Len(s) \in 1..Len(t) /\ j - Len(s) \in 1..Len(t)
      BY <1>3, <1>4, <2>1
    <3>2. i - Len(s) = j - Len(s)
      BY <3>1 DEF Once
    <3>3. QED
      BY <1>1, <3>2
  <2>2. CASE ~(i > Len(s)) /\ ~(j > Len(s))
    <3>1. i \in 1..Len(s) /\ j \in 1..Len(s)
      BY <1>1, <2>2
    <3>2. QED
      BY <1>2, <1>4, <3>1 DEF Once
  <2>3. CASE i > Len(s) /\ ~(j > Len(s))
    <3>1. j \in 1..Len(s)
      BY <1>1, <2>3
    <3>2. QED
      BY <1>2, <1>3, <1>4, <2>3, <3>1
  <2>4. CASE ~(i > Len(s)) /\ j > Len(s)
    <3>1. i \in 1..Len(s)
      BY <1>1, <2>4
    <3>2. QED
      BY <1>2, <1>3, <1>4, <2>4, <3>1
  <2>5. QED
    BY <2>1, <2>2, <2>3, <2>4
<1>5. QED
  BY <1>4 DEF Once

LEMMA RowsTogether ==
  ASSUME NEW s \in Seq(Oids), NEW t \in Seq(Oids)
  PROVE  ToSet(s \o t) = ToSet(s) \cup ToSet(t)
<1>1. Len(s) \in Nat /\ Len(t) \in Nat /\ Len(s \o t) = Len(s) + Len(t) /\ s \o t \in Seq(Oids)
  OBVIOUS
<1>2. \A u \in Seq(Oids) : ToSet(u) = {u[i] : i \in 1..Len(u)}
  BY DEF ToSet
<1>3. \A i \in 1..Len(s) : (s \o t)[i] = s[i] /\ i \in 1..Len(s \o t)
  BY <1>1
<1>4. \A i \in 1..Len(t) : (s \o t)[Len(s) + i] = t[i] /\ Len(s) + i \in 1..Len(s \o t)
  BY <1>1
<1>5. \A i \in 1..Len(s \o t) : i \in 1..Len(s) \/ (i - Len(s) \in 1..Len(t) /\ Len(s) + (i - Len(s)) = i)
  BY <1>1
<1>6. ToSet(s) \cup ToSet(t) \subseteq ToSet(s \o t)
  <2>1. \A i \in 1..Len(s) : s[i] \in ToSet(s \o t)
    BY <1>1, <1>2, <1>3
  <2>2. \A i \in 1..Len(t) : t[i] \in ToSet(s \o t)
    BY <1>1, <1>2, <1>4
  <2>3. QED
    BY <1>2, <2>1, <2>2
<1>7. \A i \in 1..Len(s \o t) : (s \o t)[i] \in ToSet(s) \cup ToSet(t)
  <2>1. TAKE i \in 1..Len(s \o t)
  <2>2. CASE i \in 1..Len(s)
    BY <1>2, <1>3, <2>2
  <2>3. CASE i - Len(s) \in 1..Len(t) /\ Len(s) + (i - Len(s)) = i
    <3>1. (s \o t)[i] = t[i - Len(s)]
      BY <1>4, <2>3
    <3>2. QED
      BY <1>2, <2>3, <3>1
  <2>4. QED
    BY <1>5, <2>2, <2>3
<1>8. ToSet(s \o t) = {(s \o t)[i] : i \in 1..Len(s \o t)}
  BY <1>1, <1>2
<1>9. QED
  BY <1>6, <1>7, <1>8

\* When rows stop matching, no other row comes to lie ahead.
LEMMA AheadShrinks ==
  ASSUME TypeOK, matches' \subseteq matches, UNCHANGED <<chunk, offset, more>>
  PROVE  Ahead' \subseteq Ahead
<1>1. Query' \in SUBSET Query /\ Query \in SUBSET Oids
  BY DEF Query, TypeOK
<1>2. IsFiniteSet(Query)
  BY <1>1, QueriesAreFinite
<1>3. offset \in Nat
  BY FS_CardinalityType, WalkAssumption DEF TypeOK
<1>4. ASSUME NEW o \in Ahead' PROVE o \in Ahead
  <2>1. more /\ o \in Query' /\ offset < Rank(Query', o)
    BY <1>4 DEF Ahead
  <2>2. Rank(Query', o) <= Rank(Query, o) /\ Rank(Query', o) \in Nat /\ Rank(Query, o) \in Nat
    BY <1>1, <1>2, RankShrinks
  <2>3. offset < Rank(Query, o)
    BY <1>3, <2>1, <2>2
  <2>4. QED
    BY <1>1, <2>1, <2>3 DEF Ahead
<1>5. QED
  BY <1>4

\* At the beginning of a query every row lies ahead.
LEMMA RanksArePositive ==
  ASSUME NEW S \in SUBSET Oids
  PROVE  \A o \in S : 0 < Rank(S, o)
<1>1. S \subseteq Nat /\ IsFiniteSet(S) /\ Cardinality(S) \in Nat
  BY QueriesAreFinite
<1>2. \A o \in S : Rank(S, o) \in 1..Cardinality(S)
  BY <1>1, RankBounds, Zenon
<1>3. QED
  BY <1>1, <1>2

\* What ReadInv says of pages of the whole query.
WholeInv ==
  /\ foreign = {} /\ chunk = Oids
  /\ Once(page) /\ ToSet(page) \cap (ToSet(ids) \cup Visited) = {}
  /\ Ahead \cap (ToSet(ids) \cup Visited \cup previous) = {}
  /\ ToSet(page) \subseteq previous

LEMMA FetchReads == TypeOK /\ ReadInv /\ FetchPage => ReadInv'
<1> SUFFICES ASSUME TypeOK, ReadInv, FetchPage, ~disturbed PROVE ReadInv'
  BY DEF FetchPage, others, ReadInv
<1>1. UNCHANGED <<cursor, matches, pc, ids, chunk, wanted, foreign, disturbed, visits>>
  BY DEF FetchPage, others
<1>2. Visited' = Visited /\ Snapshot' = Snapshot /\ WholeQuery' = WholeQuery
  BY <1>1 DEF Visited, Snapshot, WholeQuery
<1>3. WholeQuery /\ pc # "done" => WholeInv'
  <2>1. SUFFICES ASSUME WholeQuery, pc # "done" PROVE WholeInv'
    OBVIOUS
  <2>2. WholeInv
    BY <2>1 DEF ReadInv, WholeInv
  <2>3. PageSize \in Nat \ {0} /\ offset \in Nat /\ left \in Nat \ {0}
    BY WalkAssumption, FS_CardinalityType DEF TypeOK, PageSize, MaxPages, FetchPage
  <2>4. Ahead \cap previous = {} /\ more /\ TakePage(Query) /\ matches \subseteq Oids /\ chunk \subseteq Oids
    BY <2>2 DEF WholeInv, FetchPage, TypeOK, Query
  <2>5. /\ Once(page')
        /\ ToSet(page') = previous' /\ ToSet(page') \cup Ahead' \subseteq Ahead /\ ToSet(page') \cap Ahead' = {}
    BY <1>1, <2>3, <2>4, PagesGoOn
  <2>6. Ahead \cap (ToSet(ids) \cup Visited) = {}
    BY <2>2 DEF WholeInv
  <2>7. ToSet(page') \cap (ToSet(ids') \cup Visited') = {} /\ Ahead' \cap (ToSet(ids') \cup Visited' \cup previous') = {}
    BY <1>1, <1>2, <2>5, <2>6
  <2>8. foreign' = {} /\ chunk' = Oids
    BY <1>1, <2>2 DEF WholeInv
  <2>9. QED
    BY <2>5, <2>7, <2>8 DEF WholeInv
<1>4. QED
  BY <1>1, <1>2, <1>3 DEF ReadInv, WholeInv

LEMMA SnapshotReads == TypeOK /\ ReadInv /\ SnapshotPage => ReadInv'
<1> SUFFICES ASSUME TypeOK, ReadInv, SnapshotPage, ~disturbed PROVE ReadInv'
  BY DEF SnapshotPage, others, ReadInv
<1>1. /\ pc = "snapshot" /\ ids' = ids \o page /\ page' = <<>>
      /\ UNCHANGED <<cursor, matches, pc, chunk, wanted, offset, previous, more, foreign, disturbed, visits>>
  BY DEF SnapshotPage, others
<1>2. Visited' = Visited /\ Snapshot' = Snapshot /\ Ahead' = Ahead
  BY <1>1 DEF Visited, Snapshot, Ahead, Query
<1>3. /\ WholeInv
      /\ wanted = chunk \ Visited /\ (\A o \in Oids : visits[o] <= 1)
      /\ Once(ids) /\ ToSet(ids) \cap Visited = {} /\ (~Snapshot => ids = <<>> /\ pc # "snapshot")
  BY <1>1 DEF ReadInv, WholeInv, WholeQuery
<1>4. ids \in Seq(Oids) /\ page \in Seq(Oids)
  BY DEF TypeOK
<1>5. Once(ids') /\ ToSet(ids') = ToSet(ids) \cup ToSet(page)
  <2>1. ToSet(ids) \cap ToSet(page) = {} /\ Once(page)
    BY <1>3 DEF WholeInv
  <2>2. Once(ids \o page)
    BY <1>3, <1>4, <2>1, OnceTogether
  <2>3. ToSet(ids \o page) = ToSet(ids) \cup ToSet(page)
    BY <1>4, RowsTogether
  <2>4. QED
    BY <1>1, <2>2, <2>3
<1>6. Once(page') /\ ToSet(page') = {}
  BY <1>1 DEF Once, ToSet
<1>7. Snapshot
  BY <1>1, <1>3
<1>8. WholeInv'
  BY <1>1, <1>2, <1>3, <1>5, <1>6 DEF WholeInv
<1>9. ToSet(ids') \cap Visited' = {}
  BY <1>2, <1>3, <1>5 DEF WholeInv
<1>10. QED
  BY <1>1, <1>2, <1>3, <1>5, <1>7, <1>8, <1>9 DEF ReadInv, WholeInv

LEMMA NextChunkReads == TypeOK /\ ReadInv /\ NextChunk => ReadInv'
<1> SUFFICES ASSUME TypeOK, ReadInv, NextChunk, ~disturbed PROVE ReadInv'
  BY DEF NextChunk, others, ReadInv
<1> DEFINE n == IF BatchSize < Len(ids) THEN BatchSize ELSE Len(ids)
<1>1. ids \in Seq(Oids) /\ ids # <<>> /\ BatchSize \in Nat \ {0}
  BY WalkAssumption DEF NextChunk, TypeOK, BatchSize
<1>2. n \in 1..Len(ids)
  BY <1>1
<1>3. /\ chunk' = ToSet(SubSeq(ids, 1, n)) /\ ids' = SubSeq(ids, n + 1, Len(ids))
      /\ wanted' = chunk' /\ pc' = "stream" /\ Snapshot /\ UNCHANGED <<cursor, disturbed, visits>>
  BY DEF NextChunk, others
<1> HIDE DEF n
<1>4. Once(ids) /\ ToSet(ids) \cap Visited = {} /\ \A o \in Oids : visits[o] <= 1
  BY DEF ReadInv
<1>5. Once(ids') /\ chunk' \cup ToSet(ids') = ToSet(ids) /\ ToSet(ids') \cap chunk' = {}
  BY <1>1, <1>2, <1>3, <1>4, BatchesSplitTheIds
<1>6. Visited' = Visited /\ Snapshot' = Snapshot /\ ~WholeQuery'
  BY <1>3 DEF Visited, Snapshot, WholeQuery
<1>7. wanted' = chunk' \ Visited' /\ ToSet(ids') \cap Visited' = {}
  BY <1>3, <1>4, <1>5, <1>6
<1>8. QED
  BY <1>3, <1>4, <1>5, <1>6, <1>7 DEF ReadInv

LEMMA YieldReads == TypeOK /\ ReadInv /\ Yield => ReadInv'
<1> SUFFICES ASSUME TypeOK, ReadInv, Yield, ~disturbed PROVE ReadInv'
  BY DEF Yield, others, ReadInv
<1> DEFINE o == Head(page)
           taken == ~Snapshot \/ o \in wanted
<1>1. /\ page \in Seq(Oids) /\ page # <<>> /\ page' = Tail(page) /\ pc = "stream"
      /\ UNCHANGED <<cursor, matches, ids, chunk, offset, previous, more, foreign, disturbed>>
  BY DEF Yield, TypeOK, others
<1>2. o \in Oids /\ o = page[1] /\ o \in ToSet(page) /\ visits \in [Oids -> Nat]
  BY <1>1 DEF ToSet, TypeOK
<1>3. /\ taken => /\ pc' = "body" /\ wanted' = wanted \ {o} /\ visits' = [visits EXCEPT ![o] = @ + 1]
      /\ ~taken => pc' = pc /\ wanted' = wanted /\ visits' = visits
  BY DEF Yield
<1> HIDE DEF o
<1>4. /\ wanted = chunk \ Visited /\ (\A q \in Oids : visits[q] <= 1)
      /\ Once(ids) /\ ToSet(ids) \cap Visited = {} /\ ToSet(ids) \cap chunk = {}
      /\ ~Snapshot => ids = <<>>
  BY <1>1 DEF ReadInv
<1>5. ~Snapshot => WholeInv
  BY <1>1 DEF ReadInv, WholeInv, WholeQuery
<1>6. taken => o \in wanted
  BY <1>2, <1>4, <1>5 DEF WholeInv
<1>7. Visited' = IF taken THEN Visited \cup {o} ELSE Visited
  BY <1>2, <1>3 DEF Visited
<1>8. \A q \in Oids : visits'[q] <= 1
  <2>1. taken => visits[o] = 0
    BY <1>2, <1>4, <1>6 DEF Visited
  <2>2. QED
    BY <1>2, <1>3, <1>4, <2>1
<1>9. wanted' = chunk' \ Visited' /\ ToSet(ids') \cap Visited' = {} /\ ToSet(ids') \cap chunk' = {}
  BY <1>1, <1>3, <1>4, <1>6, <1>7
<1>10. Snapshot' = Snapshot /\ Ahead' = Ahead /\ pc' # "snapshot"
  BY <1>1, <1>3 DEF Snapshot, Ahead, Query
<1>11. ASSUME ~Snapshot PROVE WholeInv'
  <2>1. WholeInv /\ taken
    BY <1>5, <1>11
  <2>2. Len(page') = Len(page) - 1 /\ Len(page) \in Nat /\ page' \in Seq(Oids)
    BY <1>1
  <2>3. \A i \in 1..Len(page') : page'[i] = page[i + 1] /\ i + 1 \in 1..Len(page) /\ i + 1 # 1
    BY <1>1, <2>2
  <2>4. \A i, j \in 1..Len(page) : page[i] = page[j] => i = j
    BY <2>1 DEF WholeInv, Once
  <2>5. Once(page')
    <3>1. ASSUME NEW i \in 1..Len(page'), NEW j \in 1..Len(page'), page'[i] = page'[j] PROVE i = j
      <4>1. i + 1 = j + 1
        BY <2>3, <2>4, <3>1
      <4>2. QED
        BY <2>2, <4>1
    <3>2. QED
      BY <3>1 DEF Once
  <2>6. ToSet(page') \subseteq ToSet(page) \ {o}
    <3>1. ASSUME NEW i \in 1..Len(page') PROVE page'[i] \in ToSet(page) /\ page'[i] # o
      <4>1. page'[i] = page[i + 1] /\ i + 1 \in 1..Len(page) /\ i + 1 # 1 /\ 1 \in 1..Len(page)
        BY <2>2, <2>3
      <4>2. page[i + 1] # page[1]
        BY <2>4, <4>1
      <4>3. QED
        BY <1>1, <1>2, <4>1, <4>2 DEF ToSet
    <3>2. QED
      BY <2>2, <3>1 DEF ToSet
  <2>7. o \notin Ahead
    BY <1>2, <2>1 DEF WholeInv
  <2>8. ToSet(page') \cap (ToSet(ids') \cup Visited') = {}
    BY <1>1, <1>7, <2>1, <2>6 DEF WholeInv
  <2>9. Ahead' \cap (ToSet(ids') \cup Visited' \cup previous') = {}
    BY <1>1, <1>7, <1>10, <2>1, <2>7 DEF WholeInv
  <2>10. QED
    BY <1>1, <2>1, <2>5, <2>6, <2>8, <2>9 DEF WholeInv
<1>12. QED
  BY <1>1, <1>4, <1>8, <1>9, <1>10, <1>11 DEF ReadInv, WholeInv, WholeQuery

LEMMA OwnEditReads == TypeOK /\ EditsInv /\ ReadInv /\ (UpdateRow \/ Flush \/ Finish) => ReadInv'
<1> SUFFICES ASSUME TypeOK, EditsInv, ReadInv, UpdateRow \/ Flush \/ Finish PROVE ReadInv'
  OBVIOUS
<1>1. /\ UNCHANGED <<cursor, ids, chunk, wanted, stream, foreign, disturbed, visits>>
      /\ pc' = pc \/ (pc' = "done" /\ ids = <<>>)
  <2>1. CASE UpdateRow
    BY <2>1 DEF UpdateRow, others
  <2>2. CASE Flush
    BY <2>2 DEF Flush, others
  <2>3. CASE Finish
    BY <2>3 DEF Finish, others
  <2>4. QED
    BY <2>1, <2>2, <2>3
<1> SUFFICES ASSUME ~disturbed PROVE ReadInv'
  BY <1>1 DEF ReadInv
<1>2. Visited' = Visited /\ Snapshot' = Snapshot
  BY <1>1 DEF Visited, Snapshot
<1>3. Ahead' \subseteq Ahead
  BY <1>1, OwnEditsTakeVisitedRows, AheadShrinks DEF stream
<1>4. WholeQuery' /\ pc' # "done" => WholeInv'
  <2>1. SUFFICES ASSUME WholeQuery', pc' # "done" PROVE WholeInv'
    OBVIOUS
  <2>2. WholeInv
    BY <1>1, <1>2, <2>1 DEF ReadInv, WholeInv, WholeQuery
  <2>3. QED
    BY <1>1, <1>2, <1>3, <2>2 DEF WholeInv, stream
<1>5. pc' # "snapshot" => ToSet(ids') \cap chunk' = {}
  <2>1. ids = <<>> => ToSet(ids) = {}
    BY DEF ToSet
  <2>2. QED
    BY <1>1, <2>1 DEF ReadInv
<1>6. QED
  BY <1>1, <1>2, <1>4, <1>5 DEF ReadInv, WholeInv

LEMMA ReadsStay == TypeOK /\ EditsInv /\ ReadInv /\ [Next]_vars => ReadInv'
<1> SUFFICES ASSUME TypeOK, EditsInv, ReadInv, [Next]_vars PROVE ReadInv'
  OBVIOUS
<1>1. CASE BodyEnds
  <2>1. /\ UNCHANGED <<cursor, matches, ids, chunk, wanted, offset, page, previous, more, foreign, disturbed, visits>>
        /\ pc = "body" /\ pc' = "stream"
    BY <1>1 DEF BodyEnds, others, stream
  <2>2. Visited' = Visited /\ Snapshot' = Snapshot /\ Ahead' = Ahead
    BY <2>1 DEF Visited, Snapshot, Ahead, Query
  <2>3. QED
    BY <2>1, <2>2 DEF ReadInv, WholeQuery
<1>2. CASE \E o \in Oids : ForeignEdit(o)
  <2>1. SUFFICES ASSUME ~disturbed' PROVE ReadInv'
    BY DEF ReadInv
  <2>2. /\ UNCHANGED <<cursor, pc, ids, chunk, wanted, visits>>
        /\ disturbed' = (disturbed \/ pc = "snapshot" \/ ~Snapshot)
    BY <1>2 DEF ForeignEdit
  <2>3. ~disturbed /\ pc # "snapshot" /\ Snapshot
    BY <2>1, <2>2
  <2>4. Visited' = Visited /\ Snapshot' /\ ~WholeQuery'
    BY <2>2, <2>3 DEF Visited, Snapshot, WholeQuery
  <2>5. QED
    BY <2>2, <2>3, <2>4 DEF ReadInv
<1>3. CASE UNCHANGED vars
  <2>1. /\ UNCHANGED <<cursor, matches, ids, chunk, wanted, offset, page, previous, more, foreign, disturbed, visits, pc>>
    BY <1>3 DEF vars, others, stream
  <2>2. Visited' = Visited /\ Snapshot' = Snapshot /\ Ahead' = Ahead
    BY <2>1 DEF Visited, Snapshot, Ahead, Query
  <2>3. QED
    BY <2>1, <2>2 DEF ReadInv, WholeQuery
<1>4. QED
  BY <1>1, <1>2, <1>3, FetchReads, SnapshotReads, NextChunkReads, YieldReads, OwnEditReads DEF Next, WalkStep

-----------------------------------------------------------------------------
(* A safe cursor comes to every row that matched. *)

\* One page less to read is as many rows less as a page holds.
LEMMA OnePageLess ==
  \A a \in Nat, b \in Nat \ {0} : b * a \in Nat /\ (b - 1) * a \in Nat /\ b * a = (b - 1) * a + a
OBVIOUS

\* The steps of VisitInv: what a row needs for the invariant to hold of it.
VisitedOrToCome(o) == o \in Visited \/ (pc # "done" /\ StillToCome(o))

\* Inside a batch of ids a safe cursor reads one page.
OnePage ==
  pc \in {"stream", "body"} /\ Snapshot =>
    Cardinality(chunk) <= BatchSize /\ (more => offset = 0 /\ previous = {})

LEMMA FetchVisits == TypeOK /\ ReadInv /\ VisitInv /\ FetchPage => VisitInv'
<1> SUFFICES ASSUME TypeOK, ReadInv, VisitInv, FetchPage PROVE VisitInv'
  OBVIOUS
<1>1. UNCHANGED <<cursor, matches, pc, ids, chunk, wanted, original, foreign, disturbed, visits>>
  BY DEF FetchPage, others
<1>2. /\ Visited' = Visited /\ Snapshot' = Snapshot /\ Safe' = Safe /\ BatchSize' = BatchSize
      /\ Reach' = Reach /\ PageSize' = PageSize /\ Due' = Due /\ WholeQuery' = WholeQuery
  BY <1>1 DEF Visited, Snapshot, Safe, BatchSize, PageSize, Reach, MaxPages, Due, WholeQuery
<1> SUFFICES ASSUME ~disturbed, Safe PROVE VisitInv'
  BY <1>1, <1>2 DEF VisitInv
<1>3. OnePage /\ WholeReach /\ \A o \in Due : VisitedOrToCome(o)
  BY DEF VisitInv, VisitedOrToCome, OnePage
<1>4. PageSize \in Nat \ {0} /\ BatchSize \in Nat /\ offset \in Nat /\ left \in Nat \ {0}
      /\ Reach \in Nat
  BY WalkAssumption, FS_CardinalityType, OnePageLess DEF TypeOK, PageSize, BatchSize, MaxPages, Reach, FetchPage
<1>5. /\ more /\ TakePage(Query) /\ matches \subseteq Oids /\ chunk \subseteq Oids
      /\ page = <<>> /\ pc \in {"snapshot", "stream"}
  BY DEF FetchPage, TypeOK, Query
<1>6. Ahead \cap previous = {}
  <2>1. CASE WholeQuery
    BY <1>5, <2>1 DEF ReadInv
  <2>2. CASE ~WholeQuery
    BY <1>3, <1>5, <2>2 DEF OnePage, WholeQuery
  <2>3. QED
    BY <2>1, <2>2
<1>7. /\ more' => Cardinality(Query) > PageSize /\ offset' = offset + PageSize
      /\ left' = left - 1
      /\ \A o \in Ahead :
           o \in ToSet(page') \cup Ahead' \/ (left = 1 /\ offset + PageSize < Rank(Query, o))
  BY <1>1, <1>4, <1>5, <1>6, PagesGoOn
<1>8. OnePage'
  <2>1. SUFFICES ASSUME pc = "stream", Snapshot
                 PROVE  Cardinality(chunk) <= BatchSize /\ ~more'
    BY <1>1, <1>2, <1>5 DEF OnePage
  <2>2. Cardinality(chunk) <= BatchSize /\ BatchSize <= PageSize
    BY <1>3, <1>4, <2>1 DEF OnePage, Safe
  <2>3. Query \in SUBSET chunk /\ Query \in SUBSET Oids /\ IsFiniteSet(chunk) /\ Cardinality(chunk) \in Nat
    BY <1>5, QueriesAreFinite DEF Query
  <2>4. Cardinality(Query) <= Cardinality(chunk) /\ Cardinality(Query) \in Nat
    BY <2>3, FS_Subset, FS_CardinalityType
  <2>5. ~(Cardinality(Query) > PageSize)
    BY <1>4, <2>2, <2>3, <2>4
  <2>6. QED
    BY <1>7, <2>2, <2>5
<1>9. \A o \in Ahead \cap Due : ~(left = 1 /\ offset + PageSize < Rank(Query, o))
  <2>1. SUFFICES ASSUME NEW o \in Ahead, o \in Due, left = 1 PROVE ~(offset + PageSize < Rank(Query, o))
    OBVIOUS
  <2>2. Query \in SUBSET Oids /\ o \in Query
    BY <1>5, <2>1 DEF Query, Ahead
  <2>3. Rank(Query, o) \in 1..Cardinality(Query) /\ Cardinality(Query) \in Nat
    BY <2>2, QueriesAreFinite, RankBounds
  <2>4. CASE WholeQuery
    <3>1. matches = original /\ Reach <= offset + left * PageSize
      BY <1>3, <1>5, <2>4 DEF WholeReach
    <3>2. chunk = Oids /\ Query = matches
      BY <1>5, <2>4 DEF ReadInv, Query
    <3>3. Rank(Query, o) <= Reach
      BY <2>1, <3>1, <3>2 DEF Due
    <3>4. left * PageSize = PageSize
      BY <1>4, <2>1
    <3>5. QED
      BY <1>4, <2>3, <3>1, <3>3, <3>4
  <2>5. CASE ~WholeQuery
    <3>1. Cardinality(chunk) <= BatchSize /\ BatchSize <= PageSize /\ offset = 0
      BY <1>3, <1>4, <1>5, <2>5 DEF OnePage, Safe, WholeQuery
    <3>2. Query \in SUBSET chunk /\ IsFiniteSet(chunk) /\ Cardinality(chunk) \in Nat
      BY <1>5, QueriesAreFinite DEF Query
    <3>3. Cardinality(Query) <= Cardinality(chunk)
      BY <3>2, FS_Subset
    <3>4. QED
      BY <1>4, <2>3, <3>1, <3>2, <3>3
  <2>6. QED
    BY <2>4, <2>5
<1>10. ASSUME NEW o \in Due PROVE VisitedOrToCome(o)'
  <2>1. VisitedOrToCome(o)
    BY <1>3
  <2>2. o \in ToSet(page) \cup Ahead => o \in ToSet(page') \cup Ahead'
    BY <1>5, <1>7, <1>9 DEF ToSet
  <2>3. QED
    BY <1>1, <1>2, <2>1, <2>2 DEF VisitedOrToCome, StillToCome
<1>11. WholeReach'
  <2>1. SUFFICES ASSUME WholeQuery, pc # "done"
                 PROVE  matches = original /\ (more' => Reach <= offset' + left' * PageSize)
    BY <1>1, <1>2 DEF WholeReach
  <2>2. matches = original /\ Reach <= offset + left * PageSize
    BY <1>3, <1>5, <2>1 DEF WholeReach
  <2>3. left * PageSize = (left - 1) * PageSize + PageSize /\ (left - 1) * PageSize \in Nat
    BY <1>4, OnePageLess
  <2>4. SUFFICES ASSUME more' PROVE Reach <= offset' + left' * PageSize
    BY <2>2
  <2>5. offset' = offset + PageSize /\ left' * PageSize = (left - 1) * PageSize
    BY <1>7, <2>4
  <2>6. QED
    BY <1>4, <2>2, <2>3, <2>5
<1>12. QED
  BY <1>1, <1>2, <1>8, <1>10, <1>11 DEF VisitInv, VisitedOrToCome, OnePage

LEMMA SnapshotVisits == TypeOK /\ ReadInv /\ VisitInv /\ SnapshotPage => VisitInv'
<1> SUFFICES ASSUME TypeOK, ReadInv, VisitInv, SnapshotPage PROVE VisitInv'
  OBVIOUS
<1>1. /\ pc = "snapshot" /\ ids' = ids \o page
      /\ UNCHANGED <<cursor, matches, pc, chunk, wanted, offset, more, left, original, foreign, disturbed, visits>>
  BY DEF SnapshotPage, others
<1>2. /\ Visited' = Visited /\ Snapshot' = Snapshot /\ Safe' = Safe /\ Ahead' = Ahead
      /\ Due' = Due /\ WholeReach' = WholeReach
  BY <1>1 DEF Visited, Snapshot, Safe, BatchSize, PageSize, Ahead, Query, Due, Reach, MaxPages, WholeReach, WholeQuery
<1> SUFFICES ASSUME ~disturbed, Safe PROVE VisitInv'
  BY <1>1, <1>2 DEF VisitInv
<1>3. ToSet(ids') = ToSet(ids) \cup ToSet(page)
  BY <1>1, RowsTogether DEF TypeOK
<1>4. ASSUME NEW o \in Due PROVE VisitedOrToCome(o)'
  <2>1. VisitedOrToCome(o)
    BY DEF VisitInv, VisitedOrToCome
  <2>2. QED
    BY <1>1, <1>2, <1>3, <2>1 DEF VisitedOrToCome, StillToCome
<1>5. QED
  BY <1>1, <1>2, <1>4 DEF VisitInv, VisitedOrToCome

LEMMA NextChunkVisits == TypeOK /\ ReadInv /\ VisitInv /\ NextChunk => VisitInv'
<1> SUFFICES ASSUME TypeOK, ReadInv, VisitInv, NextChunk PROVE VisitInv'
  OBVIOUS
<1> DEFINE n == IF BatchSize < Len(ids) THEN BatchSize ELSE Len(ids)
<1>1. ids \in Seq(Oids) /\ ids # <<>> /\ BatchSize \in Nat \ {0}
  BY WalkAssumption DEF NextChunk, TypeOK, BatchSize
<1>2. n \in 1..Len(ids) /\ n <= BatchSize
  BY <1>1
<1>3. /\ chunk' = ToSet(SubSeq(ids, 1, n)) /\ ids' = SubSeq(ids, n + 1, Len(ids))
      /\ wanted' = chunk' /\ pc' = "stream" /\ page = <<>> /\ ~more
      /\ offset' = 0 /\ previous' = {} /\ more'
      /\ Snapshot /\ UNCHANGED <<cursor, matches, original, foreign, disturbed, visits>>
  BY DEF NextChunk, others, Restart
<1> HIDE DEF n
<1>4. chunk' \cup ToSet(ids') = ToSet(ids) /\ Cardinality(chunk') <= n /\ chunk' \in SUBSET Oids
  BY <1>1, <1>2, <1>3, BatchesSplitTheIds
<1>5. /\ Visited' = Visited /\ Snapshot' = Snapshot /\ Safe' = Safe /\ BatchSize' = BatchSize
      /\ Due' = Due /\ ~WholeQuery'
  BY <1>3 DEF Visited, Snapshot, Safe, BatchSize, PageSize, Due, Reach, MaxPages, WholeQuery
<1> SUFFICES ASSUME ~disturbed, Safe PROVE VisitInv'
  BY <1>3, <1>5 DEF VisitInv
<1>6. Cardinality(chunk') <= BatchSize'
  <2>1. Cardinality(chunk') \in Nat
    BY <1>4, QueriesAreFinite
  <2>2. QED
    BY <1>1, <1>2, <1>4, <1>5, <2>1
<1>7. Ahead' = Query'
  <2>1. Query' \in SUBSET Oids
    BY <1>3, <1>4 DEF Query, TypeOK
  <2>2. \A o \in Query' : 0 < Rank(Query', o)
    BY <2>1, RanksArePositive
  <2>3. QED
    BY <1>3, <2>2 DEF Ahead
<1>8. ASSUME NEW o \in Due PROVE VisitedOrToCome(o)'
  <2>1. VisitedOrToCome(o)
    BY DEF VisitInv, VisitedOrToCome
  <2>2. ToSet(page) \cup Ahead = {}
    BY <1>3 DEF ToSet, Ahead
  <2>3. o \in Visited \/ (o \in matches /\ o \in ToSet(ids))
    BY <2>1, <2>2 DEF VisitedOrToCome, StillToCome
  <2>4. QED
    BY <1>3, <1>4, <1>5, <1>7, <2>3 DEF VisitedOrToCome, StillToCome, Query
<1>9. QED
  BY <1>3, <1>5, <1>6, <1>8 DEF VisitInv, VisitedOrToCome, WholeReach

LEMMA YieldVisits == TypeOK /\ ReadInv /\ VisitInv /\ Yield => VisitInv'
<1> SUFFICES ASSUME TypeOK, ReadInv, VisitInv, Yield PROVE VisitInv'
  OBVIOUS
<1> DEFINE h == Head(page)
           taken == ~Snapshot \/ h \in wanted
<1>1. /\ page \in Seq(Oids) /\ page # <<>> /\ page' = Tail(page) /\ pc = "stream"
      /\ UNCHANGED <<cursor, matches, ids, chunk, offset, previous, more, left, original, foreign, disturbed>>
  BY DEF Yield, TypeOK, others
<1>2. h \in Oids /\ visits \in [Oids -> Nat] /\ ToSet(page) \subseteq ToSet(page') \cup {h}
  <2>1. Len(page) \in Nat /\ Len(page') = Len(page) - 1 /\ h = page[1] /\ page' \in Seq(Oids)
    BY <1>1
  <2>2. \A i \in 1..Len(page) : i = 1 \/ (i - 1 \in 1..Len(page') /\ page'[i - 1] = page[i])
    BY <1>1, <2>1
  <2>3. ASSUME NEW i \in 1..Len(page) PROVE page[i] \in ToSet(page') \cup {h}
    BY <2>1, <2>2 DEF ToSet
  <2>4. ToSet(page) \subseteq ToSet(page') \cup {h}
    BY <1>1, <2>3 DEF ToSet
  <2>5. QED
    BY <1>1, <2>1, <2>4 DEF TypeOK
<1>3. /\ taken => pc' = "body" /\ wanted' = wanted \ {h} /\ visits' = [visits EXCEPT ![h] = @ + 1]
      /\ ~taken => pc' = pc /\ wanted' = wanted /\ visits' = visits
  BY DEF Yield
<1> HIDE DEF h
<1>4. Visited' = IF taken THEN Visited \cup {h} ELSE Visited
  BY <1>2, <1>3 DEF Visited
<1>5. /\ Snapshot' = Snapshot /\ Safe' = Safe /\ BatchSize' = BatchSize /\ Ahead' = Ahead
      /\ Due' = Due /\ Reach' = Reach /\ PageSize' = PageSize
  BY <1>1 DEF Snapshot, Safe, BatchSize, PageSize, Ahead, Query, Due, Reach, MaxPages
<1> SUFFICES ASSUME ~disturbed, Safe PROVE VisitInv'
  BY <1>1, <1>5 DEF VisitInv
<1>6. OnePage /\ WholeReach /\ \A o \in Due : VisitedOrToCome(o)
  BY DEF VisitInv, VisitedOrToCome, OnePage
<1>7. OnePage' /\ WholeReach' /\ pc' # "done"
  BY <1>1, <1>3, <1>5, <1>6 DEF OnePage, WholeReach, WholeQuery
<1>8. ASSUME NEW o \in Due PROVE VisitedOrToCome(o)'
  <2>1. VisitedOrToCome(o)
    BY <1>6
  <2>2. CASE o \in Visited'
    BY <2>2 DEF VisitedOrToCome
  <2>3. CASE o \notin Visited'
    <3>1. o \notin Visited /\ (taken => o # h)
      BY <1>4, <2>3
    <3>2. StillToCome(o)
      BY <2>1, <3>1 DEF VisitedOrToCome
    <3>3. o \in wanted => o \in wanted' /\ o # h
      BY <1>3, <3>1
    <3>4. StillToCome(o)'
      BY <1>1, <1>2, <1>5, <3>2, <3>3 DEF StillToCome
    <3>5. QED
      BY <1>7, <3>4 DEF VisitedOrToCome
  <2>4. QED
    BY <2>2, <2>3
<1>9. QED
  BY <1>1, <1>5, <1>7, <1>8 DEF VisitInv, VisitedOrToCome, OnePage

\* The flushes of a safe cursor do not touch what the pages to come hold.
LEMMA EditVisits == TypeOK /\ EditsInv /\ VisitInv /\ (UpdateRow \/ Flush) => VisitInv'
<1> SUFFICES ASSUME TypeOK, EditsInv, VisitInv, UpdateRow \/ Flush PROVE VisitInv'
  OBVIOUS
<1>1. /\ UNCHANGED <<cursor, pc, ids, chunk, wanted, stream, original, foreign, disturbed, visits>>
      /\ pc = "body"
  BY DEF UpdateRow, Flush, others
<1>2. /\ Visited' = Visited /\ Snapshot' = Snapshot /\ Safe' = Safe /\ BatchSize' = BatchSize
      /\ Reach' = Reach /\ PageSize' = PageSize /\ Due' = Due /\ WholeQuery' = WholeQuery
  BY <1>1 DEF Visited, Snapshot, Safe, BatchSize, PageSize, Reach, MaxPages, Due, WholeQuery
<1> SUFFICES ASSUME ~disturbed, Safe PROVE VisitInv'
  BY <1>1, <1>2 DEF VisitInv
<1>3. OnePage /\ WholeReach /\ \A o \in Due : VisitedOrToCome(o)
  BY DEF VisitInv, VisitedOrToCome, OnePage
<1>4. matches' \subseteq matches /\ matches \ matches' \subseteq Visited
  BY OwnEditsTakeVisitedRows
<1>5. ASSUME NEW o \in Ahead, o \in matches' PROVE o \in Ahead'
  <2>1. CASE Snapshot
    <3>1. more /\ offset = 0
      BY <1>1, <1>3, <2>1 DEF Ahead, OnePage
    <3>2. Query' \in SUBSET Oids /\ o \in Query'
      BY <1>1, <1>4, <1>5 DEF Query, TypeOK, Ahead
    <3>3. 0 < Rank(Query', o)
      BY <3>2, RanksArePositive
    <3>4. QED
      BY <1>1, <3>1, <3>2, <3>3 DEF Ahead, stream
  <2>2. CASE ~Snapshot
    <3>1. ~Flush
      BY <2>2 DEF Flush, Safe
    <3>2. matches' = matches
      BY <2>2, <3>1, OwnEditsTakeVisitedRows
    <3>3. Ahead' = Ahead
      BY <1>1, <3>2 DEF Ahead, Query, stream
    <3>4. QED
      BY <3>3
  <2>3. QED
    BY <2>1, <2>2
<1>6. ASSUME NEW o \in Due PROVE VisitedOrToCome(o)'
  <2>1. VisitedOrToCome(o)
    BY <1>3
  <2>2. CASE o \in Visited
    BY <1>2, <2>2 DEF VisitedOrToCome
  <2>3. CASE o \notin Visited
    <3>1. StillToCome(o)
      BY <2>1, <2>3 DEF VisitedOrToCome
    <3>2. o \in matches' /\ (o \in Ahead => o \in Ahead')
      BY <1>4, <1>5, <2>3, <3>1 DEF StillToCome
    <3>3. StillToCome(o)'
      BY <1>1, <3>1, <3>2 DEF StillToCome, stream
    <3>4. QED
      BY <1>1, <3>3 DEF VisitedOrToCome
  <2>4. QED
    BY <2>2, <2>3
<1>7. OnePage'
  BY <1>1, <1>2, <1>3 DEF OnePage, stream
<1>8. WholeReach'
  <2>1. SUFFICES ASSUME WholeQuery
                 PROVE  matches' = original /\ (more => Reach <= offset + left * PageSize)
    BY <1>1, <1>2 DEF WholeReach, stream
  <2>2. matches = original /\ (more => Reach <= offset + left * PageSize)
    BY <1>1, <1>3, <2>1 DEF WholeReach
  <2>3. ~Snapshot /\ ~Flush
    BY <1>1, <2>1 DEF WholeQuery, Flush, Safe
  <2>4. matches' = matches
    BY <2>3, OwnEditsTakeVisitedRows
  <2>5. QED
    BY <2>2, <2>4
<1>9. QED
  BY <1>1, <1>2, <1>6, <1>7, <1>8 DEF VisitInv, VisitedOrToCome, OnePage

LEMMA FinishVisits == VisitInv /\ Finish => VisitInv'
<1> SUFFICES ASSUME VisitInv, Finish PROVE VisitInv'
  OBVIOUS
<1>1. /\ page = <<>> /\ ~more /\ ids = <<>> /\ pc' = "done"
      /\ UNCHANGED <<cursor, original, foreign, disturbed, visits>>
  BY DEF Finish, others
<1>2. Visited' = Visited /\ Safe' = Safe /\ Due' = Due
  BY <1>1 DEF Visited, Snapshot, Safe, BatchSize, PageSize, Due, Reach, MaxPages
<1> SUFFICES ASSUME ~disturbed, Safe PROVE VisitInv'
  BY <1>1, <1>2 DEF VisitInv
<1>3. ToSet(page) = {} /\ ToSet(ids) = {} /\ Ahead = {}
  BY <1>1 DEF ToSet, Ahead
<1>4. \A o \in Due : o \in Visited
  BY <1>3 DEF VisitInv, StillToCome
<1>5. QED
  BY <1>1, <1>2, <1>4 DEF VisitInv, WholeReach

LEMMA ForeignVisits ==
  ASSUME NEW q \in Oids, TypeOK, VisitInv, ForeignEdit(q)
  PROVE  VisitInv'
<1>1. /\ UNCHANGED <<cursor, pc, ids, chunk, wanted, stream, original, visits>>
      /\ disturbed' = (disturbed \/ pc = "snapshot" \/ ~Snapshot)
      /\ foreign' = foreign \cup {q}
      /\ matches' = IF q \in matches THEN matches \ {q} ELSE matches \cup {q}
      /\ pc # "done"
  BY DEF ForeignEdit
<1>2. /\ Visited' = Visited /\ Snapshot' = Snapshot /\ Safe' = Safe /\ BatchSize' = BatchSize
      /\ Due' \subseteq Due \ {q} /\ WholeQuery' = WholeQuery
  BY <1>1 DEF Visited, Snapshot, Safe, BatchSize, PageSize, Reach, MaxPages, Due, WholeQuery
<1> SUFFICES ASSUME ~disturbed', Safe PROVE VisitInv'
  BY <1>2 DEF VisitInv
<1>3. ~disturbed /\ Snapshot /\ pc \in {"stream", "body"}
  BY <1>1 DEF TypeOK
<1>4. OnePage /\ WholeReach /\ \A o \in Due : VisitedOrToCome(o)
  BY <1>3 DEF VisitInv, VisitedOrToCome, OnePage
<1>5. OnePage'
  BY <1>1, <1>2, <1>4 DEF OnePage, stream
<1>6. ASSUME NEW o \in Due' PROVE VisitedOrToCome(o)'
  <2>1. VisitedOrToCome(o) /\ o # q
    BY <1>2, <1>4
  <2>2. CASE o \in Visited
    BY <1>2, <2>2 DEF VisitedOrToCome
  <2>3. CASE o \notin Visited
    <3>1. StillToCome(o) /\ o \in matches'
      BY <1>1, <2>1, <2>3 DEF VisitedOrToCome, StillToCome
    <3>2. o \in Ahead => o \in Ahead'
      <4>1. SUFFICES ASSUME o \in Ahead PROVE o \in Ahead'
        OBVIOUS
      <4>2. more /\ offset = 0 /\ o \in chunk
        BY <1>3, <1>4, <4>1 DEF Ahead, OnePage, Query
      <4>3. Query' \in SUBSET Oids /\ o \in Query'
        BY <1>1, <3>1, <4>2 DEF Query, TypeOK
      <4>4. 0 < Rank(Query', o)
        BY <4>3, RanksArePositive
      <4>5. QED
        BY <1>1, <4>2, <4>3, <4>4 DEF Ahead, stream
    <3>3. StillToCome(o)'
      BY <1>1, <3>1, <3>2 DEF StillToCome, stream
    <3>4. QED
      BY <1>1, <3>3 DEF VisitedOrToCome
  <2>4. QED
    BY <2>2, <2>3
<1>7. ~WholeQuery
  BY <1>3 DEF WholeQuery
<1>8. QED
  BY <1>2, <1>5, <1>6, <1>7 DEF VisitInv, VisitedOrToCome, OnePage, WholeReach

LEMMA VisitsStay == TypeOK /\ EditsInv /\ ReadInv /\ VisitInv /\ [Next]_vars => VisitInv'
<1> SUFFICES ASSUME TypeOK, EditsInv, ReadInv, VisitInv, [Next]_vars PROVE VisitInv'
  OBVIOUS
<1>1. CASE BodyEnds \/ UNCHANGED vars
  <2>1. /\ UNCHANGED <<cursor, matches, ids, chunk, wanted, offset, page, previous, more, left, original, foreign, disturbed, visits>>
        /\ pc' = pc \/ (pc = "body" /\ pc' = "stream")
    BY <1>1 DEF BodyEnds, vars, others, stream
  <2>2. /\ Visited' = Visited /\ Snapshot' = Snapshot /\ Ahead' = Ahead /\ Safe' = Safe /\ BatchSize' = BatchSize
        /\ Due' = Due /\ Reach' = Reach /\ PageSize' = PageSize
    BY <2>1 DEF Visited, Snapshot, Ahead, Query, Safe, BatchSize, PageSize, Due, Reach, MaxPages
  <2>3. QED
    BY <2>1, <2>2 DEF VisitInv, StillToCome, WholeReach, WholeQuery
<1>2. QED
  BY <1>1, FetchVisits, SnapshotVisits, NextChunkVisits, YieldVisits, EditVisits, FinishVisits, ForeignVisits
     DEF Next, WalkStep

-----------------------------------------------------------------------------
LEMMA InitialVisits == Init => EditsInv /\ ReadInv /\ VisitInv
<1> SUFFICES ASSUME Init PROVE EditsInv /\ ReadInv /\ VisitInv
  OBVIOUS
<1>1. /\ Visited = {} /\ ToSet(ids) = {} /\ ToSet(page) = {} /\ Once(ids) /\ Once(page)
      /\ Snapshot \in BOOLEAN /\ (pc = IF Snapshot THEN "snapshot" ELSE "stream")
      /\ previous = {} /\ more /\ offset = 0 /\ left = MaxPages /\ MaxPages \in Nat /\ PageSize \in Nat
  BY WalkAssumption DEF MaxPages, PageSize, Init, StreamStart, Visited, Once, ToSet, Snapshot
<1>2. Query = original /\ Query \in SUBSET Oids
  BY DEF Init, Query
<1>3. Ahead = original
  BY <1>1, <1>2, RanksArePositive DEF Ahead
<1>4. EditsInv
  BY <1>1 DEF Init, EditsInv
<1>5. ReadInv
  BY <1>1 DEF Init, ReadInv, WholeQuery
<1>6. WholeReach
  <2>1. Reach \in Nat /\ Reach = left * PageSize
    BY <1>1 DEF Reach
  <2>2. QED
    BY <1>1, <2>1 DEF Init, WholeReach
<1>7. VisitInv
  BY <1>1, <1>2, <1>3, <1>6 DEF Init, VisitInv, StillToCome, Due
<1>8. QED
  BY <1>4, <1>5, <1>7

\* An update cursor whose own edits shift the pages it reads hands no row out twice;
\* and the SDK's, with pages that hold a batch of ids, and the scripting API's, in a
\* loop that does not flush, hand out every row that matched when the loop began and
\* that the pages of one query reach.  (UpdateCursor.__iter__, da.UpdateCursor.__next__)
THEOREM SafeCursorsSkipNothing == Spec => []SafeCursorsVisitTheirPages
<1>1. TypeOK /\ ReadInv /\ VisitInv => SafeCursorsVisitTheirPages
  <2> SUFFICES ASSUME TypeOK, ReadInv, VisitInv PROVE SafeCursorsVisitTheirPages
    OBVIOUS
  <2>1. NothingRepeats
    BY DEF ReadInv, NothingRepeats
  <2>2. (Safe /\ pc = "done" /\ ~disturbed) => \A o \in Due : visits[o] = 1
    <3>1. SUFFICES ASSUME Safe, pc = "done", ~disturbed, NEW o \in Due PROVE visits[o] = 1
      OBVIOUS
    <3>2. o \in Visited /\ o \in Oids /\ visits[o] \in Nat
      BY <3>1 DEF VisitInv, TypeOK, Due
    <3>3. visits[o] # 0 /\ visits[o] <= 1
      BY <3>1, <3>2 DEF Visited, ReadInv
    <3>4. QED
      BY <3>2, <3>3
  <2>3. QED
    BY <2>1, <2>2 DEF SafeCursorsVisitTheirPages
<1>2. QED
  BY <1>1, InitialTypes, TypesStay, InitialVisits, EditsStay, ReadsStay, VisitsStay, PTL DEF Spec
=============================================================================
