-------------------------- MODULE SearchTimingProofs --------------------------
(***************************************************************************)
(* Proofs about SearchTiming for any number of searches, any registry      *)
(* entries and captures and any length of time.  They rest on what         *)
(* valid_from and valid_until say together: a search judges by an old      *)
(* clock, but a row that this clock lets through is either current in its  *)
(* snapshot or was so when the search began.  The last section is about    *)
(* the database that is searched, which Provisioning sets up.              *)
(***************************************************************************)
EXTENDS SearchTiming, Provisioning, WellFoundedInduction, TLAPS

-----------------------------------------------------------------------------
(* The greatest of finitely many numbers                                   *)

\* The natural numbers are well-founded.
LEMMA LessThanWellFounded ==
    \E R : IsWellFoundedOn(R, Nat) /\ \A a, b \in Nat : a < b => <<a, b>> \in R
<1>1. IsWellFoundedOn(OpToRel(<, Nat), Nat)
  BY NatLessThanWellFounded
<1>2. \A a, b \in Nat : a < b => <<a, b>> \in OpToRel(<, Nat)
  BY DEF OpToRel
<1> QED
  BY <1>1, <1>2, Zenon

\* Some positions up to n have a last one: its distance to n is least.
LEMMA LastPosition ==
    ASSUME NEW n \in Nat, NEW S, S \subseteq 1..n, S # {}
    PROVE  \E i \in S : \A j \in S : j <= i
<1>1. PICK R : IsWellFoundedOn(R, Nat) /\ \A a, b \in Nat : a < b => <<a, b>> \in R
  BY LessThanWellFounded
<1> DEFINE T == {k \in Nat : \E i \in S : k = n - i}
<1>2. T \subseteq Nat /\ T # {}
  <2>1. PICK i \in S : TRUE
    OBVIOUS
  <2>2. n - i \in Nat
    OBVIOUS
  <2> QED
    BY <2>2
<1>3. IsWellFoundedOn(R, Nat)
  BY <1>1
<1>4. PICK t \in T : \A u \in T : ~(<<u, t>> \in R)
  <2> HIDE DEF T
  <2> QED
    BY <1>2, <1>3, WFMin, Zenon
<1>5. PICK i \in S : t = n - i
  OBVIOUS
<1>6. ASSUME NEW j \in S
      PROVE  j <= i
  <2>1. n - j \in T /\ n - j \in Nat /\ n - i \in Nat
    OBVIOUS
  <2>2. ~(n - j < n - i)
    BY <1>1, <1>4, <1>5, <2>1
  <2> QED
    BY <2>2
<1> QED
  BY <1>6

-----------------------------------------------------------------------------
(* The rows that an ingest writes                                          *)

\* The text that stays of a captured source is one of the capture.
LEMMA LastTextIsUpserted ==
    ASSUME TypeOK, ingest # Nothing, NEW s \in SourceKeys, Captured(s) # {}
    PROVE  /\ <<ingest.def.corpus, LastText(s)>> \in DocumentKeys
           /\ IsUpserted(<<ingest.def.corpus, LastText(s)>>)
<1>1. ingest \in IngestType
  BY DEF TypeOK
<1>2. ingest.records \in Seq(Records) /\ ingest.def.corpus \in Corpora
  BY <1>1, TimingAssumption DEF IngestType
<1>3. Captured(s) \subseteq 1..Len(ingest.records) /\ Len(ingest.records) \in Nat
  BY <1>2 DEF Captured
<1>4. \E i \in Captured(s) : \A j \in Captured(s) : j <= i
  BY <1>3, LastPosition
<1>5. PICK i \in Captured(s) : LastText(s) = ingest.records[i].body
  BY <1>4 DEF LastText
<1>6. i \in DOMAIN ingest.records /\ ingest.records[i] \in Records
  BY <1>2, <1>3
<1>7. LastText(s) \in Bodies
  BY <1>5, <1>6 DEF Records
<1> QED
  BY <1>2, <1>5, <1>6, <1>7 DEF DocumentKeys, IsUpserted

\* What becomes of a source: captured, retired, or left alone.
LEMMA SourceFates ==
    ASSUME TypeOK, ingest # Nothing, NEW s \in SourceKeys
    PROVE  \/ \E d \in DocumentKeys :
                 /\ IsUpserted(d)
                 /\ WrittenSource(s) = [home |-> d, until |-> Forever]
           \/ /\ source[s] # NoRow /\ source[s].until = Forever
              /\ WrittenSource(s) = [home |-> source[s].home, until |-> ingest.begin]
           \/ WrittenSource(s) = source[s]
<1>1. CASE Captured(s) # {}
  <2>1. WrittenSource(s) = [home |-> <<ingest.def.corpus, LastText(s)>>, until |-> Forever]
    BY <1>1 DEF WrittenSource
  <2> QED
    BY <1>1, <2>1, LastTextIsUpserted
<1>2. CASE Captured(s) = {}
  BY <1>2 DEF WrittenSource
<1> QED
  BY <1>1, <1>2

\* Times are numbers, and the future is later.
LEMMA TimeFacts ==
    /\ MaxTime \in Nat /\ Forever \in 1..Forever
    /\ \A t \in Times : t \in Nat /\ t < Forever /\ t \in 1..Forever
BY TimingAssumption DEF Forever, Times

\* A source row is written with its type.
LEMMA WrittenSourceType ==
    ASSUME TypeOK, ingest # Nothing, NEW s \in SourceKeys
    PROVE  WrittenSource(s) \in SourceRowType \cup {NoRow}
<1>1. ingest.begin \in Times
  BY DEF TypeOK, IngestType
<1>2. source[s] \in SourceRowType \cup {NoRow}
  BY DEF TypeOK
<1> QED
  BY <1>1, <1>2, SourceFates, TimeFacts DEF SourceRowType

\* What becomes of a document: valid_from stays, what was upserted is there,
\* what was upserted or current is current when a current source cites it, and
\* nothing is retired earlier than at the begin of the ingest.
LEMMA DocumentFates ==
    ASSUME TypeOK, ingest # Nothing, NEW d \in DocumentKeys
    PROVE  /\ WrittenDocument(d) \in DocumentRowType \cup {NoRow}
           /\ document[d] # NoRow =>
                 /\ WrittenDocument(d) # NoRow
                 /\ WrittenDocument(d).from = document[d].from
                 /\ \/ WrittenDocument(d).until = document[d].until
                    \/ ingest.begin <= WrittenDocument(d).until
           /\ WrittenDocument(d) # NoRow /\ document[d] = NoRow =>
                 WrittenDocument(d).from = ingest.begin
           /\ IsUpserted(d) => WrittenDocument(d) # NoRow
           /\ (IsUpserted(d) \/ (document[d] # NoRow /\ document[d].until = Forever))
                 /\ (\E s \in SourceKeys : Supports(s, d)) =>
                 WrittenDocument(d).until = Forever
<1>1. ingest.begin \in Times
  BY DEF TypeOK, IngestType
<1>2. document[d] \in DocumentRowType \cup {NoRow}
  BY DEF TypeOK
<1>3. CASE ~IsUpserted(d) /\ (document[d] = NoRow \/ document[d].until # Forever)
  <2>1. WrittenDocument(d) = document[d]
    BY <1>3 DEF WrittenDocument
  <2> QED
    BY <1>2, <1>3, <2>1
<1>4. CASE ~(~IsUpserted(d) /\ (document[d] = NoRow \/ document[d].until # Forever))
  <2> DEFINE until == IF \E s \in SourceKeys : Supports(s, d) THEN Forever ELSE ingest.begin
  <2>1. WrittenDocument(d) = [from |-> ValidFrom(d), until |-> until]
    BY <1>4 DEF WrittenDocument
  <2>2. ValidFrom(d) \in Times
    BY <1>1, <1>2 DEF ValidFrom, DocumentRowType
  <2>3. until \in 1..Forever /\ ingest.begin <= until
    BY <1>1, TimeFacts
  <2>4. (\E s \in SourceKeys : Supports(s, d)) => until = Forever
    OBVIOUS
  <2> HIDE DEF until
  <2>5. WrittenDocument(d) \in DocumentRowType /\ WrittenDocument(d) # NoRow
    BY <2>1, <2>2, <2>3, TimingAssumption DEF DocumentRowType
  <2> QED
    BY <2>1, <2>3, <2>4, <2>5 DEF ValidFrom
<1> QED
  BY <1>3, <1>4

-----------------------------------------------------------------------------
(* The clock does not matter                                               *)

\* A search without disturbance reads what is current: no time in the tables
\* lies after its clock, so the clock does not matter.
LEMMA StampedIsCurrent ==
    ASSUME TypeOK, HomesOutlive, NEW t \in Times, StampedBy(t)
    PROVE  Visible(t) = Current
<1>1. ASSUME NEW row \in Linked
      PROVE  row \in Visible(t) <=> row \in Current
  <2>1. row[1] \in DocumentKeys /\ row[2] \in SourceKeys
    BY DEF Linked, Rows
  <2>2. source[row[2]] \in SourceRowType /\ source[row[2]].home = row[1]
    BY <2>1 DEF TypeOK, Linked
  <2>3. document[row[1]] \in DocumentRowType
    BY <2>1, <2>2 DEF TypeOK, HomesOutlive, Linked
  <2>4. source[row[2]].until <= document[row[1]].until
    BY <2>1, <2>2 DEF HomesOutlive, Linked
  <2>5. document[row[1]].from <= t
    BY <2>1, <2>3, TimingAssumption DEF StampedBy
  <2>6. source[row[2]].until = Forever \/ source[row[2]].until <= t
    BY <2>1, <2>2, TimingAssumption DEF StampedBy
  <2>7. source[row[2]].until \in 1..Forever /\ document[row[1]].until \in 1..Forever
    BY <2>2, <2>3 DEF SourceRowType, DocumentRowType
  <2>8. t < source[row[2]].until <=> source[row[2]].until = Forever
    BY <2>6, <2>7, TimeFacts
  <2>9. source[row[2]].until = Forever => document[row[1]].until = Forever
    BY <2>4, <2>7, TimeFacts
  <2>10. t < Forever
    BY TimeFacts
  <2> QED
    BY <2>5, <2>8, <2>9, <2>10 DEF Visible, Current
<1> QED
  BY <1>1 DEF Visible, Current

-----------------------------------------------------------------------------
(* The commit of an ingest                                                 *)

\* A committed row is what was written.
LEMMA CommitWrites ==
    ASSUME CommitIngest
    PROVE  /\ ingest # Nothing
           /\ \A s \in SourceKeys : source'[s] = WrittenSource(s)
           /\ \A d \in DocumentKeys : document'[d] = WrittenDocument(d)
           /\ source' \in [SourceKeys -> {WrittenSource(s) : s \in SourceKeys}]
           /\ document' \in [DocumentKeys -> {WrittenDocument(d) : d \in DocumentKeys}]
BY DEF CommitIngest

\* No source outlives its document: a captured one is cited by itself, a
\* retired one was current and so was its document, and the others were
\* retired before the ingest began or still support their document.
LEMMA CommitKeepsHomes ==
    ASSUME TypeOK, HomesOutlive, ingest # Nothing, StampedBy(ingest.begin), CommitIngest
    PROVE  HomesOutlive'
<1> SUFFICES ASSUME NEW s \in SourceKeys, source'[s] # NoRow
             PROVE  /\ document'[source'[s].home] # NoRow
                    /\ source'[s].until <= document'[source'[s].home].until
  BY DEF HomesOutlive
<1>1. source'[s] = WrittenSource(s)
  BY CommitWrites
<1>2. WrittenSource(s) \in SourceRowType /\ ingest.begin \in Times
  BY <1>1, WrittenSourceType DEF TypeOK, IngestType
<1> DEFINE d == WrittenSource(s).home
<1>3. d \in DocumentKeys
  BY <1>2 DEF SourceRowType
<1>4. document'[d] = WrittenDocument(d)
  BY <1>3, CommitWrites
<1>5. WrittenDocument(d) # NoRow => WrittenDocument(d) \in DocumentRowType
  BY <1>3, DocumentFates
<1>6. ASSUME WrittenSource(s).until = Forever,
             IsUpserted(d) \/ (document[d] # NoRow /\ document[d].until = Forever)
      PROVE  WrittenDocument(d) # NoRow /\ WrittenDocument(d).until = Forever
  <2>1. Supports(s, d)
    BY <1>2, <1>6, TimingAssumption DEF Supports
  <2> QED
    BY <1>3, <1>6, <2>1, DocumentFates
<1>7. source[s] # NoRow =>
         /\ source[s] \in SourceRowType
         /\ document[source[s].home] # NoRow /\ source[s].until <= document[source[s].home].until
         /\ document[source[s].home] \in DocumentRowType
  <2>1. source[s] # NoRow => source[s] \in SourceRowType
    BY DEF TypeOK
  <2>2. source[s] # NoRow => source[s].home \in DocumentKeys
    BY <2>1 DEF SourceRowType
  <2> QED
    BY <2>1, <2>2 DEF TypeOK, HomesOutlive
<1>8. CASE \E e \in DocumentKeys :
              /\ IsUpserted(e)
              /\ WrittenSource(s) = [home |-> e, until |-> Forever]
  <2>1. IsUpserted(d) /\ WrittenSource(s).until = Forever
    BY <1>8
  <2> QED
    BY <1>1, <1>4, <1>6, <2>1, TimeFacts
<1>9. CASE /\ source[s] # NoRow /\ source[s].until = Forever
           /\ WrittenSource(s) = [home |-> source[s].home, until |-> ingest.begin]
  <2>1. d = source[s].home /\ WrittenSource(s).until = ingest.begin
    BY <1>9
  <2>2. document[d] # NoRow /\ document[d].until \in 1..Forever
        /\ source[s].until <= document[d].until
    BY <1>7, <1>9, <2>1 DEF DocumentRowType
  <2>3. document[d].until = Forever
    BY <1>9, <2>2, TimeFacts
  <2>4. WrittenDocument(d) # NoRow
        /\ (WrittenDocument(d).until = Forever \/ ingest.begin <= WrittenDocument(d).until)
    BY <1>3, <2>2, <2>3, DocumentFates
  <2> QED
    BY <1>1, <1>2, <1>4, <2>1, <2>4, TimeFacts
<1>10. CASE WrittenSource(s) = source[s]
  <2>1. source[s] # NoRow /\ d = source[s].home
    BY <1>1, <1>10
  <2>2. /\ document[d] # NoRow /\ document[d].until \in 1..Forever
        /\ source[s].until \in 1..Forever
        /\ source[s].until <= document[d].until
    BY <1>7, <2>1 DEF DocumentRowType, SourceRowType
  <2>3. WrittenDocument(d) # NoRow /\ WrittenDocument(d).until \in 1..Forever
    BY <1>3, <1>5, <2>2, DocumentFates DEF DocumentRowType
  <2>4. CASE source[s].until = Forever
    <3>1. document[d].until = Forever
      BY <2>2, <2>4, TimeFacts
    <3>2. WrittenDocument(d).until = Forever
      BY <1>6, <1>10, <2>2, <2>4, <3>1
    <3> QED
      BY <1>1, <1>4, <1>10, <2>3, <2>4, <3>2, TimeFacts
  <2>5. CASE source[s].until # Forever
    <3>1. source[s].until <= ingest.begin
      BY <2>1, <2>5 DEF StampedBy
    <3>2. \/ WrittenDocument(d).until = document[d].until
          \/ ingest.begin <= WrittenDocument(d).until
      BY <1>3, <2>2, DocumentFates
    <3>3. source[s].until <= WrittenDocument(d).until
      BY <1>2, <2>2, <2>3, <3>1, <3>2, TimeFacts
    <3> QED
      BY <1>1, <1>4, <1>10, <2>3, <3>3
  <2> QED
    BY <2>4, <2>5
<1> QED
  BY <1>8, <1>9, <1>10, SourceFates

\* The new times are those of the begin of the ingest.
LEMMA CommitStamps ==
    ASSUME TypeOK, ingest # Nothing, CommitIngest,
           NEW t \in Times, StampedBy(t), ingest.begin <= t
    PROVE  StampedBy(t)'
<1>1. ASSUME NEW s \in SourceKeys, source'[s] # NoRow
      PROVE  source'[s].until = Forever \/ source'[s].until <= t
  <2>1. source'[s] = WrittenSource(s)
    BY CommitWrites
  <2>2. source[s] # NoRow => source[s].until = Forever \/ source[s].until <= t
    BY DEF StampedBy
  <2> QED
    BY <1>1, <2>1, <2>2, SourceFates
<1>2. ASSUME NEW d \in DocumentKeys, document'[d] # NoRow
      PROVE  document'[d].from <= t
  <2>1. document'[d] = WrittenDocument(d)
    BY CommitWrites
  <2>2. document[d] # NoRow => document[d].from <= t
    BY DEF StampedBy
  <2> QED
    BY <1>2, <2>1, <2>2, DocumentFates
<1> QED
  BY <1>1, <1>2 DEF StampedBy, Forever

\* What an old clock lets through after the commit is current, or was let
\* through before it.
LEMMA CommitShowsNothingOld ==
    ASSUME TypeOK, HomesOutlive, HomesOutlive', TypeOK', ingest # Nothing, CommitIngest,
           NEW t \in Times
    PROVE  Visible(t)' \subseteq Visible(t) \cup Current'
<1> SUFFICES ASSUME NEW row \in Visible(t)', row \notin Current'
             PROVE  row \in Visible(t)
  OBVIOUS
<1> DEFINE d == row[1]
           s == row[2]
<1>1. /\ row \in Rows /\ d \in DocumentKeys /\ s \in SourceKeys
      /\ source'[s] # NoRow /\ source'[s].home = d
      /\ document'[d].from <= t /\ t < source'[s].until
      /\ row \in Linked'
  BY DEF Visible, Linked, Rows
<1>2. source'[s] = WrittenSource(s) /\ document'[d] = WrittenDocument(d)
  BY <1>1, CommitWrites
<1>3. source'[s].until # Forever
  <2> SUFFICES ASSUME source'[s].until = Forever
               PROVE  FALSE
    OBVIOUS
  <2>1. document'[d] # NoRow /\ Forever <= document'[d].until
    BY <1>1 DEF HomesOutlive, Forever
  <2>2. document'[d] \in DocumentRowType'
    BY <1>1, <2>1 DEF TypeOK
  <2>3. document'[d].until = Forever
    BY <2>1, <2>2, TimeFacts DEF DocumentRowType, Forever
  <2> QED
    BY <1>1, <2>3 DEF Current, Forever
<1>4. source[s] # NoRow /\ source[s].home = d /\ t < source[s].until
  <2>1. CASE /\ source[s] # NoRow /\ source[s].until = Forever
             /\ WrittenSource(s) = [home |-> source[s].home, until |-> ingest.begin]
    BY <1>1, <1>2, <2>1, TimeFacts
  <2>2. CASE WrittenSource(s) = source[s]
    BY <1>1, <1>2, <2>2
  <2> QED
    BY <1>1, <1>2, <1>3, <2>1, <2>2, SourceFates
<1>5. document[d] # NoRow /\ document[d] \in DocumentRowType
      /\ source[s].until <= document[d].until
  BY <1>1, <1>4 DEF HomesOutlive, TypeOK
<1>6. document[d].from <= t
  BY <1>1, <1>2, <1>5, DocumentFates
<1>7. t < document[d].until
  <2>1. source[s].until \in 1..Forever
    BY <1>1, <1>4 DEF TypeOK, SourceRowType
  <2>2. document[d].until \in 1..Forever
    BY <1>5 DEF DocumentRowType
  <2> QED
    BY <1>4, <1>5, <2>1, <2>2, TimeFacts
<1> QED
  BY <1>1, <1>4, <1>6, <1>7 DEF Visible, Linked

\* A row that is current before the commit and after it stays visible to an old
\* clock: the commit keeps the valid_from of its text.
LEMMA CommitKeepsLasting ==
    ASSUME TypeOK, HomesOutlive, ingest # Nothing, CommitIngest, NEW t \in Times
    PROVE  Current \cap Visible(t) \cap Current' \subseteq Visible(t)'
<1> SUFFICES ASSUME NEW row \in Current, row \in Visible(t), row \in Current'
             PROVE  row \in Visible(t)'
  OBVIOUS
<1> DEFINE d == row[1]
           s == row[2]
<1>1. /\ row \in Linked' /\ d \in DocumentKeys
      /\ source'[s].until = Forever /\ document'[d].until = Forever
  BY DEF Current, Linked, Rows, Forever
<1>2. document[d] # NoRow /\ document[d].from <= t
  <2>1. document[d].until = Forever /\ document[d].from <= t
    BY DEF Current, Visible
  <2>2. document[d] # NoRow
    <3>1. s \in SourceKeys /\ source[s] # NoRow /\ source[s].home = d
      BY DEF Current, Linked, Rows
    <3> QED
      BY <3>1 DEF HomesOutlive
  <2> QED
    BY <2>1, <2>2
<1>3. document'[d].from = document[d].from
  BY <1>1, <1>2, CommitWrites, DocumentFates
<1>4. t < Forever
  BY TimeFacts
<1> QED
  BY <1>1, <1>2, <1>3, <1>4 DEF Visible, Linked, Rows

-----------------------------------------------------------------------------
(* The steps                                                               *)

\* Steps that leave the tables alone leave alone what they show.
LEMMA TablesDecide ==
    ASSUME UNCHANGED tables
    PROVE  /\ HomesOutlive => HomesOutlive'
           /\ \A t : StampedBy(t) => StampedBy(t)'
           /\ \A t : Visible(t)' = Visible(t)
           /\ Current' = Current
BY DEF tables, HomesOutlive, StampedBy, Visible, Current, Linked, Rows, Forever

\* A search that a step does not touch keeps its invariant, as long as the
\* clock does not go back and no ingest begins behind it.
LEMMA SearchUntouched ==
    ASSUME TypeOK, NEW q \in Searches, SearchInv(q), UNCHANGED tables, now' \in Times, now <= now',
           begun'[q] = begun[q], result'[q] = result[q],
           kept'[q] = kept[q], seen'[q] = seen[q], overtaken'[q] = overtaken[q],
           ingest' = ingest \/ ingest' = Nothing \/ (ingest' # Nothing /\ q \in ingest'.overtakes)
    PROVE  SearchInv(q)'
<1>1. Pending(q)' => Pending(q)
  BY DEF Pending
<1>2. begun[q] \in Nat /\ now \in Nat /\ now' \in Nat
  BY TimeFacts DEF TypeOK
<1>3. Visible(begun[q])' = Visible(begun[q]) /\ (StampedBy(begun[q]) => StampedBy(begun[q])')
      /\ Current' = Current
  BY TablesDecide
<1> QED
  BY <1>1, <1>2, <1>3 DEF SearchInv

\* The types of what a commit leaves.
LEMMA CommitTypes ==
    ASSUME TypeOK, CommitIngest
    PROVE  TypeOK'
<1>1. /\ source' \in [SourceKeys -> SourceRowType \cup {NoRow}]
      /\ document' \in [DocumentKeys -> DocumentRowType \cup {NoRow}]
  <2>1. \A s \in SourceKeys : WrittenSource(s) \in SourceRowType \cup {NoRow}
    BY CommitWrites, WrittenSourceType
  <2>2. \A d \in DocumentKeys : WrittenDocument(d) \in DocumentRowType \cup {NoRow}
    BY CommitWrites, DocumentFates
  <2> QED
    BY <2>1, <2>2 DEF CommitIngest
<1>2. Current' \subseteq Rows
  BY DEF Current, Linked, Rows
<1>3. seen' \in [Searches -> SUBSET Rows] /\ kept' \in [Searches -> SUBSET Rows]
  <2>1. \A q \in Searches : seen[q] \subseteq Rows /\ kept[q] \subseteq Rows
    BY DEF TypeOK
  <2> QED
    BY <1>2, <2>1 DEF CommitIngest
<1>4. overtaken' \in [Searches -> BOOLEAN]
  <2>1. overtaken' = [q \in Searches |-> overtaken[q] \/ (Pending(q) /\ q \in ingest.overtakes)]
    BY DEF CommitIngest
  <2>2. \A q \in Searches : (overtaken[q] \/ (Pending(q) /\ q \in ingest.overtakes)) \in BOOLEAN
    OBVIOUS
  <2> QED
    BY <2>1, <2>2, Zenon
<1>5. UNCHANGED <<now, begun, result>> /\ ingest' = Nothing
  BY DEF CommitIngest
<1> QED
  BY <1>1, <1>3, <1>4, <1>5 DEF TypeOK, SourceRowType, DocumentRowType, IngestType,
                                Times, Forever, Rows

\* A commit keeps the invariant.
LEMMA CommitKeepsInv ==
    ASSUME TimingInv, CommitIngest
    PROVE  TimingInv'
<1> USE DEF TimingInv
<1>1. TypeOK /\ HomesOutlive /\ StampedBy(now) /\ ingest # Nothing
      /\ ingest.begin <= now /\ StampedBy(ingest.begin)
  BY DEF CommitIngest, IngestIsLatest
<1>2. now \in Times /\ ingest.begin \in Times
  BY <1>1 DEF TypeOK, IngestType
<1>3. UNCHANGED <<now, begun, result>> /\ ingest' = Nothing
  BY DEF CommitIngest
<1>4. TypeOK'
  BY <1>1, CommitTypes
<1>5. HomesOutlive'
  BY <1>1, CommitKeepsHomes
<1>6. StampedBy(now)'
  BY <1>1, <1>2, <1>3, CommitStamps
<1>7. IngestIsLatest'
  BY <1>3 DEF IngestIsLatest
<1>8. ASSUME NEW q \in Searches
      PROVE  SearchInv(q)'
  <2>1. SearchInv(q)
    OBVIOUS
  <2>2. begun'[q] = begun[q] /\ result'[q] = result[q] /\ (Pending(q)' <=> Pending(q))
    BY <1>3 DEF Pending
  <2>3. CASE ~Pending(q)
    <3>1. seen'[q] = seen[q] /\ kept'[q] = kept[q]
      BY <2>3 DEF CommitIngest
    <3> QED
      BY <2>1, <2>2, <2>3, <3>1 DEF SearchInv
  <2>4. CASE Pending(q)
    <3>1. begun[q] \in Times /\ begun[q] <= now /\ result[q] = Nothing
      <4>1. begun[q] \in 0..MaxTime /\ begun[q] # 0
        BY <1>1, <2>4 DEF TypeOK, Pending
      <4> QED
        BY <2>1, <2>4, <4>1, TimeFacts DEF SearchInv, Pending, Times
    <3>2. seen'[q] = seen[q] \cup Current'
      BY <2>4 DEF CommitIngest
    <3>3. Visible(begun[q])' \subseteq seen'[q]
      <4>1. PICK t \in Times : t = begun[q] /\ t = begun'[q]
        BY <2>2, <3>1
      <4>2. Visible(t)' \subseteq Visible(t) \cup Current'
        BY <1>1, <1>4, <1>5, CommitShowsNothingOld
      <4>3. Visible(t) \subseteq seen[q]
        BY <2>1, <2>4, <4>1 DEF SearchInv
      <4> QED
        BY <3>2, <4>1, <4>2, <4>3
    <3>4. ~overtaken'[q] => StampedBy(begun[q])'
      <4> SUFFICES ASSUME ~overtaken'[q]
                   PROVE  StampedBy(begun[q])'
        OBVIOUS
      <4>1. ~overtaken[q] /\ q \notin ingest.overtakes
        BY <2>4 DEF CommitIngest
      <4>2. PICK t \in Times : t = begun[q] /\ t = begun'[q]
        BY <2>2, <3>1
      <4>3. StampedBy(t) /\ ingest.begin <= t
        BY <1>1, <2>1, <2>4, <4>1, <4>2 DEF SearchInv
      <4>4. StampedBy(t)'
        BY <1>1, <4>3, CommitStamps
      <4> QED
        BY <4>2, <4>4
    <3>5. kept'[q] \subseteq Current' \cap Visible(begun[q])'
      <4>1. kept'[q] = kept[q] \cap Current'
        BY <2>4 DEF CommitIngest
      <4>2. PICK t \in Times : t = begun[q] /\ t = begun'[q]
        BY <2>2, <3>1
      <4>3. kept[q] \subseteq Current \cap Visible(t)
        BY <2>1, <2>4, <4>2 DEF SearchInv
      <4>4. Current \cap Visible(t) \cap Current' \subseteq Visible(t)'
        BY <1>1, CommitKeepsLasting
      <4> QED
        BY <4>1, <4>2, <4>3, <4>4
    <3> QED
      BY <1>3, <2>2, <3>1, <3>3, <3>4, <3>5 DEF SearchInv
  <2> QED
    BY <2>3, <2>4
<1> QED
  BY <1>4, <1>5, <1>6, <1>7, <1>8

\* A search that begins has the clock of the tables it finds.
LEMMA BeginSearchKeepsInv ==
    ASSUME TimingInv, NEW q \in Searches, BeginSearch(q)
    PROVE  TimingInv'
<1> USE DEF TimingInv
<1>1. UNCHANGED tables /\ UNCHANGED <<now, ingest, result, overtaken>>
  BY DEF BeginSearch
<1>2. now \in Times /\ now # 0
  BY TimeFacts DEF TypeOK, Times
<1>3. Current \subseteq Rows
  BY DEF Current, Linked
<1>4. TypeOK'
  BY <1>1, <1>2, <1>3, TimeFacts DEF TypeOK, BeginSearch, tables, SourceRowType,
           DocumentRowType, IngestType, Times, Forever, Rows
<1>5. HomesOutlive' /\ StampedBy(now)' /\ IngestIsLatest'
  BY <1>1, TablesDecide DEF IngestIsLatest
<1>6. ASSUME NEW r \in Searches
      PROVE  SearchInv(r)'
  <2>1. CASE r = q
    <3>1. begun'[q] = now /\ seen'[q] = Current /\ kept'[q] = Current /\ begun[q] = 0
      BY DEF BeginSearch, TypeOK
    <3>2. result'[q] = Nothing
      BY <1>1, <3>1 DEF SearchInv
    <3>3. Visible(begun[q])' = Current
      <4>1. PICK t \in Times : t = now /\ t = begun'[q]
        BY <1>2, <3>1
      <4>2. Visible(t)' = Visible(t)
        BY <1>1, TablesDecide
      <4>3. Visible(t) = Current
        BY <4>1, StampedIsCurrent
      <4> QED
        BY <4>1, <4>2, <4>3
    <3>4. StampedBy(begun[q])'
      <4>1. PICK t \in Times : t = now /\ t = begun'[q]
        BY <1>2, <3>1
      <4>2. StampedBy(t)'
        BY <1>1, <4>1, TablesDecide
      <4> QED
        BY <4>1, <4>2
    <3>5. begun'[q] <= now' /\ (ingest' # Nothing => ingest'.begin <= begun'[q])
      BY <1>1, <1>2, <3>1, TimeFacts DEF IngestIsLatest
    <3>6. Current' = Current
      BY <1>1, TablesDecide
    <3> QED
      BY <1>2, <2>1, <3>1, <3>2, <3>3, <3>4, <3>5, <3>6 DEF SearchInv
  <2>2. CASE r # q
    <3>1. /\ begun'[r] = begun[r] /\ result'[r] = result[r]
          /\ kept'[r] = kept[r] /\ seen'[r] = seen[r] /\ overtaken'[r] = overtaken[r]
      BY <1>1, <2>2 DEF BeginSearch, TypeOK
    <3>2. now' \in Times /\ now <= now'
      BY <1>1, <1>2, TimeFacts
    <3> QED
      BY <1>1, <3>1, <3>2, SearchUntouched
  <2> QED
    BY <2>1, <2>2
<1> QED
  BY <1>4, <1>5, <1>6

\* What a search returns was let through by its clock.
LEMMA SelectKeepsInv ==
    ASSUME TimingInv, NEW q \in Searches, Select(q)
    PROVE  TimingInv'
<1> USE DEF TimingInv
<1>1. UNCHANGED tables /\ UNCHANGED <<now, ingest, begun, kept, seen, overtaken>>
  BY DEF Select
<1>2. Visible(begun[q]) \subseteq Rows
  BY DEF Visible, Linked
<1>3. TypeOK'
  BY <1>1, <1>2 DEF TypeOK, Select, tables, SourceRowType, DocumentRowType,
           IngestType, Times, Forever, Rows
<1>4. HomesOutlive' /\ StampedBy(now)' /\ IngestIsLatest'
  BY <1>1, TablesDecide DEF IngestIsLatest
<1>5. now' \in Times /\ now <= now'
  BY <1>1, TimeFacts DEF TypeOK
<1>6. ASSUME NEW r \in Searches
      PROVE  SearchInv(r)'
  <2>1. CASE r = q
    <3>1. result'[q] = Visible(begun[q]) /\ result'[q] # Nothing
      BY <1>2, TimingAssumption DEF Select, TypeOK
    <3>2. Pending(q) /\ Visible(begun[q]) \subseteq seen[q]
          /\ kept[q] \subseteq Visible(begun[q])
      BY DEF Select, SearchInv
    <3> QED
      BY <1>1, <2>1, <3>1, <3>2 DEF SearchInv, Pending
  <2>2. CASE r # q
    <3>1. /\ begun'[r] = begun[r] /\ result'[r] = result[r]
          /\ kept'[r] = kept[r] /\ seen'[r] = seen[r] /\ overtaken'[r] = overtaken[r]
      BY <1>1, <2>2 DEF Select, TypeOK
    <3> QED
      BY <1>1, <1>5, <3>1, SearchUntouched
  <2> QED
    BY <2>1, <2>2
<1> QED
  BY <1>3, <1>4, <1>6

\* Steps of the clock and of an ingest before its commit.
LEMMA OtherStepsKeepInv ==
    ASSUME TimingInv,
           \/ Tick
           \/ \E def \in Definitions, records \in Captures : BeginIngest(def, records)
           \/ RollBack
    PROVE  TimingInv'
<1> USE DEF TimingInv
<1>1. UNCHANGED tables /\ UNCHANGED searches
  BY DEF Tick, BeginIngest, RollBack
<1>2. now \in Times /\ now' \in Times /\ now <= now'
  BY TimeFacts DEF TypeOK, Tick, BeginIngest, RollBack, Times
<1>3. \/ ingest' = ingest
      \/ ingest' = Nothing
      \/ /\ ingest' \in IngestType /\ ingest' # Nothing /\ ingest'.begin = now /\ now' = now
         /\ \A q \in Searches : Pending(q) => q \in ingest'.overtakes
  <2>1. CASE Tick \/ RollBack
    BY <2>1 DEF Tick, RollBack
  <2>2. ASSUME NEW def \in Definitions, NEW records \in Captures, BeginIngest(def, records)
        PROVE  /\ ingest' \in IngestType /\ ingest' # Nothing /\ ingest'.begin = now /\ now' = now
               /\ \A q \in Searches : Pending(q) => q \in ingest'.overtakes
    <3> DEFINE late == {q \in Searches : Pending(q)}
    <3>1. ingest' = [begin |-> now, def |-> def, records |-> records, overtakes |-> late]
          /\ now' = now
      BY <2>2 DEF BeginIngest
    <3>2. late \in SUBSET Searches /\ \A q \in Searches : Pending(q) => q \in late
      OBVIOUS
    <3> HIDE DEF late
    <3>3. ingest' \in IngestType
      BY <1>2, <3>1, <3>2 DEF IngestType
    <3> QED
      BY <3>1, <3>2, <3>3, TimingAssumption
  <2> QED
    BY <2>1, <2>2
<1>4. TypeOK'
  BY <1>1, <1>2, <1>3 DEF TypeOK, tables, searches, SourceRowType, DocumentRowType,
           IngestType, Times, Forever, Rows
<1>5. HomesOutlive'
  BY <1>1, TablesDecide
<1>6. StampedBy(now)'
  <2>1. \A s \in SourceKeys : source[s] # NoRow => source[s].until \in Nat
    BY TimeFacts DEF TypeOK, SourceRowType
  <2>2. \A d \in DocumentKeys : document[d] # NoRow => document[d].from \in Nat
    BY TimeFacts DEF TypeOK, DocumentRowType
  <2> QED
    BY <1>1, <1>2, <2>1, <2>2, TimeFacts DEF StampedBy, tables, Forever
<1>7. IngestIsLatest'
  <2>1. CASE ingest' = ingest
    <3>1. ingest # Nothing => StampedBy(ingest.begin)' /\ ingest.begin <= now
      BY <1>1, <2>1, TablesDecide DEF IngestIsLatest
    <3>2. ingest # Nothing => ingest.begin \in Nat
      BY TimeFacts DEF TypeOK, IngestType
    <3> QED
      BY <1>2, <2>1, <3>1, <3>2, TimeFacts DEF IngestIsLatest
  <2>2. CASE ingest' = Nothing
    BY <2>2 DEF IngestIsLatest
  <2>3. CASE ingest'.begin = now /\ now' = now
    <3>1. StampedBy(ingest.begin)' <=> StampedBy(now)'
      BY <2>3 DEF StampedBy
    <3> QED
      BY <1>2, <1>6, <2>3, <3>1, TimeFacts DEF IngestIsLatest
  <2> QED
    BY <1>3, <2>1, <2>2, <2>3
<1>8. ASSUME NEW q \in Searches
      PROVE  SearchInv(q)'
  <2>1. CASE Pending(q)
    BY <1>1, <1>2, <1>3, <2>1, SearchUntouched DEF searches
  <2>2. CASE ~Pending(q)
    <3>1. SearchInv(q) /\ ~Pending(q)'
      BY <1>1, <2>2 DEF searches, Pending
    <3> QED
      BY <1>1, <3>1 DEF SearchInv, searches
  <2> QED
    BY <2>1, <2>2
<1> QED
  BY <1>4, <1>5, <1>6, <1>7, <1>8

-----------------------------------------------------------------------------
(* Theorems                                                                *)

\* Every reachable state satisfies the invariant.
THEOREM TimingInvariant == Spec => []TimingInv
<1>1. Init => TimingInv
  <2> SUFFICES ASSUME Init
               PROVE  TimingInv
    OBVIOUS
  <2>1. now \in Times /\ 0 \in 0..MaxTime
    BY TimingAssumption DEF Init, Times
  <2>2. TypeOK
    BY <2>1 DEF Init, TypeOK
  <2>3. HomesOutlive /\ StampedBy(now) /\ IngestIsLatest
    BY DEF Init, HomesOutlive, StampedBy, IngestIsLatest
  <2>4. \A q \in Searches : SearchInv(q)
    BY DEF Init, SearchInv, Pending
  <2> QED
    BY <2>2, <2>3, <2>4 DEF TimingInv
<1>2. TimingInv /\ [Next]_vars => TimingInv'
  <2> SUFFICES ASSUME TimingInv, [Next]_vars
               PROVE  TimingInv'
    OBVIOUS
  <2>1. CASE CommitIngest
    BY <2>1, CommitKeepsInv
  <2>2. ASSUME NEW q \in Searches, BeginSearch(q)
        PROVE  TimingInv'
    BY <2>2, BeginSearchKeepsInv
  <2>3. ASSUME NEW q \in Searches, Select(q)
        PROVE  TimingInv'
    BY <2>3, SelectKeepsInv
  <2>4. CASE \/ Tick
             \/ \E def \in Definitions, records \in Captures : BeginIngest(def, records)
             \/ RollBack
    BY <2>4, OtherStepsKeepInv
  <2>5. CASE UNCHANGED vars
    <3>1. UNCHANGED tables /\ UNCHANGED <<now, ingest>> /\ UNCHANGED searches
      BY <2>5 DEF vars
    <3>2. TypeOK'
      BY <3>1 DEF TimingInv, TypeOK, tables, searches, SourceRowType, DocumentRowType,
                  IngestType, Times, Forever, Rows
    <3>3. HomesOutlive' /\ StampedBy(now)' /\ IngestIsLatest'
      BY <3>1, TablesDecide DEF TimingInv, IngestIsLatest
    <3>4. ASSUME NEW q \in Searches PROVE SearchInv(q)'
      <4>1. now' \in Times /\ now <= now'
        BY <3>1, TimeFacts DEF TimingInv, TypeOK
      <4> QED
        BY <3>1, <4>1, SearchUntouched DEF TimingInv, searches
    <3> QED
      BY <3>2, <3>3, <3>4 DEF TimingInv
  <2> QED
    BY <2>1, <2>2, <2>3, <2>4, <2>5 DEF Next
<1> QED
  BY <1>1, <1>2, PTL DEF Spec

\* Whatever a search returns was current, text and source together, at some
\* moment between its BEGIN and its snapshot.
THEOREM NeverStale == Spec => []NothingStaleIsShown
<1>1. TimingInv => NothingStaleIsShown
  BY DEF TimingInv, SearchInv, NothingStaleIsShown
<1> QED
  BY <1>1, TimingInvariant, PTL

\* Whatever was current at every moment from the BEGIN of a search to its
\* snapshot is returned, for any captures of any ingests in between.
THEOREM LastingIsFound == Spec => []NothingLastingIsMissed
<1>1. TimingInv => NothingLastingIsMissed
  BY DEF TimingInv, SearchInv, NothingLastingIsMissed
<1> QED
  BY <1>1, TimingInvariant, PTL

\* A search returns what is current at its snapshot, no more and no less,
\* unless an ingest began and committed within it.
THEOREM UndisturbedExact == Spec => UndisturbedIsExact
<1> DEFINE Exact == \A q \in Searches :
                       result'[q] # result[q] /\ ~overtaken[q] => result'[q] = Current
<1>1. TimingInv /\ [Next]_vars => Exact
  <2> SUFFICES ASSUME TimingInv, [Next]_vars, NEW q \in Searches,
                      result'[q] # result[q], ~overtaken[q]
               PROVE  result'[q] = Current
    OBVIOUS
  <2>1. Select(q)
    BY DEF TimingInv, TypeOK, Next, vars, searches, tables, Tick, BeginIngest, RollBack,
           CommitIngest, BeginSearch, Select
  <2>2. result'[q] = Visible(begun[q]) /\ Pending(q)
    BY <2>1 DEF Select, TimingInv, TypeOK
  <2>3. begun[q] \in Times /\ StampedBy(begun[q])
    <3>1. begun[q] \in 0..MaxTime /\ begun[q] # 0
      BY <2>2 DEF TimingInv, TypeOK, Pending
    <3> QED
      BY <2>2, <3>1, TimeFacts DEF TimingInv, SearchInv, Times
  <2> QED
    BY <2>2, <2>3, StampedIsCurrent DEF TimingInv
<1> QED
  BY <1>1, TimingInvariant, PTL DEF Spec, UndisturbedIsExact

-----------------------------------------------------------------------------
(* The clocks implement the abstract knowledge base                        *)

\* The document of every source that is current.
Content == [s \in SourceKeys |->
    IF source[s] # NoRow /\ source[s].until = Forever THEN source[s].home ELSE NoRow]

KB == INSTANCE KnowledgeBase WITH content <- Content

\* Only a non-empty capture begins an ingest.
NonEmpty == ingest # Nothing => ingest.records # <<>>

\* What is current in both tables can be read off the sources alone, because
\* no source outlives its document: it is what the abstract base returns.
LEMMA CurrentIsContent == TypeOK /\ HomesOutlive => Current = KB!Results(Corpora)
<1> SUFFICES ASSUME TypeOK, HomesOutlive, NEW d \in DocumentKeys, NEW s \in SourceKeys
             PROVE  <<d, s>> \in Current <=> Content[s] = d
  BY DEF Current, Linked, Rows, KB!Results, KB!DocumentKeys, DocumentKeys, KB!SourceKeys,
         SourceKeys, KB!Corpora, Corpora, KB!Public, Public, KB!Internal, Internal
<1>1. <<d, s>> \in Current <=>
         /\ source[s] # NoRow /\ source[s].home = d /\ source[s].until = Forever
         /\ document[d].until = Forever
  BY DEF Current, Linked, Rows
<1>2. ASSUME source[s] # NoRow, source[s].home = d, source[s].until = Forever
      PROVE  document[d].until = Forever
  <2>1. document[d] # NoRow /\ Forever <= document[d].until
    BY <1>2 DEF HomesOutlive
  <2>2. document[d].until \in 1..Forever
    BY <2>1 DEF TypeOK, DocumentRowType
  <2> QED
    BY <2>1, <2>2, TimeFacts
<1>3. d # NoRow
  BY NoRowAssumption
<1> QED
  BY <1>1, <1>2, <1>3 DEF Content

\* The last record of a source is the one that the abstract base publishes.
LEMMA LastTextIsPublished ==
    ASSUME TypeOK, ingest # Nothing, NEW s \in SourceKeys, s[1] = ingest.def.registry
    PROVE  /\ Captured(s) = {} <=> KB!LastUnder(ingest.records, s[2]) = {}
           /\ Captured(s) # {} =>
                 LastText(s) =
                    ingest.records[CHOOSE i \in KB!LastUnder(ingest.records, s[2]) : TRUE].body
<1> DEFINE last == KB!LastUnder(ingest.records, s[2])
<1>1. ingest.records \in Seq(Records)
  BY TimingAssumption DEF TypeOK, IngestType
<1>2. Captured(s) \subseteq 1..Len(ingest.records) /\ Len(ingest.records) \in Nat
  BY <1>1 DEF Captured
<1>3. last = {i \in Captured(s) : \A j \in Captured(s) : j <= i}
  BY DEF KB!LastUnder, Captured
<1> HIDE DEF last
<1>4. CASE Captured(s) = {}
  BY <1>3, <1>4 DEF last
<1>5. CASE Captured(s) # {}
  <2>1. PICK l \in Captured(s) : \A j \in Captured(s) : j <= l
    BY <1>2, <1>5, LastPosition
  <2>2. \A i \in Captured(s) : (\A j \in Captured(s) : j <= i) <=> i = l
    BY <1>2, <2>1
  <2>3. (CHOOSE i \in Captured(s) : \A j \in Captured(s) : j <= i) = l
    BY <2>1, <2>2
  <2>4. last = {l}
    BY <1>3, <2>1, <2>2
  <2>5. (CHOOSE i \in last : TRUE) = l
    BY <2>4
  <2> QED
    BY <1>5, <2>3, <2>4, <2>5 DEF last, LastText
<1> QED
  BY <1>4, <1>5

\* The commit of an ingest replaces, at one moment, what its entry published.
LEMMA CommitPublishes ==
    ASSUME TypeOK, NonEmpty, CommitIngest
    PROVE  KB!Publish(ingest.def, ingest.records)
<1>1. ingest # Nothing /\ ingest.records # <<>> /\ ingest.begin \in Times
  BY CommitWrites DEF NonEmpty, TypeOK, IngestType
<1>2. ASSUME NEW s \in SourceKeys
      PROVE  Content'[s] =
                IF s[1] # ingest.def.registry THEN Content[s]
                ELSE IF KB!LastUnder(ingest.records, s[2]) = {} THEN NoRow
                ELSE LET i == CHOOSE i \in KB!LastUnder(ingest.records, s[2]) : TRUE
                     IN <<ingest.def.corpus, ingest.records[i].body>>
  <2>1. source'[s] = WrittenSource(s)
    BY CommitWrites
  <2>2. Content'[s] = IF WrittenSource(s) # NoRow /\ WrittenSource(s).until = Forever
                      THEN WrittenSource(s).home ELSE NoRow
    BY <2>1 DEF Content, Forever
  <2>3. CASE s[1] # ingest.def.registry
    <3>1. WrittenSource(s) = source[s]
      BY <2>3 DEF WrittenSource, Captured
    <3> QED
      BY <2>2, <2>3, <3>1 DEF Content
  <2>4. CASE s[1] = ingest.def.registry /\ Captured(s) = {}
    <3>1. WrittenSource(s) = NoRow \/ WrittenSource(s).until # Forever
      BY <1>1, <2>4, TimeFacts DEF WrittenSource
    <3> QED
      BY <1>1, <2>2, <2>4, <3>1, LastTextIsPublished
  <2>5. CASE s[1] = ingest.def.registry /\ Captured(s) # {}
    <3>1. WrittenSource(s) = [home |-> <<ingest.def.corpus, LastText(s)>>, until |-> Forever]
      BY <2>5 DEF WrittenSource
    <3>2. [home |-> <<ingest.def.corpus, LastText(s)>>, until |-> Forever] \in SourceRowType
      BY <1>1, <2>5, LastTextIsUpserted, TimeFacts DEF SourceRowType
    <3>3. WrittenSource(s) # NoRow
      BY <3>1, <3>2, TimingAssumption
    <3>4. Content'[s] = <<ingest.def.corpus, LastText(s)>>
      BY <2>2, <3>1, <3>3
    <3>5. /\ KB!LastUnder(ingest.records, s[2]) # {}
          /\ LastText(s) =
                ingest.records[CHOOSE i \in KB!LastUnder(ingest.records, s[2]) : TRUE].body
      BY <1>1, <2>5, LastTextIsPublished
    <3> QED
      BY <2>5, <3>4, <3>5
  <2> QED
    BY <2>3, <2>4, <2>5
<1>3. Content' = [s \in SourceKeys |-> Content'[s]]
  BY DEF Content
<1> QED
  BY <1>1, <1>2, <1>3 DEF KB!Publish, KB!SourceKeys, SourceKeys

\* Ingests with their clocks implement the abstract knowledge base: it changes
\* by the atomic publication of one capture, and by nothing else.
THEOREM TimingRefinement == Spec => KB!Spec
<1>1. Init => KB!Init /\ NonEmpty
  BY DEF Init, KB!Init, Content, NonEmpty, KB!SourceKeys, SourceKeys
<1>2. TimingInv /\ NonEmpty /\ [Next]_vars => NonEmpty' /\ [KB!Next]_Content
  <2> SUFFICES ASSUME TimingInv, NonEmpty, [Next]_vars
               PROVE  NonEmpty' /\ [KB!Next]_Content
    OBVIOUS
  <2>1. CASE CommitIngest
    <3>1. ingest.def \in Definitions /\ ingest.records \in Captures
      BY <2>1, CommitWrites DEF TimingInv, TypeOK, IngestType
    <3>2. KB!Publish(ingest.def, ingest.records)
      BY <2>1, CommitPublishes DEF TimingInv
    <3>3. NonEmpty'
      BY <2>1 DEF CommitIngest, NonEmpty
    <3> QED
      BY <3>1, <3>2, <3>3 DEF KB!Next
  <2>2. ASSUME NEW def \in Definitions, NEW records \in Captures, BeginIngest(def, records)
        PROVE  NonEmpty' /\ UNCHANGED Content
    BY <2>2 DEF BeginIngest, NonEmpty, tables, Content, Forever
  <2>3. CASE RollBack
    BY <2>3 DEF RollBack, NonEmpty, tables, Content, Forever
  <2>4. CASE UNCHANGED <<tables, ingest>>
    BY <2>4 DEF NonEmpty, tables, Content, Forever
  <2> QED
    BY <2>1, <2>2, <2>3, <2>4 DEF Next, vars, Tick, BeginSearch, Select
<1> QED
  BY <1>1, <1>2, TimingInvariant, PTL DEF Spec, KB!Spec

\* A search that no ingest overtakes returns what the abstract base holds when
\* its statement is answered: for such a search, what AnswerService lets Select
\* choose from comes down to one set of rows.
THEOREM SearchReadsContent ==
    Spec => [][\A q \in Searches :
                  result'[q] # result[q] /\ ~overtaken[q] =>
                     result'[q] = KB!Results(Corpora)]_vars
<1> DEFINE Exact == \A q \in Searches :
                       result'[q] # result[q] /\ ~overtaken[q] => result'[q] = Current
           Reads == \A q \in Searches :
                       result'[q] # result[q] /\ ~overtaken[q] =>
                          result'[q] = KB!Results(Corpora)
<1>1. TimingInv /\ Exact => Reads
  BY CurrentIsContent DEF TimingInv
<1>2. Spec => [][Exact]_vars
  BY UndisturbedExact DEF UndisturbedIsExact
<1> HIDE DEF Exact, Reads
<1>3. Spec => [][Reads]_vars
  BY <1>1, <1>2, TimingInvariant, PTL
<1> QED
  BY <1>3 DEF Reads

-----------------------------------------------------------------------------
(* The database that is searched: the proofs about Provisioning, for any   *)
(* roles, any availability of pgvector and any sequences of migrations.    *)

\* What the argument uses of the i-th statement of migration m: the type and
\* the table of sources are the second and third of the two that create them.
Describes(m, i) ==
    LET statement == Migration[m][i] IN
    /\ statement.where \in {"path", "public", "carrier_kb"}
    /\ statement.where = "carrier_kb" => m = 2
    /\ statement.name = "schema" => m = 2
    /\ statement.name = "valid_until" => statement.where = "path"
    /\ statement.name = "sources" =>
          i = 3 /\ <<m, statement.where>> \in {<<1, "path">>, <<2, "carrier_kb">>}
    /\ m = 1 /\ i = 2 => statement.name = "kb_corpus" /\ statement.where = "path"
    /\ m = 2 /\ i = 1 => statement.name = "schema" /\ statement.where = "carrier_kb"
    /\ m = 2 /\ i = 2 => statement.name = "kb_corpus" /\ statement.where = "carrier_kb"

\* So they are described, and no migration is empty.
LEMMA StatementsOfMigrations ==
    \A m \in 1..4 :
        /\ Len(Migration[m]) \in Nat \ {0}
        /\ DOMAIN Migration[m] = 1..Len(Migration[m])
        /\ \A i \in DOMAIN Migration[m] : Describes(m, i)
<1> DEFINE C(name, where, guarded) == [name |-> name, where |-> where, guarded |-> guarded]
<1>1. /\ Migration[1] = << C("vector", "public", TRUE), C("kb_corpus", "path", FALSE),
            C("sources", "path", FALSE), C("documents", "path", FALSE),
            C("document_sources", "path", FALSE) >>
      /\ Migration[2] = << C("schema", "carrier_kb", TRUE), C("kb_corpus", "carrier_kb", TRUE),
            C("sources", "carrier_kb", TRUE), C("documents", "carrier_kb", TRUE),
            C("document_sources", "carrier_kb", TRUE) >>
      /\ Migration[3] = << C("ingestion_runs", "path", TRUE) >>
      /\ Migration[4] = << C("valid_until", "path", TRUE) >>
  BY DEF Migration, Create
<1>2. /\ DOMAIN Migration[1] = 1..5 /\ Len(Migration[1]) = 5
      /\ DOMAIN Migration[2] = 1..5 /\ Len(Migration[2]) = 5
      /\ DOMAIN Migration[3] = 1..1 /\ Len(Migration[3]) = 1
      /\ DOMAIN Migration[4] = 1..1 /\ Len(Migration[4]) = 1
  BY <1>1
<1>3. \A i \in 1..5 : Describes(1, i)
  <2>1. Describes(1, 1) BY <1>1 DEF Describes
  <2>2. Describes(1, 2) BY <1>1 DEF Describes
  <2>3. Describes(1, 3) BY <1>1 DEF Describes
  <2>4. Describes(1, 4) BY <1>1 DEF Describes
  <2>5. Describes(1, 5) BY <1>1 DEF Describes
  <2> QED BY <2>1, <2>2, <2>3, <2>4, <2>5
<1>4. \A i \in 1..5 : Describes(2, i)
  <2>1. Describes(2, 1) BY <1>1 DEF Describes
  <2>2. Describes(2, 2) BY <1>1 DEF Describes
  <2>3. Describes(2, 3) BY <1>1 DEF Describes
  <2>4. Describes(2, 4) BY <1>1 DEF Describes
  <2>5. Describes(2, 5) BY <1>1 DEF Describes
  <2> QED BY <2>1, <2>2, <2>3, <2>4, <2>5
<1>5. Describes(3, 1) /\ Describes(4, 1)
  BY <1>1 DEF Describes
<1> DEFINE Q(m) == /\ Len(Migration[m]) \in Nat \ {0}
                   /\ DOMAIN Migration[m] = 1..Len(Migration[m])
                   /\ \A i \in DOMAIN Migration[m] : Describes(m, i)
<1>6. Q(1) BY <1>2, <1>3
<1>7. Q(2) BY <1>2, <1>4
<1>8. Q(3) /\ Q(4) BY <1>2, <1>5
<1> HIDE DEF Q
<1>9. \A m \in 1..4 : Q(m)
  BY <1>6, <1>7, <1>8
<1> QED BY <1>9 DEF Q

\* A search_path is that of public, or has carrier_kb first once it exists.
LEMMA Paths ==
    ASSUME NEW role
    PROVE  \/ SearchPath(role) = <<"public">>
           \/ /\ SearchPath(role) = <<"carrier_kb", "public">>
              /\ role = "carrier_kb" /\ <<"carrier_kb", "schema">> \in objects
BY DEF SearchPath

\* A name is found in the first schema of the path that has it.
LEMMA Resolution ==
    ASSUME NEW role, NEW name
    PROVE  LET path == SearchPath(role) IN
           /\ <<Head(path), name>> \in objects => Resolved(role, name) = Head(path)
           /\ Resolved(role, name) = "carrier_kb" => Head(path) = "carrier_kb"
           /\ Resolved(role, name) \in {"none", "public", "carrier_kb"}
<1> DEFINE path == SearchPath(role)
           found == {i \in DOMAIN path : <<path[i], name>> \in objects}
<1>1. Resolved(role, name) =
         IF found = {} THEN "none" ELSE path[CHOOSE i \in found : \A j \in found : i <= j]
  BY DEF Resolved
<1>2. CASE path = <<"public">>
  <2>1. DOMAIN path = {1} /\ path[1] = "public" /\ Head(path) = "public"
    BY <1>2
  <2>2. found # {} => (CHOOSE i \in found : \A j \in found : i <= j) = 1
    <3> SUFFICES ASSUME found = {1} PROVE (CHOOSE i \in found : \A j \in found : i <= j) = 1
      BY <2>1
    <3> QED OBVIOUS
  <2>3. <<Head(path), name>> \in objects => 1 \in found
    BY <2>1
  <2> QED BY <1>1, <2>1, <2>2, <2>3
<1>3. CASE path = <<"carrier_kb", "public">>
  <2>1. DOMAIN path = {1, 2} /\ path[1] = "carrier_kb" /\ path[2] = "public"
        /\ Head(path) = "carrier_kb"
    BY <1>3
  <2>2. 1 \in found => (CHOOSE i \in found : \A j \in found : i <= j) = 1
    BY <2>1
  <2>3. found # {} /\ 1 \notin found => (CHOOSE i \in found : \A j \in found : i <= j) = 2
    <3> SUFFICES ASSUME found = {2} PROVE (CHOOSE i \in found : \A j \in found : i <= j) = 2
      BY <2>1
    <3> QED OBVIOUS
  <2>4. <<Head(path), name>> \in objects => 1 \in found
    BY <2>1
  <2> HIDE DEF found
  <2> QED BY <1>1, <2>1, <2>2, <2>3, <2>4
<1> QED BY <1>2, <1>3, Paths DEF Resolved

\* A statement puts its object into one of the two schemas, into carrier_kb
\* only when that exists or migration 000002 names it.
LEMMA Targets ==
    ASSUME NEW m \in 1..4, NEW i \in DOMAIN Migration[m], ~Raises(Migration[m][i])
    PROVE  /\ Target(Migration[m][i]) \in Schemas
           /\ Target(Migration[m][i]) = "carrier_kb" =>
                 m = 2 \/ <<"carrier_kb", "schema">> \in objects
<1> DEFINE statement == Migration[m][i]
<1>1. Describes(m, i)
  BY StatementsOfMigrations
<1>2. Target(statement) # "none"
  BY DEF Raises
<1>3. CASE statement.where # "path"
  <2>1. Target(statement) = statement.where
    BY <1>3 DEF Target
  <2> QED BY <1>1, <1>3, <2>1 DEF Describes, Schemas
<1>4. CASE statement.where = "path" /\ statement.name = "valid_until"
  <2>1. Target(statement) = Resolved(Owner, "sources")
    BY <1>4 DEF Target
  <2>2. Resolved(Owner, "sources") \in {"none", "public", "carrier_kb"}
        /\ (Resolved(Owner, "sources") = "carrier_kb"
               => Head(SearchPath(Owner)) = "carrier_kb")
    BY Resolution
  <2> QED BY <1>2, <2>1, <2>2, Paths DEF Schemas
<1>5. CASE statement.where = "path" /\ statement.name # "valid_until"
  <2>1. Target(statement) = Head(SearchPath(Owner))
    BY <1>5 DEF Target
  <2> QED BY <2>1, Paths DEF Schemas
<1> QED BY <1>3, <1>4, <1>5

\* The statement that comes next is one of a migration.
LEMMA NextStatement ==
    ASSUME ProvisioningInv, ~Finished
    PROVE  /\ plan[at[1]] \in 1..4 /\ at[2] \in DOMAIN Migration[plan[at[1]]]
           /\ Describes(plan[at[1]], at[2]) /\ at[2] \in Nat \ {0}
<1>1. plan[at[1]] \in 1..4
  BY DEF ProvisioningInv, Finished
<1>2. at[2] \in DOMAIN Migration[plan[at[1]]]
  BY DEF ProvisioningInv
<1>3. DOMAIN Migration[plan[at[1]]] = 1..Len(Migration[plan[at[1]]])
      /\ Len(Migration[plan[at[1]]]) \in Nat /\ Describes(plan[at[1]], at[2])
  BY <1>1, <1>2, StatementsOfMigrations
<1> QED BY <1>1, <1>2, <1>3

\* Steps that create nothing keep the invariant.
LEMMA NothingCreated ==
    ASSUME ProvisioningInv, UNCHANGED <<objects, plan, at>>
    PROVE  ProvisioningInv'
BY DEF ProvisioningInv, Past, Finished, SearchPath

\* So does a statement that creates its object: the type comes right before the
\* table of sources, in the same schema.
LEMMA ObjectCreated ==
    ASSUME ProvisioningInv, Apply, ~UNCHANGED objects \/ ~UNCHANGED at
    PROVE  ProvisioningInv'
<1> DEFINE m == plan[at[1]]
           i == at[2]
           statement == Migration[m][i]
           target == Target(statement)
<1>1. /\ ~Finished /\ plan' = plan /\ ~Raises(statement)
      /\ objects' = objects \cup {<<target, statement.name>>}
      /\ at' = IF i < Len(Migration[m]) THEN <<at[1], i + 1>> ELSE <<at[1] + 1, 1>>
  BY DEF Apply
<1>2. m \in 1..4 /\ i \in DOMAIN Migration[m] /\ Describes(m, i) /\ i \in Nat \ {0}
  BY <1>1, NextStatement
<1>3. target \in Schemas
      /\ (target = "carrier_kb" => m = 2 \/ <<"carrier_kb", "schema">> \in objects)
  BY <1>1, <1>2, Targets
<1>4. m = 1 => SearchPath(Owner)' = SearchPath(Owner)
  BY <1>1, <1>2 DEF Describes, SearchPath
<1>5. statement.where = "path" /\ statement.name # "valid_until"
         => target = Head(SearchPath(Owner))
  BY DEF Target
<1>6. statement.where = "carrier_kb" => target = "carrier_kb"
  BY DEF Target
<1>7. /\ at[1] \in Nat \ {0} /\ at'[1] \in Nat \ {0}
      /\ \/ at'[1] = at[1] /\ at'[2] = i + 1 /\ i + 1 \in DOMAIN Migration[m]
         \/ at'[1] = at[1] + 1 /\ at'[2] = 1
  <2>1. DOMAIN Migration[m] = 1..Len(Migration[m]) /\ Len(Migration[m]) \in Nat
    BY <1>2, StatementsOfMigrations
  <2>2. at[1] \in Nat \ {0}
    BY DEF ProvisioningInv
  <2>3. CASE i < Len(Migration[m])
    <3>1. at' = <<at[1], i + 1>>
      BY <1>1, <2>3
    <3> QED BY <1>2, <2>1, <2>2, <2>3, <3>1
  <2>4. CASE ~(i < Len(Migration[m]))
    <3>1. at' = <<at[1] + 1, 1>>
      BY <1>1, <2>4
    <3> QED BY <2>2, <3>1
  <2> QED BY <2>3, <2>4
<1>8. ~Finished' => at'[2] \in DOMAIN Migration[plan[at'[1]]]
  <2>1. ~Finished' => plan[at'[1]] \in 1..4
    BY <1>1, <1>7 DEF ProvisioningInv, Finished
  <2>2. ~Finished' => 1 \in DOMAIN Migration[plan[at'[1]]]
    BY <2>1, StatementsOfMigrations
  <2>3. CASE at'[1] = at[1] /\ at'[2] = i + 1 /\ i + 1 \in DOMAIN Migration[m]
    BY <2>3
  <2>4. CASE at'[2] = 1
    BY <2>2, <2>4
  <2> QED BY <1>7, <2>3, <2>4
<1>9. m = 2 => <<"carrier_kb", "schema">> \in objects'
  <2>1. CASE i = 1
    BY <1>1, <1>2, <1>6, <2>1 DEF Describes
  <2>2. CASE i > 1
    BY <1>1, <2>2 DEF ProvisioningInv, Past
  <2> QED BY <1>2, <2>1, <2>2
<1>10. \A o \in objects' : o[1] = "carrier_kb" => <<"carrier_kb", "schema">> \in objects'
  <2>1. <<target, statement.name>>[1] = target
    OBVIOUS
  <2> QED BY <1>1, <1>3, <1>9, <2>1 DEF ProvisioningInv
<1>11. ASSUME NEW s \in Schemas, <<s, "sources">> \in objects'
       PROVE  <<s, "kb_corpus">> \in objects'
  <2>1. CASE <<s, "sources">> \in objects
    BY <1>1, <2>1 DEF ProvisioningInv
  <2>2. CASE s = target /\ statement.name = "sources"
    <3>1. i = 3 /\ <<m, statement.where>> \in {<<1, "path">>, <<2, "carrier_kb">>}
      BY <1>2, <2>2 DEF Describes
    <3>2. Past(m, 2)
      BY <1>1, <3>1 DEF Past
    <3> QED BY <1>1, <1>5, <1>6, <2>2, <3>1, <3>2 DEF ProvisioningInv
  <2> QED BY <1>1, <1>11, <2>1, <2>2
<1>12. ASSUME NEW l, NEW k \in 1..2, Past(l, k)'
       PROVE  l = m /\ (i = k \/ Past(l, k))
  BY <1>1, <1>2, <1>7, <1>12 DEF Past
<1>13. Past(1, 2)' => <<Head(SearchPath(Owner)), "kb_corpus">>' \in objects'
  <2> SUFFICES ASSUME Past(1, 2)'
               PROVE  <<Head(SearchPath(Owner)), "kb_corpus">> \in objects'
    BY <1>4, <1>12
  <2>1. m = 1
    BY <1>12
  <2>2. i = 2 \/ Past(1, 2)
    BY <1>12
  <2>3. CASE i = 2
    BY <1>1, <1>2, <1>5, <2>1, <2>3 DEF Describes
  <2>4. CASE Past(1, 2)
    BY <1>1, <2>4 DEF ProvisioningInv
  <2> QED BY <2>2, <2>3, <2>4
<1>14. Past(2, 1)' => <<"carrier_kb", "schema">> \in objects'
  BY <1>9, <1>12
<1>15. Past(2, 2)' => <<"carrier_kb", "kb_corpus">> \in objects'
  <2> SUFFICES ASSUME Past(2, 2)' PROVE <<"carrier_kb", "kb_corpus">> \in objects'
    OBVIOUS
  <2>1. m = 2
    BY <1>12
  <2>2. i = 2 \/ Past(2, 2)
    BY <1>12
  <2>3. CASE i = 2
    BY <1>1, <1>2, <1>6, <2>1, <2>3 DEF Describes
  <2>4. CASE Past(2, 2)
    BY <1>1, <2>4 DEF ProvisioningInv
  <2> QED BY <2>2, <2>3, <2>4
<1> QED BY <1>1, <1>7, <1>8, <1>10, <1>11, <1>13, <1>14, <1>15 DEF ProvisioningInv, Schemas

\* Whatever migrations are applied, in whatever order, again or not at all, and
\* wherever one stops, the invariant of the schemas holds.
THEOREM ProvisioningInvariant == ProvisioningSpec => []ProvisioningInv
<1>1. ProvisioningInit => ProvisioningInv
  <2> SUFFICES ASSUME ProvisioningInit PROVE ProvisioningInv
    OBVIOUS
  <2>1. plan \in Seq(1..4) /\ at = <<1, 1>> /\ objects = {}
    BY ProvisioningAssumption DEF ProvisioningInit
  <2>2. at[1] = 1 /\ at[2] = 1
    BY <2>1
  <2>3. ~Finished => plan[at[1]] \in 1..4
    BY <2>1, <2>2 DEF Finished
  <2>4. ~Finished => at[2] \in DOMAIN Migration[plan[at[1]]]
    BY <2>2, <2>3, StatementsOfMigrations
  <2> QED BY <2>1, <2>2, <2>4 DEF ProvisioningInv, Past
<1>2. ProvisioningInv /\ [ProvisioningNext]_provisioningVars => ProvisioningInv'
  BY NothingCreated, ObjectCreated DEF ProvisioningNext, Apply, Interrupt, provisioningVars
<1> QED
  BY <1>1, <1>2, PTL DEF ProvisioningSpec

\* A database that the writer can write to is one that the service can search,
\* if the schema of the settings is the one that the role of the service
\* resolves names in first.
THEOREM WrittenSearchable ==
    ASSUME KbSchema = "carrier_kb" <=> Runtime = "carrier_kb"
    PROVE  ProvisioningSpec => []WrittenIsSearchable
<1>1. ProvisioningInv => WrittenIsSearchable
  <2> SUFFICES ASSUME ProvisioningInv, CanIngest PROVE CanSearch
    BY DEF WrittenIsSearchable
  <2>1. Has({"sources", "documents", "document_sources", "valid_until"})
    BY DEF CanIngest, Has, Tables
  <2>2. <<KbSchema, "sources">> \in objects
    BY DEF CanIngest, Has, Tables
  <2>3. <<KbSchema, "kb_corpus">> \in objects
    BY <2>2, ProvisioningAssumption DEF ProvisioningInv
  <2>4. Head(SearchPath(Runtime)) = KbSchema
    BY <2>3, ProvisioningAssumption DEF ProvisioningInv, SearchPath, Schemas
  <2> QED BY <2>1, <2>3, <2>4, Resolution DEF CanSearch
<1> QED
  BY <1>1, ProvisioningInvariant, PTL

\* The rollout of the documentation, with KB_SCHEMA=carrier_kb and roles of
\* other names: the migrations never give the schema what the writer needs, in
\* any order and however often, because the column of 000004 goes to the tables
\* of public, and never let the service find the type of its search.
THEOREM RolloutServesNothing ==
    ASSUME KbSchema = "carrier_kb", Owner # "carrier_kb", Runtime # "carrier_kb"
    PROVE  ProvisioningSpec => [](~CanIngest /\ ~CanSearch)
<1> DEFINE Lacks == <<"carrier_kb", "valid_until">> \notin objects
<1>1. ASSUME NEW role, role # "carrier_kb", NEW name
      PROVE  Resolved(role, name) # "carrier_kb"
  <2>1. SearchPath(role) = <<"public">>
    BY <1>1, Paths
  <2>2. Head(SearchPath(role)) = "public"
    BY <2>1
  <2> QED BY <2>2, Resolution
<1>2. ProvisioningInit => Lacks
  BY DEF ProvisioningInit
<1>3. ProvisioningInv /\ Lacks /\ [ProvisioningNext]_provisioningVars => Lacks'
  <2> SUFFICES ASSUME ProvisioningInv, Lacks, Apply, objects' # objects
               PROVE  Lacks'
    BY DEF ProvisioningNext, Interrupt, provisioningVars
  <2> DEFINE statement == Migration[plan[at[1]]][at[2]]
  <2>1. ~Finished /\ objects' = objects \cup {<<Target(statement), statement.name>>}
    BY DEF Apply
  <2>2. statement.name = "valid_until" => statement.where = "path"
    BY <2>1, NextStatement DEF Describes
  <2>3. statement.name = "valid_until" => Target(statement) = Resolved(Owner, "sources")
    BY <2>2 DEF Target
  <2> QED BY <1>1, <2>1, <2>3
<1>4. Lacks => ~CanIngest
  BY DEF CanIngest, Has
<1>5. ~CanSearch
  BY <1>1 DEF CanSearch
<1> HIDE DEF Lacks
<1> QED
  BY <1>2, <1>3, <1>4, <1>5, ProvisioningInvariant, PTL DEF ProvisioningSpec

=============================================================================
